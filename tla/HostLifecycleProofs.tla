------------------------ MODULE HostLifecycleProofs ------------------------
(***************************************************************************)
(* Theorems about the notice before a shutdown (agent/src/modules/         *)
(* lifecycle.rs) and the report after a reboot (boot.rs), for every        *)
(* re-notification interval and inhibitor delay and every number of boots, *)
(* starts and queued messages.                                             *)
(***************************************************************************)
EXTENDS HostLifecycle, SequenceTheorems, TLAPS

Times == 0 .. MaxTime \cup {None}

(***************************************************************************)
(* Operators.                                                              *)
(***************************************************************************)

\* A message handed to the sink leaves the lane within its capacity.
LEMMA SendType ==
    ASSUME TypeOK, Send
    PROVE  lane' \in 0 .. LaneCap
  BY LifecycleAssumption DEF TypeOK, Send, HasRoom

\* A notice enters the lane now or is discarded now.
LEMMA NoticeFacts ==
    ASSUME TypeOK, SendNotice
    PROVE  /\ lane' \in 0 .. LaneCap /\ sent' \in Times /\ dropped' \in Times
           /\ \/ sent' = now /\ dropped' = dropped
              \/ dropped' = now /\ sent' = sent
  <1>1. lane' \in 0 .. LaneCap
    BY SendType DEF SendNotice
  <1>2. now \in Times /\ sent \in Times /\ dropped \in Times
    BY DEF TypeOK, Times
  <1> QED
    BY <1>1, <1>2 DEF SendNotice

\* guess_kind_from_scheduled_path names one of the two metrics.
LEMMA GuessType == \A m \in GuessKind : m \in Metrics
  BY DEF GuessKind, Metrics

\* What the tracker gives out it records, for this metric only.
LEMMA EmitFacts ==
    ASSUME TypeOK, NEW m \in Metrics, Emit(m)
    PROVE  /\ told' \in [Metrics -> Times]
           /\ \A n \in Metrics : told'[n] = told[n] \/ told'[n] = now
  <1>1. now \in Times /\ told \in [Metrics -> Times]
    BY DEF TypeOK, Times
  <1> QED
    BY <1>1 DEF Emit

\* The id is written, the file is left as it is, or it is left empty.
LEMMA WriteFacts ==
    ASSUME TypeOK, WriteId(boot)
    PROVE  /\ last_boot' \in Contents /\ disk' \in SUBSET Contents
           /\ failed' \in [1 .. MaxBoots -> Nat]
           /\ \A b \in 1 .. MaxBoots : failed'[b] >= failed[b]
           /\ \/ last_boot' = boot /\ failed' = failed
              \/ /\ failed'[boot] = failed[boot] + 1
                 /\ last_boot' = last_boot \/ last_boot' = Torn
  <1>1. /\ boot \in 1 .. MaxBoots /\ failed \in [1 .. MaxBoots -> Nat] /\ MaxBoots \in Nat
        /\ last_boot \in Contents /\ disk \in SUBSET Contents
    BY LifecycleAssumption DEF TypeOK
  <1>2. boot \in Contents /\ Torn \in Contents
    BY <1>1 DEF Contents, Torn
  <1>3. CASE last_boot' = boot /\ disk' = disk \cup {Torn, boot} /\ UNCHANGED failed
    BY <1>1, <1>2, <1>3
  <1>4. CASE /\ failed' = [failed EXCEPT ![boot] = @ + 1]
             /\ \/ UNCHANGED <<last_boot, disk>>
                \/ last_boot' = Torn /\ disk' = disk \cup {Torn}
    <2>1. /\ failed' \in [1 .. MaxBoots -> Nat] /\ failed'[boot] = failed[boot] + 1
          /\ \A b \in 1 .. MaxBoots : failed'[b] >= failed[b]
      BY <1>1, <1>4
    <2> QED
      BY <1>1, <1>2, <1>4, <2>1
  <1> QED
    BY <1>3, <1>4 DEF WriteId

-----------------------------------------------------------------------------
(***************************************************************************)
(* Types.                                                                  *)
(***************************************************************************)

\* A host that runs and has never run the agent.
LEMMA InitIInv == Init => IInv
  <1> SUFFICES ASSUME Init PROVE IInv
    OBVIOUS
  <1>1. TypeOK
    <2>1. <<>> \in Seq(Payloads) /\ <<>> \in Seq(1 .. MaxBoots)
      OBVIOUS
    <2>2. /\ now \in 0 .. MaxTime /\ boot \in 1 .. MaxBoots /\ deadline \in Nat
          /\ lane \in 0 .. LaneCap
      BY LifecycleAssumption DEF Init
    <2>3. /\ reports \in [1 .. MaxBoots -> Nat] /\ failed \in [1 .. MaxBoots -> Nat]
          /\ told \in [Metrics -> 0 .. MaxTime \cup {None}]
      BY DEF Init
    <2>4. last_boot \in Contents /\ disk \in SUBSET Contents
      BY DEF Init, Contents
    <2> QED
      BY <2>1, <2>2, <2>3, <2>4 DEF Init, TypeOK
  <1>2. /\ reports = [b \in 1 .. MaxBoots |-> 0] /\ failed = [b \in 1 .. MaxBoots |-> 0]
        /\ boot = 1 /\ 1 \in 1 .. MaxBoots /\ Len(starts) = 0
        /\ last_boot = None /\ disk = {None}
        /\ ~pending /\ host = "up" /\ None # 1
    BY LifecycleAssumption DEF Init
  <1>3. \A m \in Metrics : told[m] = None
    BY DEF Init
  <1>4. BootsRecorded
    <2>1. None # Torn
      BY LifecycleAssumption DEF Torn
    <2> QED
      BY <1>2, <2>1 DEF BootsRecorded, Written
  <1>5. NoticeOwed /\ ReportedOncePerBoot
    BY <1>2, <1>3 DEF NoticeOwed, Whereabouts, ReportedOncePerBoot
  <1> QED
    BY <1>1, <1>4, <1>5 DEF IInv

\* Every step of the agent, of logind and of the power supply keeps the types; the
\* stream of a loop that does not listen is empty and a dead agent holds nothing.
LEMMA NextType ==
    ASSUME TypeOK, [Next]_vars
    PROVE  TypeOK'
  <1> USE DEF Times
  <1>0. <<>> \in Seq(Payloads) /\ 0 \in 0 .. LaneCap
    BY LifecycleAssumption
  <1>1. CASE Start
    <2>1. starts' \in Seq(1 .. MaxBoots)
      BY <1>1 DEF Start, TypeOK
    <2>2. /\ last_boot' \in Contents /\ disk' \in SUBSET Contents
          /\ failed' \in [1 .. MaxBoots -> Nat] /\ pending' \in BOOLEAN
      <3>1. CASE WriteId(boot) /\ pending' = (last_boot # None /\ last_boot # boot)
        BY <3>1, WriteFacts
      <3>2. CASE pending' = FALSE /\ UNCHANGED <<last_boot, disk, failed>>
        BY <3>2 DEF TypeOK
      <3> QED
        BY <1>1, <3>1, <3>2 DEF Start, file
    <2>3. UNCHANGED <<enabled, now, boot, host, deadline, scheduled, loop, signals, alerted,
                      carrying, told, lane, sent, dropped, owed, held, reports>> /\ agent' = TRUE
      BY <1>1 DEF Start, notices
    <2> QED
      BY <2>1, <2>2, <2>3 DEF TypeOK
  <1>2. CASE BootReport
    <2>1. lane' \in 0 .. LaneCap
      BY <1>2, SendType DEF BootReport
    <2>2. reports' \in [1 .. MaxBoots -> Nat]
      BY <1>2 DEF BootReport, TypeOK
    <2>3. /\ UNCHANGED <<enabled, now, boot, host, deadline, scheduled, starts, last_boot, disk,
                         failed, held, agent, loop, signals, alerted, carrying, told, sent,
                         dropped, owed>>
          /\ pending' = FALSE /\ pending
      BY <1>2 DEF BootReport, world, file
    <2>4. agent' /\ pending' \in BOOLEAN
      BY <2>3 DEF TypeOK
    <2>5. /\ (enabled \in Configs /\ now \in 0 .. MaxTime /\ boot \in 1 .. MaxBoots)'
          /\ (host \in {"up", "stopping", "off"} /\ deadline \in Nat)'
          /\ (scheduled \in Modes \cup {None} /\ starts \in Seq(1 .. MaxBoots))'
          /\ (last_boot \in Contents /\ disk \in SUBSET Contents)'
      BY <2>3 DEF TypeOK
    <2>6. /\ (agent \in BOOLEAN /\ loop \in {"idle", "locked", "listening"})'
          /\ (signals \in Seq(Payloads) /\ (loop # "listening" => signals = <<>>))'
          /\ (alerted \in BOOLEAN /\ carrying \in BOOLEAN /\ owed \in BOOLEAN /\ held \in BOOLEAN)'
          /\ (told \in [Metrics -> 0 .. MaxTime \cup {None}])'
          /\ (sent \in 0 .. MaxTime \cup {None} /\ dropped \in 0 .. MaxTime \cup {None})'
          /\ (failed \in [1 .. MaxBoots -> Nat])'
      BY <2>3 DEF TypeOK
    <2> QED
      BY <2>1, <2>2, <2>4, <2>5, <2>6 DEF TypeOK
  <1>3. CASE Inhibit
    BY <1>3 DEF Inhibit, TypeOK, world, file, notices
  <1>4. CASE Subscribe
    BY <1>4 DEF Subscribe, TypeOK, world, file, notices
  <1>5. CASE OnSignal
    <2>1. signals \in Seq(Payloads) /\ signals # <<>> /\ Tail(signals) \in Seq(Payloads) /\ agent
      BY <1>5, HeadTailProperties DEF OnSignal, TypeOK
    <2>2. CASE Head(signals) = "start"
      <3>1. /\ told' \in [Metrics -> Times] /\ lane' \in 0 .. LaneCap
            /\ sent' \in Times /\ dropped' \in Times
        <4>1. PICK m \in GuessKind : IF Fresh(m) THEN UNCHANGED notices
                                     ELSE Emit(m) /\ SendNotice
          BY <1>5, <2>2 DEF OnSignal
        <4>2. CASE Fresh(m)
          BY <4>1, <4>2 DEF notices, TypeOK
        <4>3. CASE ~Fresh(m)
          BY <4>1, <4>3, EmitFacts, NoticeFacts, GuessType
        <4> QED
          BY <4>2, <4>3
      <3>2. loop' = "idle" /\ signals' = <<>>
        BY <1>5, <2>2 DEF OnSignal
      <3> QED
        BY <1>0, <1>5, <2>1, <3>1, <3>2 DEF OnSignal, TypeOK, world, file
    <2>3. CASE Head(signals) # "start"
      <3>1. signals' = Tail(signals) /\ UNCHANGED <<loop, notices>>
        BY <1>5, <2>3 DEF OnSignal
      <3> QED
        BY <1>5, <2>1, <3>1 DEF OnSignal, TypeOK, world, file, notices
    <2> QED
      BY <2>2, <2>3
  <1>6. CASE LoopFails
    BY <1>0, <1>6 DEF LoopFails, TypeOK, file, notices
  <1>7. CASE PollFile
    <2>1. told' \in [Metrics -> Times] /\ carrying' \in BOOLEAN
      <3>1. CASE UNCHANGED <<told, carrying>>
        BY <3>1 DEF TypeOK
      <3>2. CASE \E m \in GuessKind : Emit(m) /\ carrying' = TRUE
        BY <3>2, EmitFacts, GuessType
      <3> QED
        BY <1>7, <3>1, <3>2 DEF PollFile
    <2> QED
      BY <1>7, <2>1 DEF PollFile, TypeOK, world, file
  <1>8. CASE PollSend
    <2>1. lane' \in 0 .. LaneCap /\ sent' \in Times /\ dropped' \in Times /\ agent
      BY <1>8, NoticeFacts DEF PollSend, TypeOK
    <2> QED
      BY <1>8, <2>1 DEF PollSend, TypeOK, world, file
  <1>9. CASE OtherAlert
    <2>1. lane' \in 0 .. LaneCap
      BY <1>9, SendType DEF OtherAlert
    <2> QED
      BY <1>9, <2>1 DEF OtherAlert, TypeOK, world, file
  <1>10. CASE Ship
    <2>1. lane' \in 0 .. LaneCap /\ agent
      BY <1>10, LifecycleAssumption DEF Ship, TypeOK
    <2> QED
      BY <1>10, <2>1 DEF Ship, TypeOK, world, file
  <1>11. ASSUME Gone, UNCHANGED scheduled, host' \in {"up", "stopping", "off"}, held' \in BOOLEAN,
                deadline' \in Nat, last_boot' \in Contents, disk' \in SUBSET Contents
         PROVE  TypeOK'
    <2>1. told' \in [Metrics -> Times]
      BY <1>11 DEF Gone
    <2> QED
      BY <1>0, <1>11, <2>1 DEF Gone, TypeOK
  <1>12. CASE Crash
    <2>1. /\ host' \in {"up", "stopping", "off"} /\ held' \in BOOLEAN /\ deadline' \in Nat
          /\ last_boot' \in Contents /\ disk' \in SUBSET Contents /\ Gone /\ UNCHANGED scheduled
      BY <1>12 DEF Crash, TypeOK
    <2> QED
      BY <1>11, <2>1
  <1>13. CASE Proceed
    <2>1. /\ host' \in {"up", "stopping", "off"} /\ held' \in BOOLEAN /\ deadline' \in Nat
          /\ last_boot' \in Contents /\ disk' \in SUBSET Contents /\ Gone /\ UNCHANGED scheduled
      BY <1>13 DEF Proceed, TypeOK
    <2> QED
      BY <1>11, <2>1
  <1>14. CASE PowerLoss
    <2>1. /\ host' \in {"up", "stopping", "off"} /\ held' \in BOOLEAN /\ deadline' \in Nat
          /\ last_boot' \in Contents /\ disk' \in SUBSET Contents /\ Gone /\ UNCHANGED scheduled
      BY <1>14 DEF PowerLoss, TypeOK
    <2> QED
      BY <1>11, <2>1
  <1>15. ASSUME NEW mode \in Modes, Schedule(mode)
         PROVE  TypeOK'
    BY <1>15 DEF Schedule, TypeOK, agentVars, file, notices
  <1>16. CASE Cancel
    BY <1>16 DEF Cancel, TypeOK, agentVars, file, notices
  <1>17. ASSUME NEW payload \in Payloads, Signal(payload)
         PROVE  signals' \in Seq(Payloads) /\ (loop # "listening" => signals' = <<>>)
    <2>1. signals \in Seq(Payloads) /\ (loop # "listening" => signals = <<>>)
      BY DEF TypeOK
    <2>2. \A p \in Payloads : Append(signals, p) \in Seq(Payloads)
      BY <2>1
    <2> QED
      BY <1>17, <2>1, <2>2 DEF Signal, Payloads
  <1>18. CASE Request
    <2>1. signals' \in Seq(Payloads) /\ (loop # "listening" => signals' = <<>>)
      BY <1>17, <1>18 DEF Request, Payloads
    <2>2. now \in Nat /\ deadline' = now + InhibitMax /\ InhibitMax \in Nat
      BY <1>18, LifecycleAssumption DEF Request, TypeOK
    <2>3. deadline' \in Nat
      BY <2>2
    <2> QED
      BY <1>18, <2>1, <2>3 DEF Request, TypeOK, agentVars, file, notices
  <1>19. CASE Abandon
    <2>1. signals' \in Seq(Payloads) /\ (loop # "listening" => signals' = <<>>)
      BY <1>17, <1>19 DEF Abandon, Payloads
    <2> QED
      BY <1>19, <2>1 DEF Abandon, TypeOK, agentVars, file, notices
  <1>20. CASE Writeback
    BY <1>20 DEF Writeback, TypeOK, agentVars, notices
  <1>21. CASE BootHost
    <2>1. boot' \in 1 .. MaxBoots
      BY <1>21, LifecycleAssumption DEF BootHost, TypeOK
    <2> QED
      BY <1>21, <2>1 DEF BootHost, TypeOK, agentVars, file, notices
  <1>22. CASE Tick
    BY <1>22, LifecycleAssumption DEF Tick, TypeOK, agentVars, file, notices
  <1>23. CASE UNCHANGED vars
    BY <1>23 DEF vars, TypeOK, file, notices
  <1> QED
    BY <1>1, <1>2, <1>3, <1>4, <1>5, <1>6, <1>7, <1>8, <1>9, <1>10, <1>12, <1>13, <1>14,
       <1>15, <1>16, <1>18, <1>19, <1>20, <1>21, <1>22, <1>23 DEF Next

\* The agent's and logind's state is well typed in every behaviour.
THEOREM TypeCorrect == Spec => []TypeOK
  <1>1. Init => TypeOK
    BY InitIInv DEF IInv
  <1>2. TypeOK /\ [Next]_vars => TypeOK'
    BY NextType
  <1> QED
    BY <1>1, <1>2, PTL DEF Spec

-----------------------------------------------------------------------------
(***************************************************************************)
(* The report after a reboot.                                              *)
(***************************************************************************)

\* A later start, or a failed write more, excuses what was excused.
LEMMA ExcusedStays ==
    ASSUME TypeOK, Excused, UNCHANGED boot,
           failed'[boot] \in Nat, failed'[boot] >= failed[boot],
           Len(starts') \in Nat, Len(starts') >= Len(starts),
           \A i \in 1 .. Len(starts) : starts'[i] = starts[i]
    PROVE  Excused'
  <1>1. starts \in Seq(1 .. MaxBoots) /\ Len(starts) \in Nat /\ failed[boot] \in Nat
    BY DEF TypeOK
  <1>2. \A i \in 1 .. Len(starts) : i \in 1 .. Len(starts')
    BY <1>1
  <1>3. CASE failed[boot] > 0
    BY <1>1, <1>3 DEF Excused
  <1>4. CASE \E i \in 1 .. Len(starts) : starts[i] < boot
    BY <1>2, <1>4 DEF Excused
  <1> QED
    BY <1>3, <1>4 DEF Excused

\* The process starts: boot.rs compares the boot_id with its file and overwrites it,
\* or fails to.
LEMMA StartBoots ==
    ASSUME IInv, TypeOK', Start
    PROVE  BootsRecorded' /\ ReportedOncePerBoot'
  <1>0. TypeOK
    BY DEF IInv
  <1>1. /\ boot \in 1 .. MaxBoots /\ starts \in Seq(1 .. MaxBoots) /\ Len(starts) \in Nat
        /\ DOMAIN starts = 1 .. Len(starts) /\ host = "up" /\ UNCHANGED <<boot, host, reports>>
        /\ starts' = Append(starts, boot) /\ ~pending
        /\ MaxBoots \in Nat /\ reports \in [1 .. MaxBoots -> Nat]
        /\ failed \in [1 .. MaxBoots -> Nat] /\ failed' \in [1 .. MaxBoots -> Nat]
        /\ last_boot \in Contents
    <2>1. host = "up" /\ ~agent /\ starts' = Append(starts, boot) /\ UNCHANGED <<boot, host, reports>>
      BY DEF Start
    <2>2. /\ boot \in 1 .. MaxBoots /\ starts \in Seq(1 .. MaxBoots) /\ last_boot \in Contents
          /\ reports \in [1 .. MaxBoots -> Nat] /\ failed \in [1 .. MaxBoots -> Nat] /\ ~pending
      BY <1>0, <2>1 DEF TypeOK
    <2>3. failed' \in [1 .. MaxBoots -> Nat]
      BY DEF TypeOK
    <2>4. Len(starts) \in Nat /\ DOMAIN starts = 1 .. Len(starts) /\ MaxBoots \in Nat
      BY <2>2, LifecycleAssumption
    <2> QED
      BY <2>1, <2>2, <2>3, <2>4
  <1>2. /\ Len(starts') = Len(starts) + 1 /\ DOMAIN starts' = 1 .. Len(starts) + 1
        /\ \A i \in 1 .. Len(starts) : starts'[i] = starts[i]
        /\ starts'[Len(starts) + 1] = boot
    BY <1>1, AppendProperties
  <1>3. /\ \A b \in 1 .. MaxBoots : failed'[b] >= failed[b]
        /\ \/ /\ last_boot' = last_boot /\ failed' = failed /\ ~pending'
           \/ /\ pending' = (last_boot # None /\ last_boot # boot)
              /\ \/ last_boot' = boot /\ failed' = failed
                 \/ /\ failed'[boot] = failed[boot] + 1
                    /\ last_boot' = last_boot \/ last_boot' = Torn
    <2>1. CASE "boot" \in enabled
      BY <1>0, <1>1, <2>1, WriteFacts DEF Start
    <2>2. CASE "boot" \notin enabled
      BY <1>1, <2>2 DEF Start, file
    <2> QED
      BY <2>1, <2>2
  <1>4. \A i \in 1 .. Len(starts') : starts'[i] <= boot'
    BY <1>1, <1>2 DEF IInv, BootsRecorded
  <1>5. \A c \in disk' \cup {last_boot'} : Written(c)'
    <2> SUFFICES ASSUME NEW c \in disk' \cup {last_boot'}, c # None
                 PROVE  \E i \in 1 .. Len(starts') : c \in {Torn, starts'[i]}
      BY DEF Written
    <2>1. c \in disk \cup {last_boot} \/ c = Torn \/ c = boot
      BY DEF Start, WriteId, file
    <2>2. Len(starts) + 1 \in 1 .. Len(starts')
      BY <1>1, <1>2
    <2>3. CASE c \in disk \cup {last_boot}
      <3>1. PICK i \in 1 .. Len(starts) : c \in {Torn, starts[i]}
        BY <2>3 DEF IInv, BootsRecorded, Written
      <3>2. i \in 1 .. Len(starts') /\ starts'[i] = starts[i]
        BY <1>1, <1>2
      <3> QED
        BY <3>1, <3>2
    <2> QED
      BY <1>2, <2>1, <2>2, <2>3
  <1>6. Excused => Excused'
    BY <1>0, <1>1, <1>2, <1>3, ExcusedStays
  <1>7. last_boot # None /\ last_boot # boot => Excused
    <2> SUFFICES ASSUME last_boot # None, last_boot # boot, last_boot # Torn PROVE Excused
      BY <1>1 DEF IInv, BootsRecorded
    <2>1. PICK i \in 1 .. Len(starts) : starts[i] = last_boot
      BY DEF IInv, BootsRecorded, Written
    <2>2. starts[i] <= boot /\ starts[i] \in 1 .. MaxBoots
      BY <1>1, ElementOfSeq DEF IInv, BootsRecorded
    <2>3. starts[i] < boot
      BY <1>1, <2>1, <2>2
    <2> QED
      BY <2>3 DEF Excused
  <1>8. last_boot' = Torn \/ pending' => Excused'
    <2>1. CASE failed'[boot] = failed[boot] + 1
      BY <1>1, <2>1 DEF Excused
    <2>2. Torn # None /\ boot # Torn
      BY <1>1, LifecycleAssumption DEF Torn
    <2>3. CASE last_boot' = last_boot /\ failed' = failed /\ ~pending'
      BY <1>6, <1>7, <2>2, <2>3
    <2>4. CASE pending' = (last_boot # None /\ last_boot # boot) /\ last_boot' = boot
      BY <1>6, <1>7, <2>2, <2>4
    <2> QED
      BY <1>3, <2>1, <2>3, <2>4
  <1>9. reports[boot] + (IF pending' THEN 1 ELSE 0)
            <= failed'[boot] + (IF last_boot' = boot THEN 1 ELSE 0)
    <2>1. reports[boot] <= failed[boot] + (IF last_boot = boot THEN 1 ELSE 0)
      BY <1>1 DEF IInv, BootsRecorded
    <2>2. reports[boot] \in Nat /\ failed[boot] \in Nat /\ failed'[boot] \in Nat
      BY <1>1
    <2>3. CASE last_boot' = last_boot /\ failed' = failed /\ ~pending'
      BY <2>1, <2>2, <2>3
    <2>4. CASE /\ pending' => last_boot # boot
               /\ last_boot' = boot /\ failed' = failed
      BY <2>1, <2>2, <2>4
    <2>5. CASE /\ pending' => last_boot # boot
               /\ failed'[boot] = failed[boot] + 1
               /\ last_boot' = last_boot \/ last_boot' = Torn
      BY <2>1, <2>2, <2>5
    <2> QED
      BY <1>3, <2>3, <2>4, <2>5
  <1>10. BootsRecorded'
    <2>1. \A b \in 1 .. MaxBoots : b > boot' => reports'[b] = 0
      BY <1>1 DEF IInv, BootsRecorded
    <2>2. (host = "off" => ~agent)'
      BY <1>1
    <2> QED
      BY <1>1, <1>4, <1>5, <1>8, <1>9, <2>1, <2>2 DEF BootsRecorded
  <1>11. ReportedOncePerBoot'
    <2> SUFFICES ASSUME NEW b \in 1 .. MaxBoots
                 PROVE  /\ reports[b] <= 1 + failed'[b]
                        /\ reports[b] > 0 => \/ failed'[b] > 0
                                             \/ \E i \in DOMAIN starts' : starts'[i] < b
      BY <1>1 DEF ReportedOncePerBoot
    <2>1. /\ reports[b] <= 1 + failed[b]
          /\ reports[b] > 0 => failed[b] > 0 \/ \E i \in DOMAIN starts : starts[i] < b
      BY DEF IInv, ReportedOncePerBoot
    <2>2. reports[b] \in Nat /\ failed[b] \in Nat /\ failed'[b] \in Nat /\ failed'[b] >= failed[b]
      BY <1>1, <1>3
    <2>3. \A i \in DOMAIN starts : i \in DOMAIN starts' /\ starts'[i] = starts[i]
      BY <1>1, <1>2
    <2>4. reports[b] <= 1 + failed'[b] /\ (failed[b] > 0 => failed'[b] > 0)
      BY <2>1, <2>2
    <2> QED
      BY <2>1, <2>3, <2>4
  <1> QED
    BY <1>10, <1>11

\* The report is sent for a boot that still has one to its credit.
LEMMA ReportBoots ==
    ASSUME IInv, BootReport
    PROVE  BootsRecorded' /\ ReportedOncePerBoot'
  <1>1. /\ boot \in 1 .. MaxBoots /\ MaxBoots \in Nat /\ DOMAIN starts = 1 .. Len(starts)
        /\ reports \in [1 .. MaxBoots -> Nat] /\ failed \in [1 .. MaxBoots -> Nat]
        /\ pending /\ ~pending' /\ agent
        /\ reports' = [reports EXCEPT ![boot] = @ + 1]
        /\ UNCHANGED <<boot, host, agent, starts, last_boot, disk, failed>>
    <2>1. /\ pending /\ ~pending' /\ reports' = [reports EXCEPT ![boot] = @ + 1]
          /\ UNCHANGED <<boot, host, agent, starts, last_boot, disk, failed>>
      BY DEF BootReport, world, file
    <2>2. /\ boot \in 1 .. MaxBoots /\ DOMAIN starts = 1 .. Len(starts) /\ agent
          /\ reports \in [1 .. MaxBoots -> Nat] /\ failed \in [1 .. MaxBoots -> Nat]
      BY <2>1 DEF IInv, TypeOK
    <2> QED
      BY <2>1, <2>2, LifecycleAssumption
  <1>2. /\ reports[boot] + 1 <= failed[boot] + (IF last_boot = boot THEN 1 ELSE 0)
        /\ Excused /\ host # "off"
    BY <1>1 DEF IInv, BootsRecorded
  <1>3. /\ reports'[boot] = reports[boot] + 1
        /\ \A b \in 1 .. MaxBoots : b # boot => reports'[b] = reports[b]
    <2>1. reports' = [reports EXCEPT ![boot] = @ + 1] /\ boot \in DOMAIN reports
      BY <1>1
    <2> QED
      BY <2>1
  <1>4. BootsRecorded'
    <2>1. Excused'
      BY <1>1, <1>2 DEF Excused
    <2>2. \A c \in disk' \cup {last_boot'} : Written(c)'
      BY <1>1 DEF IInv, BootsRecorded, Written
    <2>3. \A b \in 1 .. MaxBoots : b > boot => reports'[b] = 0
      BY <1>1, <1>3 DEF IInv, BootsRecorded
    <2>4. (\A i \in 1 .. Len(starts) : starts[i] <= boot)'
      BY <1>1 DEF IInv, BootsRecorded
    <2>5. reports'[boot] <= failed[boot] + (IF last_boot = boot THEN 1 ELSE 0)
      BY <1>2, <1>3
    <2> QED
      BY <1>1, <1>2, <2>1, <2>2, <2>3, <2>4, <2>5 DEF BootsRecorded
  <1>5. ReportedOncePerBoot'
    <2> SUFFICES ASSUME NEW b \in 1 .. MaxBoots
                 PROVE  /\ reports'[b] <= 1 + failed[b]
                        /\ reports'[b] > 0 => \/ failed[b] > 0
                                              \/ \E i \in DOMAIN starts : starts[i] < b
      BY <1>1 DEF ReportedOncePerBoot
    <2>1. CASE b = boot
      <3>1. reports'[b] <= 1 + failed[b]
        BY <1>1, <1>2, <1>3, <2>1
      <3> QED
        BY <1>1, <1>2, <2>1, <3>1 DEF Excused
    <2>2. CASE b # boot
      BY <1>3, <2>2 DEF IInv, ReportedOncePerBoot
    <2> QED
      BY <2>1, <2>2
  <1> QED
    BY <1>4, <1>5

\* The host boots with a new boot_id that nothing has been reported for.
LEMMA BootBoots ==
    ASSUME IInv, BootHost
    PROVE  BootsRecorded' /\ ReportedOncePerBoot'
  <1>1. /\ boot \in 1 .. MaxBoots /\ MaxBoots \in Nat /\ boot' = boot + 1 /\ boot' \in 1 .. MaxBoots
        /\ starts \in Seq(1 .. MaxBoots) /\ failed \in [1 .. MaxBoots -> Nat]
        /\ host = "off" /\ host' = "up"
        /\ UNCHANGED <<agent, starts, last_boot, disk, failed, reports, pending>>
    BY LifecycleAssumption DEF IInv, TypeOK, BootHost, agentVars, file
  <1>2. ~agent /\ ~pending
    BY <1>1 DEF IInv, BootsRecorded, TypeOK
  <1>3. \A i \in 1 .. Len(starts) : starts[i] \in Nat /\ starts[i] <= boot
    <2>1. \A i \in 1 .. Len(starts) : starts[i] \in 1 .. MaxBoots
      BY <1>1, ElementOfSeq
    <2> QED
      BY <2>1 DEF IInv, BootsRecorded
  <1>4. \A i \in 1 .. Len(starts) : starts[i] <= boot' /\ starts[i] < boot'
    BY <1>1, <1>3
  <1>5. \A b \in 1 .. MaxBoots : b > boot' \/ b = boot' => reports[b] = 0
    BY <1>1 DEF IInv, BootsRecorded
  <1>6. \A c \in disk' \cup {last_boot'} : Written(c)'
    BY <1>1 DEF IInv, BootsRecorded, Written
  <1>7. last_boot' = Torn => Excused'
    <2> SUFFICES ASSUME last_boot = Torn PROVE Excused'
      BY <1>1
    <2>1. Torn # None
      BY LifecycleAssumption DEF Torn
    <2>2. \E i \in 1 .. Len(starts) : last_boot \in {Torn, starts[i]}
      BY <2>1 DEF IInv, BootsRecorded, Written
    <2> QED
      BY <1>1, <1>4, <2>2 DEF Excused
  <1>8. reports[boot'] = 0 /\ failed[boot'] \in Nat
    BY <1>1, <1>5
  <1>9. reports'[boot'] + (IF pending' THEN 1 ELSE 0)
            <= failed'[boot'] + (IF last_boot' = boot' THEN 1 ELSE 0)
    BY <1>1, <1>2, <1>8
  <1>10. BootsRecorded'
    BY <1>1, <1>2, <1>4, <1>5, <1>6, <1>7, <1>9 DEF BootsRecorded
  <1>11. ReportedOncePerBoot'
    BY <1>1 DEF IInv, ReportedOncePerBoot
  <1> QED
    BY <1>10, <1>11

\* No other step touches the starts or the reports; a power loss leaves of the file
\* what some start wrote.
LEMMA NextBoots ==
    ASSUME IInv, TypeOK', [Next]_vars
    PROVE  BootsRecorded' /\ ReportedOncePerBoot'
  <1>1. ASSUME UNCHANGED <<starts, failed, reports>>
        PROVE  ReportedOncePerBoot'
    <2>1. starts' = starts /\ failed' = failed /\ reports' = reports /\ ReportedOncePerBoot
      BY <1>1 DEF IInv
    <2> QED
      BY <2>1 DEF ReportedOncePerBoot
  <1>2. CASE /\ UNCHANGED <<starts, failed, reports, boot, last_boot>>
             /\ disk' \in {disk, {last_boot}}
             /\ pending' \in BOOLEAN /\ (pending' => pending)
             /\ host' = "off" => ~agent'
             /\ host = "off" => host' = "off"
    <2>1. \A c \in disk' \cup {last_boot'} : Written(c)'
      BY <1>2 DEF IInv, BootsRecorded, Written
    <2>2. Excused' <=> Excused
      BY <1>2 DEF Excused
    <2>3. ASSUME host' # "off"
          PROVE  /\ last_boot' = Torn \/ pending' => Excused'
                 /\ reports'[boot'] + (IF pending' THEN 1 ELSE 0)
                        <= failed'[boot'] + (IF last_boot' = boot' THEN 1 ELSE 0)
      <3>1. host # "off"
        BY <1>2, <2>3
      <3>2. /\ last_boot = Torn \/ pending => Excused
            /\ reports[boot] + (IF pending THEN 1 ELSE 0)
                   <= failed[boot] + (IF last_boot = boot THEN 1 ELSE 0)
        BY <3>1 DEF IInv, BootsRecorded
      <3>3. reports[boot] \in Nat /\ failed[boot] \in Nat
        BY DEF IInv, TypeOK
      <3> QED
        BY <1>2, <2>2, <3>2, <3>3
    <2>4. /\ (\A i \in 1 .. Len(starts) : starts[i] <= boot)'
          /\ (\A b \in 1 .. MaxBoots : b > boot => reports[b] = 0)'
      BY <1>2 DEF IInv, BootsRecorded
    <2> QED
      BY <1>1, <1>2, <2>1, <2>3, <2>4 DEF BootsRecorded
  <1>3. CASE PowerLoss
    <2>1. /\ UNCHANGED <<starts, failed, reports, boot>> /\ ~agent' /\ host' = "off"
          /\ last_boot' \in disk /\ disk' = {last_boot'}
      BY <1>3 DEF PowerLoss, Gone
    <2>2. \A c \in disk' \cup {last_boot'} : Written(c)'
      BY <2>1 DEF IInv, BootsRecorded, Written
    <2>3. /\ (\A i \in 1 .. Len(starts) : starts[i] <= boot)'
          /\ (\A b \in 1 .. MaxBoots : b > boot => reports[b] = 0)'
      BY <2>1 DEF IInv, BootsRecorded
    <2> QED
      BY <1>1, <2>1, <2>2, <2>3 DEF BootsRecorded
  <1>4. pending \in BOOLEAN /\ (host = "off" => ~agent)
    BY DEF IInv, TypeOK, BootsRecorded
  <1>5. CASE Inhibit \/ Subscribe \/ OnSignal \/ PollFile \/ PollSend \/ OtherAlert \/ Ship
    BY <1>2, <1>4, <1>5 DEF Inhibit, Subscribe, OnSignal, PollFile, PollSend, OtherAlert, Ship,
                            world, file
  <1>6. CASE LoopFails \/ UNCHANGED vars
    BY <1>2, <1>4, <1>6 DEF LoopFails, vars, file
  <1>7. CASE Crash \/ Proceed
    BY <1>2, <1>4, <1>7 DEF Crash, Proceed, Gone
  <1>8. CASE Cancel \/ Request \/ Abandon \/ Tick \/ \E mode \in Modes : Schedule(mode)
    BY <1>2, <1>4, <1>8 DEF Cancel, Request, Abandon, Tick, Schedule, agentVars, file
  <1>9. CASE Writeback
    BY <1>2, <1>4, <1>9 DEF Writeback, agentVars
  <1> QED
    BY <1>3, <1>5, <1>6, <1>7, <1>8, <1>9, StartBoots, ReportBoots, BootBoots DEF Next

-----------------------------------------------------------------------------
(***************************************************************************)
(* The notice before a shutdown.                                           *)
(***************************************************************************)

\* A time that counts for the shutdown still does when a notice is given out again.
LEMMA InTimeStays ==
    ASSUME TypeOK, UNCHANGED deadline, deadline - InhibitMax <= now, SendNotice
    PROVE  /\ InTime(sent) => InTime(sent)'
           /\ InTime(dropped) => InTime(dropped)'
           /\ InTime(sent)' \/ InTime(dropped)'
  <1>1. now \in Nat /\ now # None
    BY LifecycleAssumption DEF TypeOK
  <1>2. \/ sent' = now /\ dropped' = dropped
        \/ dropped' = now /\ sent' = sent
    BY NoticeFacts
  <1>3. \A at : at = now => at # None /\ at >= deadline - InhibitMax
    BY <1>1
  <1> QED
    BY <1>2, <1>3 DEF InTime

\* A notice recorded late enough for the shutdown has been given to the lane late
\* enough, or is lost.
LEMMA WhereaboutsInTime ==
    ASSUME TypeOK, NEW at \in Times, at # None, Whereabouts(at),
           at >= deadline - InhibitMax \/ at + ReNotify > deadline - InhibitMax
    PROVE  Announced \/ Lost
  <1>1. /\ at \in Nat /\ ReNotify \in Nat /\ InhibitMax \in Nat /\ deadline \in Nat
        /\ sent \in Nat \cup {None} /\ dropped \in Nat \cup {None}
    BY LifecycleAssumption DEF TypeOK, Times
  <1>2. CASE sent # None /\ at <= sent
    BY <1>1, <1>2 DEF Announced, InTime
  <1>3. CASE dropped # None /\ at <= dropped
    BY <1>1, <1>3 DEF Lost, InTime
  <1> QED
    BY <1>2, <1>3 DEF Whereabouts, Lost

\* Once a notice is given to the lane, whatever was told has been given to it since,
\* or discarded since.
LEMMA WhereaboutsSend ==
    ASSUME TypeOK, NEW at, NEW m \in Metrics, UNCHANGED now, SendNotice, Whereabouts(told[m]),
           at = told[m] \/ at = now
    PROVE  Whereabouts(at)'
  <1>1. now \in Nat /\ now # None
    BY LifecycleAssumption DEF TypeOK
  <1>2. sent' = now \/ dropped' = now
    BY NoticeFacts
  <1>3. at # None => at <= now
    BY <1>1 DEF Whereabouts
  <1>4. at # None => /\ at <= now'
                     /\ \/ sent' # None /\ at <= sent'
                        \/ dropped' # None /\ at <= dropped'
    BY <1>1, <1>2, <1>3
  <1> QED
    BY <1>4 DEF Whereabouts

\* The loop reads PrepareForShutdown(true), observes and sends before it lets the
\* lock go; any other signal leaves it listening.
LEMMA SignalNotice ==
    ASSUME IInv, OnSignal
    PROVE  NoticeOwed'
  <1>1. /\ TypeOK /\ UNCHANGED <<now, deadline, owed, host, carrying>> /\ loop = "listening"
        /\ \A m \in Metrics : Whereabouts(told[m])
    BY DEF IInv, OnSignal, world, NoticeOwed
  <1>2. host = "stopping" => deadline - InhibitMax <= now
    BY DEF IInv, NoticeOwed
  <1>3. CASE Head(signals) = "start"
    <2>1. PICK m \in GuessKind : IF Fresh(m) THEN UNCHANGED notices ELSE Emit(m) /\ SendNotice
      BY <1>3 DEF OnSignal
    <2>2. m \in Metrics
      BY GuessType
    <2>3. CASE Fresh(m)
      <3>1. UNCHANGED <<told, sent, dropped>>
        BY <2>1, <2>3 DEF notices
      <3>2. \A n \in Metrics : Whereabouts(told[n])'
        BY <1>1, <3>1 DEF Whereabouts
      <3>3. ASSUME host = "stopping"
            PROVE  Announced' \/ Lost'
        <4>1. told[m] \in Times /\ told[m] # None /\ now - told[m] < ReNotify
          BY <1>1, <2>2, <2>3 DEF TypeOK, Times, Fresh
        <4>2. told[m] \in Int /\ now \in Int /\ ReNotify \in Int /\ deadline - InhibitMax \in Int
          BY <1>1, <4>1, LifecycleAssumption DEF TypeOK, Times
        <4>3. told[m] + ReNotify > deadline - InhibitMax
          BY <1>2, <3>3, <4>1, <4>2
        <4>4. Announced \/ Lost
          BY <1>1, <2>2, <4>1, <4>3, WhereaboutsInTime
        <4> QED
          BY <1>1, <3>1, <4>4 DEF Announced, Lost, InTime
      <3> QED
        BY <1>1, <1>2, <3>2, <3>3 DEF NoticeOwed
    <2>4. CASE ~Fresh(m)
      <3>1. Emit(m) /\ SendNotice
        BY <2>1, <2>4
      <3>2. \A n \in Metrics : told'[n] = told[n] \/ told'[n] = now
        BY <1>1, <2>2, <3>1, EmitFacts
      <3>3. \A n \in Metrics : Whereabouts(told[n])'
        BY <1>1, <3>1, <3>2, WhereaboutsSend DEF Whereabouts
      <3>4. host = "stopping" => Announced' \/ Lost'
        BY <1>1, <1>2, <3>1, InTimeStays DEF Announced, Lost
      <3> QED
        BY <1>1, <1>2, <3>3, <3>4 DEF NoticeOwed
    <2> QED
      BY <2>3, <2>4
  <1>4. CASE Head(signals) # "start"
    <2>1. UNCHANGED <<loop, told, sent, dropped>>
      BY <1>4 DEF OnSignal, notices
    <2> QED
      BY <1>1, <1>2, <2>1 DEF NoticeOwed, Whereabouts
  <1> QED
    BY <1>3, <1>4

\* The other task takes a notice from the tracker, or sends the one it holds.
LEMMA PollNotice ==
    ASSUME IInv, PollFile \/ PollSend
    PROVE  NoticeOwed'
  <1>1. /\ TypeOK /\ UNCHANGED <<now, deadline, owed, host, loop>>
        /\ \A m \in Metrics : Whereabouts(told[m])
    BY DEF IInv, PollFile, PollSend, world, NoticeOwed
  <1>2. host = "stopping" => /\ deadline - InhibitMax <= now
                             /\ owed => Announced \/ Lost \/ loop = "listening"
    BY DEF IInv, NoticeOwed
  <1>3. CASE PollFile /\ UNCHANGED <<told, carrying>>
    <2>1. UNCHANGED <<sent, dropped, told, carrying>>
      BY <1>3 DEF PollFile
    <2> QED
      BY <1>1, <1>2, <2>1 DEF NoticeOwed, Whereabouts, Announced, Lost, InTime
  <1>4. CASE PollFile /\ \E m \in GuessKind : Emit(m) /\ carrying' = TRUE
    <2>1. PICK m \in GuessKind : Emit(m) /\ carrying' = TRUE
      BY <1>4
    <2>2. \A n \in Metrics : told'[n] = told[n] \/ told'[n] = now
      BY <1>1, <2>1, EmitFacts, GuessType
    <2>3. now \in Nat
      BY <1>1, LifecycleAssumption DEF TypeOK
    <2>4. \A n \in Metrics : Whereabouts(told[n])'
      <3> SUFFICES ASSUME NEW n \in Metrics, told'[n] # None
                   PROVE  told'[n] <= now' /\ carrying'
        BY DEF Whereabouts
      <3>1. told[n] # None => told[n] <= now
        BY <1>1 DEF Whereabouts
      <3>2. told'[n] <= now
        BY <2>2, <2>3, <3>1
      <3> QED
        BY <1>1, <2>1, <3>2
    <2> QED
      BY <1>1, <1>2, <2>1, <2>4 DEF NoticeOwed, Lost
  <1>5. CASE PollSend
    <2>1. SendNotice /\ UNCHANGED told
      BY <1>5 DEF PollSend
    <2>2. \A n \in Metrics : Whereabouts(told[n])'
      BY <1>1, <2>1, WhereaboutsSend DEF Whereabouts
    <2>3. host = "stopping" => Announced' \/ Lost'
      BY <1>1, <1>2, <2>1, InTimeStays DEF Announced, Lost
    <2> QED
      BY <1>1, <1>2, <2>2, <2>3 DEF NoticeOwed
  <1> QED
    BY <1>3, <1>4, <1>5 DEF PollFile

\* Every step keeps what is owed: a lock or a stream that is lost, a crash and an
\* abandoned shutdown end the obligation, and nothing else takes the loop away.
LEMMA NextNotice ==
    ASSUME IInv, TypeOK', [Next]_vars
    PROVE  NoticeOwed'
  <1>1. /\ now \in Nat /\ now' \in Nat /\ deadline \in Nat /\ InhibitMax \in Nat
        /\ told \in [Metrics -> Times]
    BY LifecycleAssumption DEF IInv, TypeOK, Times
  <1>2. ASSUME UNCHANGED <<told, sent, dropped, carrying>>, now' >= now
        PROVE  \A m \in Metrics : Whereabouts(told[m])'
    <2> SUFFICES ASSUME NEW m \in Metrics PROVE Whereabouts(told[m])'
      OBVIOUS
    <2>1. told' = told /\ sent' = sent /\ dropped' = dropped /\ carrying' = carrying
      BY <1>2
    <2>2. Whereabouts(told[m])
      BY DEF IInv, NoticeOwed
    <2>3. told[m] # None => told[m] \in Nat
      BY <1>1 DEF Times
    <2>4. told[m] # None => told[m] <= now'
      BY <1>1, <1>2, <2>2, <2>3 DEF Whereabouts
    <2> QED
      BY <2>1, <2>2, <2>4 DEF Whereabouts
  <1>3. CASE /\ UNCHANGED <<told, sent, dropped, carrying, host, deadline>> /\ now' >= now
             /\ UNCHANGED <<owed, loop>> \/ ~owed'
    <2>1. told' = told /\ sent' = sent /\ dropped' = dropped /\ carrying' = carrying
      BY <1>3
    <2>2. host' = "stopping" => deadline' - InhibitMax <= now'
      BY <1>1, <1>3 DEF IInv, NoticeOwed
    <2>3. Announced' = Announced /\ Lost' = Lost
      BY <1>3, <2>1 DEF Announced, Lost, InTime
    <2>4. \A m \in Metrics : Whereabouts(told[m])'
      BY <1>2, <1>3
    <2> QED
      BY <1>3, <2>2, <2>3, <2>4 DEF IInv, NoticeOwed
  <1>4. CASE UNCHANGED <<told, sent, dropped, carrying, now>> /\ host' # "stopping"
    BY <1>1, <1>2, <1>4 DEF NoticeOwed
  <1>5. ASSUME Gone, host' = "stopping" => host = "stopping" /\ deadline' = deadline
        PROVE  NoticeOwed'
    <2>1. ~owed' /\ now' = now /\ told' = [m \in Metrics |-> None]
      BY <1>5 DEF Gone
    <2>2. \A m \in Metrics : Whereabouts(told[m])'
      BY <2>1 DEF Whereabouts
    <2> QED
      BY <1>5, <2>1, <2>2 DEF IInv, NoticeOwed
  <1>6. CASE Crash \/ Proceed \/ PowerLoss
    BY <1>5, <1>6 DEF Crash, Proceed, PowerLoss
  <1>7. CASE Request
    <2>1. /\ deadline' = now + InhibitMax /\ now' = now /\ loop' = loop
          /\ owed' = (loop = "listening") /\ UNCHANGED <<told, sent, dropped, carrying>>
      BY <1>7 DEF Request, agentVars, notices
    <2>2. \A m \in Metrics : Whereabouts(told[m])'
      BY <1>1, <1>2, <2>1
    <2>3. deadline' - InhibitMax <= now'
      BY <1>1, <2>1
    <2> QED
      BY <2>1, <2>2, <2>3 DEF NoticeOwed
  <1>8. CASE Abandon \/ BootHost
    BY <1>1, <1>4, <1>8 DEF Abandon, BootHost, agentVars, notices
  <1>9. CASE LoopFails \/ Start \/ BootReport
    BY <1>1, <1>3, <1>9 DEF LoopFails, Start, BootReport, notices, world
  <1>10. CASE Inhibit \/ Subscribe \/ OtherAlert \/ Ship
    <2>1. /\ UNCHANGED <<told, sent, dropped, carrying, host, deadline, owed>> /\ now' = now
          /\ loop' # loop => loop' \in {"locked", "listening"} /\ loop # "listening"
      BY <1>10 DEF Inhibit, Subscribe, OtherAlert, Ship, notices, world
    <2>2. \A m \in Metrics : Whereabouts(told[m])'
      BY <1>1, <1>2, <2>1
    <2>3. Announced' = Announced /\ Lost' = Lost
      BY <2>1 DEF Announced, Lost, InTime
    <2> QED
      BY <2>1, <2>2, <2>3 DEF IInv, NoticeOwed
  <1>11. CASE Cancel \/ \E mode \in Modes : Schedule(mode)
    BY <1>1, <1>3, <1>11 DEF Cancel, Schedule, agentVars, notices
  <1>12. CASE Writeback \/ Tick \/ UNCHANGED vars
    BY <1>1, <1>3, <1>12 DEF Writeback, Tick, vars, agentVars, notices
  <1> QED
    BY <1>6, <1>7, <1>8, <1>9, <1>10, <1>11, <1>12, SignalNotice, PollNotice DEF Next

\* Every step keeps the inductive invariant.
LEMMA NextIInv == IInv /\ [Next]_vars => IInv'
  <1> SUFFICES ASSUME IInv, [Next]_vars PROVE IInv'
    OBVIOUS
  <1>1. TypeOK'
    BY NextType DEF IInv
  <1> QED
    BY <1>1, NextBoots, NextNotice DEF IInv

\* The inductive invariant holds in every behaviour.
LEMMA Invariance == Spec => []IInv
  BY InitIInv, NextIInv, PTL DEF Spec

\* boot.rs run reports a boot at most once and once more for each failed write of
\* the boot_id, however often the agent is restarted or killed between writing the
\* file and sending and whatever a power loss leaves of the file, and only after a
\* reboot or a failed write.
THEOREM ReportOnce == Spec => []ReportedOncePerBoot
  <1>1. IInv => ReportedOncePerBoot
    BY DEF IInv
  <1> QED
    BY <1>1, Invariance, PTL

\* A host that logind stops before its deadline, with a loop that was listening
\* when the shutdown was asked for, has a notice in the lane (logind_shutdown_loop),
\* or one that a full lane discarded or scheduled_file_poll has not sent yet.
THEOREM NoticeBeforeStop == Spec => HeardMeansAnnounced
  <1>1. IInv /\ [Next]_vars => [Stops /\ owed /\ ~TimedOut => Announced \/ Lost]_vars
    <2> SUFFICES ASSUME IInv, Next, Stops, owed, ~TimedOut PROVE Announced \/ Lost
      OBVIOUS
    <2>1. host = "stopping" /\ host' = "off"
      BY DEF Stops
    <2>2. Proceed
      BY <2>1 DEF Next, Start, BootReport, Inhibit, Subscribe, OnSignal, LoopFails,
                  PollFile, PollSend, OtherAlert, Ship, Crash, Schedule, Cancel, Request,
                  Abandon, PowerLoss, Writeback, BootHost, Tick, world, agentVars
    <2>3. loop = "idle"
      BY <2>2 DEF Proceed
    <2> QED
      BY <2>1, <2>3 DEF IInv, NoticeOwed
  <1> QED
    BY <1>1, Invariance, PTL DEF Spec, HeardMeansAnnounced
=============================================================================
