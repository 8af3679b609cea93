-------------------------- MODULE AlertPathProofs --------------------------
(***************************************************************************)
(* Proofs about AlertPath: what can separate the two ends of the alert     *)
(* path, for every capacity of the lane and of the sockets, every pair of  *)
(* re-notification and recovery times, and any number of faults.           *)
(***************************************************************************)
EXTENDS AlertPath, SequenceTheorems, TLAPS

-----------------------------------------------------------------------------
(* The last message of a kind on a queue.                                  *)

\* A queue that is empty has no message of any kind.
LEMMA EmptyQueue ==
    ASSUME NEW kind, NEW m
    PROVE  Without(<<>>, kind) /\ ~LastIs(<<>>, kind, m)
  <1>1. Len(<<>>) = 0
    BY EmptySeq
  <1>2. 1 .. 0 = {}
    OBVIOUS
  <1> QED
    BY <1>1, <1>2 DEF Without, LastIs

\* AlertSink::send and ship append: a message of the kind becomes the last one,
\* any other leaves the last one as it was.
LEMMA QueueAppend ==
    ASSUME NEW s \in Seq(Messages), NEW e \in Messages, NEW kind, NEW m
    PROVE  /\ e = m => LastIs(Append(s, e), kind, m)
           /\ e \notin kind /\ LastIs(s, kind, m) => LastIs(Append(s, e), kind, m)
           /\ e \notin kind /\ Without(s, kind) => Without(Append(s, e), kind)
  <1> DEFINE t == Append(s, e)
  <1>1. /\ Len(s) \in Nat /\ Len(t) = Len(s) + 1
        /\ \A i \in 1 .. Len(s) : t[i] = s[i]
        /\ t[Len(s) + 1] = e
    BY AppendProperties
  <1> HIDE DEF t
  <1>2. ASSUME e = m PROVE LastIs(t, kind, m)
    <2>1. Len(s) + 1 \in 1 .. Len(t) /\ \A j \in 1 .. Len(t) : ~(j > Len(s) + 1)
      BY <1>1
    <2> QED
      BY <1>1, <1>2, <2>1 DEF LastIs
  <1>3. ASSUME e \notin kind, LastIs(s, kind, m) PROVE LastIs(t, kind, m)
    <2>1. PICK i \in 1 .. Len(s) :
             s[i] = m /\ \A j \in 1 .. Len(s) : j > i => s[j] \notin kind
      BY <1>3 DEF LastIs
    <2>2. i \in 1 .. Len(t) /\ t[i] = m
      BY <1>1, <2>1
    <2>3. ASSUME NEW j \in 1 .. Len(t), j > i PROVE t[j] \notin kind
      <3>1. j \in 1 .. Len(s) \/ j = Len(s) + 1
        BY <1>1
      <3> QED
        BY <1>1, <1>3, <2>1, <2>3, <3>1
    <2> QED
      BY <2>2, <2>3 DEF LastIs
  <1>4. ASSUME e \notin kind, Without(s, kind) PROVE Without(t, kind)
    <2>1. ASSUME NEW j \in 1 .. Len(t) PROVE t[j] \notin kind
      <3>1. j \in 1 .. Len(s) \/ j = Len(s) + 1
        BY <1>1
      <3> QED
        BY <1>1, <1>4, <3>1 DEF Without
    <2> QED
      BY <2>1 DEF Without
  <1> QED
    BY <1>2, <1>3, <1>4 DEF t

\* ship and the handlers take the head: it was the last of its kind, or the last
\* one is still queued.
LEMMA QueueTail ==
    ASSUME NEW s \in Seq(Messages), s # <<>>, NEW kind, NEW m
    PROVE  /\ Tail(s) \in Seq(Messages) /\ Head(s) \in Messages
           /\ Without(s, kind) => Head(s) \notin kind /\ Without(Tail(s), kind)
           /\ Without(Tail(s), kind) /\ Head(s) \notin kind => Without(s, kind)
           /\ LastIs(s, kind, m) =>
                LastIs(Tail(s), kind, m) \/ (Without(Tail(s), kind) /\ Head(s) = m)
  <1> DEFINE t == Tail(s)
  <1>1. /\ t \in Seq(Messages) /\ Head(s) \in Messages /\ Head(s) = s[1]
        /\ Len(s) \in Nat /\ Len(t) \in Nat /\ Len(t) = Len(s) - 1
        /\ \A i \in 1 .. Len(t) : t[i] = s[i + 1]
    BY HeadTailProperties
  <1> HIDE DEF t
  <1>2. /\ 1 \in 1 .. Len(s)
        /\ \A j \in 1 .. Len(t) : j + 1 \in 1 .. Len(s)
        /\ \A i \in 1 .. Len(s) : i # 1 => i - 1 \in 1 .. Len(t) /\ t[i - 1] = s[i]
    BY <1>1
  <1>3. ASSUME Without(s, kind) PROVE Head(s) \notin kind /\ Without(t, kind)
    BY <1>1, <1>2, <1>3 DEF Without
  <1>4. ASSUME Without(t, kind), Head(s) \notin kind PROVE Without(s, kind)
    BY <1>1, <1>2, <1>4 DEF Without
  <1>5. ASSUME LastIs(s, kind, m)
        PROVE  LastIs(t, kind, m) \/ (Without(t, kind) /\ Head(s) = m)
    <2>1. PICK i \in 1 .. Len(s) :
             s[i] = m /\ \A j \in 1 .. Len(s) : j > i => s[j] \notin kind
      BY <1>5 DEF LastIs
    <2>2. \A j \in 1 .. Len(t) : j + 1 > i => t[j] \notin kind
      BY <1>1, <1>2, <2>1
    <2>3. CASE i = 1
      <3>1. \A j \in 1 .. Len(t) : j + 1 > 1
        BY <1>1
      <3> QED
        BY <1>1, <2>1, <2>2, <2>3, <3>1 DEF Without
    <2>4. CASE i # 1
      <3>1. i - 1 \in 1 .. Len(t) /\ t[i - 1] = m
        BY <1>2, <2>1, <2>4
      <3>2. \A j \in 1 .. Len(t) : j > i - 1 => t[j] \notin kind
        BY <1>1, <2>2
      <3> QED
        BY <3>1, <3>2 DEF LastIs
    <2> QED
      BY <2>3, <2>4
  <1> QED
    BY <1>1, <1>3, <1>4, <1>5 DEF t

\* Whoever empties a queue loses the last message of every kind on it.
LEMMA QueueLost ==
    ASSUME NEW s \in Seq(Messages), NEW kind, NEW m, LastIs(s, kind, m)
    PROVE  Lost(m) \in {Lost(s[i]) : i \in DOMAIN s}
  <1>1. PICK i \in 1 .. Len(s) : s[i] = m
    BY DEF LastIs
  <1>2. i \in DOMAIN s
    BY <1>1, LenProperties
  <1> QED
    BY <1>1, <1>2

-----------------------------------------------------------------------------
(* The observer, and what the agent owes the collector.                    *)

\* The alert that is due, and that losing it is an excuse.
LEMMA DueFacts ==
    /\ Due \in Alerts /\ Due \in Messages /\ Due \notin Hellos /\ Due # None
    /\ Lost(Due) \in Excuses
    /\ {"muted", "late"} \subseteq Excuses
  BY PathAssumption DEF Due, Alerts, Messages, Hellos, Lost, Excuses

\* The Hello of the running process, and what losing it is called.
LEMMA HelloFacts ==
    ASSUME NEW m
    PROVE  /\ Hello(m) \in Hellos /\ Hello(m) \in Messages /\ Hello(m) \notin Alerts
           /\ Lost(Hello(m)) = "hello_lost"
  BY DEF Hello, Hellos, Messages, Alerts, Lost

\* Either the ends agree and nothing moves, or the causes are remembered.
LEMMA NoteFacts ==
    ASSUME NEW causes, Note(causes)
    PROVE  (Quiet' /\ Agree') \/ blame' = blame \cup causes
  BY DEF Note

\* Ends that agree leave nothing to explain.
LEMMA Settled ==
    ASSUME Quiet', Agree'
    PROVE  AlertAccounted' /\ HelloAccounted' /\ HandsChecked'
  <1>1. /\ lane' = <<>> /\ muted' = mode' /\ ~mode' /\ (firing' <=> silent' # None)
        /\ \A c \in Conns : net'[c] = <<>> /\ hand'[c] = None
    BY DEF Quiet, Agree
  <1>2. /\ net'["cur"] = <<>> /\ net'["old"] = <<>> /\ hand'["cur"] = None /\ hand'["old"] = None
    BY <1>1 DEF Conns
  <1>3. /\ Without(<<>>, Alerts) /\ Without(<<>>, Hellos)
    BY EmptyQueue
  <1>4. AlertAccounted'
    BY <1>1, <1>2, <1>3 DEF AlertAccounted, AlertUnderWay, AlertOnCur, AlertOnOld, Shown
  <1>5. HelloAccounted'
    BY <1>1, <1>2, <1>3 DEF HelloAccounted, HelloUnderWay, HelloOnCur, HelloOnOld
  <1>6. HandsChecked'
    BY <1>1, <1>2 DEF HandsChecked
  <1> QED
    BY <1>4, <1>5, <1>6

\* What a step that remembers its causes and keeps the story has to show.
LEMMA KeepAlert ==
    ASSUME AlertAccounted, mode' = mode, silent' = silent, blame \subseteq blame',
           AlertUnderWay => AlertUnderWay' \/ blame' \cap Excuses # {}
    PROVE  AlertAccounted'
  <1>1. Excuses' = Excuses
    BY DEF Excuses
  <1> QED
    BY <1>1 DEF AlertAccounted

\* The same for the Hello of the running process.
LEMMA KeepHello ==
    ASSUME HelloAccounted, mode' = mode, blame \subseteq blame',
           HelloUnderWay => \/ HelloUnderWay'
                            \/ blame' \cap {"hello_lost", "collector", "late"} # {}
    PROVE  HelloAccounted'
  BY DEF HelloAccounted

-----------------------------------------------------------------------------
(* Types.                                                                  *)

\* The queues and the handlers' alerts, one by one.
LEMMA QueueTypes ==
    ASSUME TypeOK
    PROVE  /\ lane \in Seq(Messages) /\ net["cur"] \in Seq(Messages) /\ net["old"] \in Seq(Messages)
           /\ hand["cur"] \in Alerts \cup {None} /\ hand["old"] \in Alerts \cup {None}
           /\ DOMAIN net = Conns /\ DOMAIN hand = Conns
  BY DEF TypeOK, Conns

\* main starts with one Hello on a lane that holds at least one message.
LEMMA InitType == Init => TypeOK
  <1> SUFFICES ASSUME Init PROVE TypeOK
    OBVIOUS
  <1>1. /\ <<>> \in Seq(Messages) /\ Len(<<>>) = 0
    OBVIOUS
  <1>2. lane \in Seq(Messages) /\ Len(lane) = 1
    <2>1. Hello(mode) \in Messages
      BY HelloFacts
    <2> QED
      BY <2>1 DEF Init
  <1>3. Len(lane) <= LaneCap /\ 0 <= NetCap
    BY <1>2, PathAssumption
  <1>4. net \in [Conns -> Seq(Messages)] /\ \A c \in Conns : Len(net[c]) <= NetCap
    BY <1>1, <1>3 DEF Init
  <1>5. hand \in [Conns -> Alerts \cup {None}]
    BY DEF Init
  <1>6. faults \in 0 .. MaxFaults
    BY PathAssumption DEF Init
  <1> QED
    BY <1>2, <1>3, <1>4, <1>5, <1>6 DEF Init, TypeOK

\* What the observer notes is a cause.
LEMMA BlameType ==
    ASSUME blame \subseteq Causes, NEW causes \in SUBSET Causes, Note(causes)
    PROVE  blame' \subseteq Causes
  BY DEF Note

\* Whatever is lost, and whatever is late, has a name among the causes.
LEMMA LostType ==
    ASSUME NEW m
    PROVE  Lost(m) \in Causes
  BY DEF Lost, Causes

\* A frame of a replaced connection is noted as late, if at all.
LEMMA LateType ==
    ASSUME NEW c
    PROVE  LateOn(c) \subseteq Causes
  BY DEF LateOn, Causes

\* AlertSink::send never overfills the lane.
LEMMA SendType ==
    ASSUME TypeOK, NEW m \in Messages, SendAlert(m) \/ NoSend
    PROVE  /\ lane' \in Seq(Messages) /\ Len(lane') <= LaneCap
           /\ faults' = faults /\ blame' \subseteq Causes
  <1>1. lane \in Seq(Messages) /\ Len(lane) <= LaneCap /\ blame \subseteq Causes
    BY DEF TypeOK
  <1>2. Len(lane) \in Nat /\ LaneCap \in Nat
    BY <1>1, LenProperties, PathAssumption
  <1>3. lane' \in Seq(Messages) /\ Len(lane') <= LaneCap /\ faults' = faults
    <2>1. CASE lane' = lane
      BY <1>1, <2>1 DEF SendAlert, NoSend
    <2>2. CASE Len(lane) < LaneCap /\ lane' = Append(lane, m)
      <3>1. lane' \in Seq(Messages) /\ Len(lane') = Len(lane) + 1
        BY <1>1, <2>2, AppendProperties
      <3> QED
        BY <1>2, <2>2, <3>1 DEF SendAlert, NoSend
    <2> QED
      BY <2>1, <2>2 DEF SendAlert, NoSend
  <1>4. {} \in SUBSET Causes /\ {Lost(m)} \in SUBSET Causes
    BY LostType
  <1>5. Note({}) \/ Note({Lost(m)})
    BY DEF SendAlert, NoSend
  <1> QED
    BY <1>1, <1>3, <1>4, <1>5, BlameType

\* A polling step changes the tracker's entry within its bounds.
LEMMA PollType ==
    ASSUME TypeOK, PollBad \/ PollOk
    PROVE  TypeOK'
  <1>1. /\ silent \in 0 .. ReNotify \cup {None} /\ ok \in 0 .. Recovery \cup {None}
        /\ ok # None => silent # None
    BY DEF TypeOK
  <1>2. ReNotify \in Nat /\ Recovery \in Nat /\ None \notin Nat
    BY PathAssumption
  <1>3. "firing" \in Messages /\ "resolved" \in Messages
    BY DEF Messages, Alerts
  <1>4. silent # None => Later(silent) \in 0 .. ReNotify
    BY <1>1, <1>2 DEF Later
  <1>5. /\ silent' \in 0 .. ReNotify \cup {None} /\ ok' \in 0 .. Recovery \cup {None}
        /\ ok' # None => silent' # None
    <2>1. CASE PollBad
      BY <1>1, <1>2, <1>4, <2>1 DEF PollBad
    <2>2. CASE PollOk
      BY <1>1, <1>2, <1>4, <2>2 DEF PollOk
    <2> QED
      BY <2>1, <2>2
  <1>6. /\ lane' \in Seq(Messages) /\ Len(lane') <= LaneCap
        /\ faults' = faults /\ blame' \subseteq Causes
    BY <1>3, SendType DEF PollBad, PollOk
  <1>7. UNCHANGED <<bad, mode, up, alive, net, ahead, hand, firing, muted>>
    BY DEF PollBad, PollOk
  <1> QED
    BY <1>5, <1>6, <1>7 DEF TypeOK

\* A step that moves frames keeps to the capacity of the sockets.
LEMMA NetType ==
    ASSUME TypeOK
    PROVE  /\ lane # <<>> => /\ Tail(lane) \in Seq(Messages) /\ Len(Tail(lane)) <= LaneCap
                             /\ Head(lane) \in Messages
           /\ \A c \in Conns : net[c] # <<>> =>
                /\ Tail(net[c]) \in Seq(Messages) /\ Len(Tail(net[c])) <= NetCap
                /\ Head(net[c]) \in Messages
           /\ <<>> \in Seq(Messages) /\ Len(<<>>) <= NetCap
  <1>1. /\ lane \in Seq(Messages) /\ Len(lane) <= LaneCap /\ LaneCap \in Nat /\ NetCap \in Nat
        /\ \A c \in Conns : net[c] \in Seq(Messages) /\ Len(net[c]) <= NetCap
    BY PathAssumption DEF TypeOK
  <1>2. ASSUME NEW q \in Seq(Messages), q # <<>>, NEW n \in Nat, Len(q) <= n
        PROVE  Tail(q) \in Seq(Messages) /\ Len(Tail(q)) <= n /\ Head(q) \in Messages
    <2>1. /\ Tail(q) \in Seq(Messages) /\ Head(q) \in Messages
          /\ Len(Tail(q)) = Len(q) - 1 /\ Len(q) \in Nat
      BY <1>2, HeadTailProperties, LenProperties
    <2> QED
      BY <1>2, <2>1
  <1>3. <<>> \in Seq(Messages) /\ Len(<<>>) = 0
    OBVIOUS
  <1>4. Len(<<>>) <= NetCap
    BY <1>1, <1>3
  <1> QED
    BY <1>1, <1>2, <1>3, <1>4

\* Every step of the agent, the transport and the collector keeps the types.
LEMMA NextType ==
    ASSUME TypeOK, [Next]_vars
    PROVE  TypeOK'
  <1>1. blame \subseteq Causes /\ {} \in SUBSET Causes
    BY DEF TypeOK
  <1>2. /\ \A q : {Lost(q[i]) : i \in DOMAIN q} \in SUBSET Causes
        /\ \A m : {Lost(m)} \in SUBSET Causes
        /\ {"agent", "collector", "operator", "muted"} \in SUBSET Causes
    <2>1. {"agent", "collector", "operator", "muted"} \in SUBSET Causes
      BY DEF Causes
    <2> QED
      BY <2>1, LostType
  <1>3. faults \in 0 .. MaxFaults /\ (Fault => faults' \in 0 .. MaxFaults)
    BY PathAssumption DEF TypeOK, Fault
  <1>4. CASE UNCHANGED vars
    BY <1>4 DEF vars, TypeOK
  <1>5. CASE Change
    <2>1. blame' \subseteq Causes
      BY <1>1, <1>5, BlameType DEF Change
    <2> QED
      BY <1>5, <2>1 DEF Change, TypeOK
  <1>6. CASE PollBad \/ PollOk
    BY <1>6, PollType
  <1>7. ASSUME NEW m \in BOOLEAN, Restart(m)
        PROVE  TypeOK'
    <2>1. blame' \subseteq Causes
      <3>1. {"agent"} \cup {Lost(lane[i]) : i \in DOMAIN lane} \in SUBSET Causes
        BY <1>2
      <3> QED
        BY <1>1, <1>7, <3>1, BlameType DEF Restart
    <2>2. lane' \in Seq(Messages) /\ Len(lane') = 1 /\ 1 <= LaneCap
      <3>1. Hello(m) \in Messages
        BY HelloFacts
      <3>2. lane' = <<Hello(m)>> /\ 1 <= LaneCap
        BY <1>7, PathAssumption DEF Restart
      <3> QED
        BY <3>1, <3>2
    <2> QED
      BY <1>3, <1>7, <2>1, <2>2 DEF Restart, TypeOK
  <1>8. CASE Connect
    <2>1. blame' \subseteq Causes
      BY <1>1, <1>8, BlameType DEF Connect
    <2>2. /\ net' \in [Conns -> Seq(Messages)] /\ \A c \in Conns : Len(net'[c]) <= NetCap
          /\ hand' \in [Conns -> Alerts \cup {None}]
      BY <1>8, NetType DEF Connect, TypeOK, Conns
    <2> QED
      BY <1>8, <2>1, <2>2 DEF Connect, TypeOK
  <1>9. CASE Ship
    <2>1. blame' \subseteq Causes
      BY <1>1, <1>9, BlameType DEF Ship
    <2>2. lane' \in Seq(Messages) /\ Len(lane') <= LaneCap /\ Head(lane) \in Messages
      BY <1>9, NetType DEF Ship
    <2> DEFINE q == Append(net["cur"], Head(lane))
    <2>3. q \in Seq(Messages) /\ Len(q) <= NetCap
      <3>1. q \in Seq(Messages) /\ Len(q) = Len(net["cur"]) + 1 /\ Len(net["cur"]) \in Nat
        BY <2>2, QueueTypes, AppendProperties, LenProperties
      <3>2. Len(net["cur"]) < NetCap /\ NetCap \in Nat
        BY <1>9, PathAssumption DEF Ship
      <3> HIDE DEF q
      <3> QED
        BY <3>1, <3>2
    <2> HIDE DEF q
    <2>4. net' = [net EXCEPT !["cur"] = q]
      BY <1>9 DEF Ship, q
    <2>5. net' \in [Conns -> Seq(Messages)] /\ \A c \in Conns : Len(net'[c]) <= NetCap
      BY <2>3, <2>4 DEF TypeOK
    <2> QED
      BY <1>9, <2>1, <2>2, <2>5 DEF Ship, TypeOK
  <1>10. CASE ShipFails
    <2>1. blame' \subseteq Causes
      BY <1>1, <1>2, <1>10, BlameType DEF ShipFails
    <2>2. lane' \in Seq(Messages) /\ Len(lane') <= LaneCap
      BY <1>10, NetType DEF ShipFails
    <2> QED
      BY <1>10, <2>1, <2>2 DEF ShipFails, TypeOK
  <1>11. CASE PumpExit
    <2>1. blame' \subseteq Causes
      BY <1>1, <1>11, BlameType DEF PumpExit
    <2> QED
      BY <1>11, <2>1 DEF PumpExit, TypeOK
  <1>12. CASE Break
    <2>1. blame' \subseteq Causes
      BY <1>1, <1>12, BlameType DEF Break
    <2> QED
      BY <1>3, <1>12, <2>1 DEF Break, TypeOK
  <1>13. ASSUME NEW c \in Conns, Cut(c)
         PROVE  TypeOK'
    <2>1. blame' \subseteq Causes
      BY <1>1, <1>2, <1>13, BlameType DEF Cut
    <2>2. net' \in [Conns -> Seq(Messages)] /\ \A d \in Conns : Len(net'[d]) <= NetCap
      BY <1>13, NetType DEF Cut, TypeOK
    <2> QED
      BY <1>13, <2>1, <2>2 DEF Cut, TypeOK
  <1>14. ASSUME NEW c \in Conns, Read(c)
         PROVE  /\ net' \in [Conns -> Seq(Messages)] /\ \A d \in Conns : Len(net'[d]) <= NetCap
                /\ ahead' \in BOOLEAN
                /\ UNCHANGED <<bad, mode, silent, ok, lane, up, alive, faults>>
    BY <1>14, NetType DEF Read, TypeOK
  <1>15. ASSUME NEW c \in Conns, RegisterHello(c)
         PROVE  TypeOK'
    <2>1. blame' \subseteq Causes
      BY <1>1, <1>15, LateType, BlameType DEF RegisterHello
    <2> QED
      BY <1>14, <1>15, <2>1 DEF RegisterHello, TypeOK
  <1>16. ASSUME NEW c \in Conns, CheckAlert(c)
         PROVE  TypeOK'
    <2>1. blame' \subseteq Causes
      BY <1>1, <1>2, <1>16, BlameType DEF CheckAlert, Causes
    <2>2. hand' \in [Conns -> Alerts \cup {None}]
      BY <1>16 DEF CheckAlert, TypeOK
    <2> QED
      BY <1>14, <1>16, <2>1, <2>2 DEF CheckAlert, TypeOK
  <1>17. ASSUME NEW c \in Conns, ApplyAlert(c)
         PROVE  TypeOK'
    <2>1. blame' \subseteq Causes
      BY <1>1, <1>17, LateType, BlameType DEF ApplyAlert
    <2> QED
      BY <1>17, <2>1 DEF ApplyAlert, TypeOK
  <1>18. CASE CollectorRestart
    <2> DEFINE lost == UNION {{Lost(net[c][i]) : i \in DOMAIN net[c]} : c \in Conns}
    <2>1. {"collector"} \cup lost \in SUBSET Causes
      BY <1>2
    <2>2. Note({"collector"} \cup lost)
      BY <1>18 DEF CollectorRestart
    <2> HIDE DEF lost
    <2>3. blame' \subseteq Causes
      BY <1>1, <2>1, <2>2, BlameType
    <2>4. net' \in [Conns -> Seq(Messages)] /\ \A c \in Conns : Len(net'[c]) <= NetCap
      BY <1>18, NetType DEF CollectorRestart
    <2> QED
      BY <1>3, <1>18, <2>3, <2>4 DEF CollectorRestart, TypeOK
  <1>19. CASE OperatorResolve
    <2>1. blame' \subseteq Causes
      BY <1>1, <1>2, <1>19, BlameType DEF OperatorResolve
    <2> QED
      BY <1>3, <1>19, <2>1 DEF OperatorResolve, TypeOK
  <1> QED
    BY <1>4, <1>5, <1>6, <1>7, <1>8, <1>9, <1>10, <1>11, <1>12, <1>13, <1>15, <1>16,
       <1>17, <1>18, <1>19 DEF Next

-----------------------------------------------------------------------------
(* The alert that is due.                                                  *)

\* A step that moves no message and leaves the story alone.
LEMMA AlertUnmoved ==
    ASSUME AlertAccounted, blame \subseteq blame',
           UNCHANGED <<mode, lane, net, ahead, hand, firing>>,
           silent' = None <=> silent = None
    PROVE  AlertAccounted'
  <1>1. Due' = Due /\ Excuses' = Excuses /\ (Shown' <=> Shown)
    BY DEF Due, Excuses, Shown
  <1>2. AlertUnderWay' <=> AlertUnderWay
    BY <1>1 DEF AlertUnderWay, AlertOnCur, AlertOnOld
  <1> QED
    BY <1>1, <1>2 DEF AlertAccounted

\* observe and observe_ok: a step that opens or closes the episode sends the
\* alert that is due, and what a full lane discards is noted.
LEMMA AlertPolled ==
    ASSUME TypeOK, AlertAccounted, PollBad \/ PollOk, ~(Quiet' /\ Agree')
    PROVE  AlertAccounted'
  <1>1. /\ silent # None => silent \in Nat /\ Later(silent) \in Nat
        /\ 0 # None /\ \A n \in Nat : n # None
    BY PathAssumption DEF TypeOK, Later
  <1>2. lane \in Seq(Messages) /\ UNCHANGED <<mode, net, ahead, hand, firing>>
    BY DEF TypeOK, PollBad, PollOk
  <1>3. CASE NoSend /\ (silent' = None <=> silent = None)
    <2>1. blame' = blame \cup {} /\ lane' = lane
      BY <1>3, NoteFacts DEF NoSend
    <2> QED
      BY <1>2, <1>3, <2>1, AlertUnmoved
  <1>4. CASE SendAlert(Due')
    <2>1. Due' \in Messages /\ Lost(Due') \in Excuses'
      BY DEF Due, Excuses, Lost, Messages, Alerts, Hellos
    <2>2. CASE mode
      BY <1>2, <2>2 DEF AlertAccounted
    <2>3. CASE lane' = Append(lane, Due')
      <3>1. LastIs(lane', Alerts, Due')
        BY <1>2, <2>1, <2>3, QueueAppend
      <3> QED
        BY <3>1 DEF AlertAccounted, AlertUnderWay
    <2>4. CASE Note({Lost(Due')})
      <3>1. blame' = blame \cup {Lost(Due')}
        BY <2>4, NoteFacts
      <3> QED
        BY <2>1, <3>1 DEF AlertAccounted
    <2> QED
      <3> DEFINE m == Due'
      <3>1. SendAlert(m)
        BY <1>4
      <3> HIDE DEF m
      <3>2. mode \/ lane' = Append(lane, m) \/ Note({Lost(m)})
        BY <3>1 DEF SendAlert
      <3> QED
        BY <2>2, <2>3, <2>4, <3>2 DEF m
  <1>5. (NoSend /\ (silent' = None <=> silent = None)) \/ SendAlert(Due')
    <2>1. CASE PollBad
      <3>1. CASE silent' = 0 /\ SendAlert("firing")
        <4>1. Due' = "firing"
          BY <1>1, <3>1 DEF Due
        <4> QED
          BY <3>1, <4>1
      <3>2. CASE silent # None /\ silent' = Later(silent) /\ NoSend
        BY <1>1, <3>2
      <3> QED
        BY <2>1, <3>1, <3>2 DEF PollBad
    <2>2. CASE PollOk
      <3>1. CASE silent' = None /\ SendAlert("resolved")
        <4>1. Due' = "resolved"
          BY <3>1 DEF Due
        <4> QED
          BY <3>1, <4>1
      <3>2. CASE silent # None /\ silent' = Later(silent) /\ NoSend
        BY <1>1, <3>2
      <3>3. CASE silent = None /\ silent' = silent /\ NoSend
        BY <3>3
      <3> QED
        BY <2>2, <3>1, <3>2, <3>3 DEF PollOk
    <2> QED
      BY <2>1, <2>2
  <1> QED
    BY <1>3, <1>4, <1>5

\* The transport connects: the connection that was current is the old one now,
\* and nothing of it can be late yet.
LEMMA AlertConnect ==
    ASSUME TypeOK, AlertAccounted, Connect, ~(Quiet' /\ Agree')
    PROVE  AlertAccounted'
  <1>1. /\ UNCHANGED <<mode, silent, lane, firing>>
        /\ net["old"] = <<>> /\ hand["old"] = None
        /\ net'["old"] = net["cur"] /\ net'["cur"] = <<>>
        /\ hand'["old"] = hand["cur"] /\ hand'["cur"] = None
    BY DEF Connect, Conns
  <1>2. blame' = blame \cup {}
    BY NoteFacts DEF Connect
  <1>3. Due' = Due /\ (Shown' <=> Shown) /\ Due # None
    BY <1>1, DueFacts DEF Due, Shown
  <1>4. Without(<<>>, Alerts) /\ ~LastIs(<<>>, Alerts, Due)
    BY EmptyQueue
  <1>5. AlertOnOld => Shown
    BY <1>1, <1>3, <1>4 DEF AlertOnOld
  <1>6. AlertOnCur => AlertOnOld'
    BY <1>1, <1>3, <1>5 DEF AlertOnCur, AlertOnOld
  <1>7. AlertOnOld' => AlertOnCur'
    BY <1>1, <1>4 DEF AlertOnCur
  <1>8. AlertUnderWay => AlertUnderWay'
    BY <1>1, <1>3, <1>6, <1>7 DEF AlertUnderWay
  <1> QED
    BY <1>1, <1>2, <1>8, KeepAlert

\* ship: the order of what is under way stays the same.
LEMMA AlertShip ==
    ASSUME TypeOK, AlertAccounted, Ship, ~(Quiet' /\ Agree')
    PROVE  AlertAccounted'
  <1> DEFINE e == Head(lane)
  <1>1. /\ UNCHANGED <<mode, silent, ahead, hand, firing>>
        /\ lane # <<>> /\ lane' = Tail(lane)
        /\ net'["old"] = net["old"] /\ net'["cur"] = Append(net["cur"], e)
    BY QueueTypes DEF Ship, Conns
  <1>2. blame' = blame \cup {}
    BY NoteFacts DEF Ship
  <1>3. Due' = Due /\ (Shown' <=> Shown) /\ lane \in Seq(Messages) /\ net["cur"] \in Seq(Messages)
    BY <1>1, QueueTypes DEF Due, Shown
  <1>4. /\ e \in Messages
        /\ Without(lane, Alerts) => e \notin Alerts /\ Without(lane', Alerts)
        /\ LastIs(lane, Alerts, Due) =>
             LastIs(lane', Alerts, Due) \/ (Without(lane', Alerts) /\ e = Due)
    BY <1>1, <1>3, QueueTail
  <1> HIDE DEF e
  <1>5. /\ e = Due => LastIs(net'["cur"], Alerts, Due)
        /\ e \notin Alerts /\ LastIs(net["cur"], Alerts, Due) => LastIs(net'["cur"], Alerts, Due)
        /\ e \notin Alerts /\ Without(net["cur"], Alerts) => Without(net'["cur"], Alerts)
    BY <1>1, <1>3, <1>4, QueueAppend
  <1>6. AlertOnOld' <=> AlertOnOld
    BY <1>1, <1>3 DEF AlertOnOld
  <1>7. e \notin Alerts /\ AlertOnCur => AlertOnCur'
    BY <1>1, <1>3, <1>5, <1>6 DEF AlertOnCur
  <1>8. e = Due => AlertOnCur'
    BY <1>3, <1>5 DEF AlertOnCur
  <1>9. AlertUnderWay => AlertUnderWay'
    BY <1>3, <1>4, <1>7, <1>8 DEF AlertUnderWay
  <1> QED
    BY <1>1, <1>2, <1>9, KeepAlert

\* A failed ws.send takes the alert that is due only with an excuse.
LEMMA AlertShipFails ==
    ASSUME TypeOK, AlertAccounted, ShipFails, ~(Quiet' /\ Agree')
    PROVE  AlertAccounted'
  <1> DEFINE e == Head(lane)
  <1>1. /\ UNCHANGED <<mode, silent, net, ahead, hand, firing>>
        /\ lane # <<>> /\ lane' = Tail(lane)
    BY DEF ShipFails
  <1>2. blame' = blame \cup {Lost(e)}
    BY NoteFacts DEF ShipFails
  <1>3. /\ Due' = Due /\ (Shown' <=> Shown) /\ lane \in Seq(Messages)
        /\ Lost(Due) \in Excuses
    BY <1>1, QueueTypes, DueFacts DEF Due, Shown
  <1>4. /\ Without(lane, Alerts) => Without(lane', Alerts)
        /\ LastIs(lane, Alerts, Due) => LastIs(lane', Alerts, Due) \/ e = Due
    BY <1>1, <1>3, QueueTail
  <1> HIDE DEF e
  <1>5. AlertOnCur' <=> AlertOnCur
    BY <1>1, <1>3 DEF AlertOnCur, AlertOnOld
  <1>6. AlertUnderWay => AlertUnderWay' \/ e = Due
    BY <1>3, <1>4, <1>5 DEF AlertUnderWay
  <1>7. e = Due => blame' \cap Excuses # {}
    BY <1>2, <1>3
  <1> QED
    BY <1>1, <1>2, <1>6, <1>7, KeepAlert

\* What a broken connection still held: the alert that is due is lost by name.
LEMMA AlertCut ==
    ASSUME TypeOK, AlertAccounted, NEW c \in Conns, Cut(c), ~(Quiet' /\ Agree')
    PROVE  AlertAccounted'
  <1>1. /\ UNCHANGED <<mode, silent, lane, ahead, hand, firing>>
        /\ net'[c] = <<>> /\ \A d \in Conns : d # c => net'[d] = net[d]
    BY QueueTypes DEF Cut
  <1>2. blame' = blame \cup {Lost(net[c][i]) : i \in DOMAIN net[c]}
    BY NoteFacts DEF Cut
  <1>3. /\ Due' = Due /\ (Shown' <=> Shown) /\ Lost(Due) \in Excuses
        /\ net[c] \in Seq(Messages)
    BY <1>1, QueueTypes, DueFacts DEF Due, Shown, Conns
  <1>4. LastIs(net[c], Alerts, Due) => blame' \cap Excuses # {}
    BY <1>2, <1>3, QueueLost
  <1>5. Without(<<>>, Alerts)
    BY EmptyQueue
  <1>6. CASE LastIs(net[c], Alerts, Due)
    BY <1>1, <1>2, <1>4, <1>6, KeepAlert
  <1>7. CASE ~LastIs(net[c], Alerts, Due)
    <2>1. CASE c = "cur"
      <3>1. net'["cur"] = <<>> /\ net'["old"] = net["old"]
        BY <1>1, <2>1 DEF Conns
      <3>2. AlertOnOld => AlertOnOld'
        BY <1>1, <1>3, <3>1 DEF AlertOnOld
      <3>3. AlertOnCur => AlertOnCur'
        BY <1>1, <1>3, <1>5, <1>7, <2>1, <3>1, <3>2 DEF AlertOnCur
      <3>4. AlertUnderWay => AlertUnderWay'
        BY <1>1, <1>3, <3>3 DEF AlertUnderWay
      <3> QED
        BY <1>1, <1>2, <3>4, KeepAlert
    <2>2. CASE c = "old"
      <3>1. net'["old"] = <<>> /\ net'["cur"] = net["cur"]
        BY <1>1, <2>2 DEF Conns
      <3>2. AlertOnOld => AlertOnOld'
        BY <1>1, <1>3, <1>5, <1>7, <2>2, <3>1 DEF AlertOnOld
      <3>3. AlertOnCur => AlertOnCur'
        BY <1>1, <1>3, <3>1, <3>2 DEF AlertOnCur
      <3>4. AlertUnderWay => AlertUnderWay'
        BY <1>1, <1>3, <3>3 DEF AlertUnderWay
      <3> QED
        BY <1>1, <1>2, <3>4, KeepAlert
    <2> QED
      BY <2>1, <2>2 DEF Conns
  <1> QED
    BY <1>6, <1>7

\* The handlers read a Hello: no alert moves, and the old connection's alerts
\* count no longer once the current one is ahead.
LEMMA AlertRegister ==
    ASSUME TypeOK, AlertAccounted, NEW c \in Conns, RegisterHello(c), ~(Quiet' /\ Agree')
    PROVE  AlertAccounted'
  <1>1. /\ UNCHANGED <<mode, silent, lane, hand, firing>>
        /\ net[c] # <<>> /\ net'[c] = Tail(net[c])
        /\ \A d \in Conns : d # c => net'[d] = net[d]
        /\ ahead => ahead'
        /\ Head(net[c]) \in Hellos
    BY QueueTypes DEF RegisterHello, Read
  <1>2. blame' = blame \cup LateOn(c)
    BY NoteFacts DEF RegisterHello
  <1>3. /\ Due' = Due /\ (Shown' <=> Shown) /\ Due \notin Hellos
        /\ net[c] \in Seq(Messages)
    BY <1>1, QueueTypes, DueFacts DEF Due, Shown, Conns
  <1>4. /\ Without(net[c], Alerts) => Without(net'[c], Alerts)
        /\ LastIs(net[c], Alerts, Due) => LastIs(net'[c], Alerts, Due)
    BY <1>1, <1>3, QueueTail
  <1>5. \A d \in Conns : /\ Without(net[d], Alerts) => Without(net'[d], Alerts)
                         /\ LastIs(net[d], Alerts, Due) => LastIs(net'[d], Alerts, Due)
    BY <1>1, <1>4
  <1>6. AlertOnOld => AlertOnOld'
    BY <1>1, <1>3, <1>5 DEF AlertOnOld, Conns
  <1>7. AlertOnCur => AlertOnCur'
    BY <1>1, <1>3, <1>5, <1>6 DEF AlertOnCur, Conns
  <1>8. AlertUnderWay => AlertUnderWay'
    BY <1>1, <1>3, <1>7 DEF AlertUnderWay
  <1> QED
    BY <1>1, <1>2, <1>8, KeepAlert

\* The handlers read an alert: it is ignored under maintenance, and the handler
\* holds it otherwise.
LEMMA AlertCheck ==
    ASSUME TypeOK, AlertAccounted, NEW c \in Conns, CheckAlert(c), ~(Quiet' /\ Agree')
    PROVE  AlertAccounted'
  <1>1. /\ UNCHANGED <<mode, silent, lane, firing>>
        /\ net[c] # <<>> /\ net'[c] = Tail(net[c]) /\ hand[c] = None
        /\ \A d \in Conns : d # c => net'[d] = net[d]
        /\ ahead => ahead'
    BY QueueTypes DEF CheckAlert, Read
  <1>2. /\ Due' = Due /\ (Shown' <=> Shown) /\ "muted" \in Excuses /\ Due # None
        /\ net[c] \in Seq(Messages)
    BY <1>1, QueueTypes, DueFacts DEF Due, Shown, Conns
  <1>3. CASE Note({"muted"})
    <2>1. blame' = blame \cup {"muted"}
      BY <1>3, NoteFacts
    <2> QED
      BY <1>1, <1>2, <2>1, KeepAlert
  <1>4. CASE hand' = [hand EXCEPT ![c] = Head(net[c])] /\ Note({})
    <2>1. blame' = blame \cup {}
      BY <1>4, NoteFacts
    <2>2. /\ hand'[c] = Head(net[c]) /\ \A d \in Conns : d # c => hand'[d] = hand[d]
          /\ Head(net[c]) \in Alerts
      BY <1>4, QueueTypes DEF CheckAlert
    <2>3. /\ ~Without(net[c], Alerts)
          /\ LastIs(net[c], Alerts, Due) =>
               LastIs(net'[c], Alerts, Due) \/ (Without(net'[c], Alerts) /\ hand'[c] = Due)
      BY <1>1, <1>2, <2>2, QueueTail, ZenonT(60)
    <2>4. CASE c = "cur"
      <3>1. AlertOnCur => AlertOnCur'
        BY <1>1, <1>2, <2>3, <2>4 DEF AlertOnCur
      <3> QED
        BY <1>1, <1>2, <2>1, <3>1, KeepAlert DEF AlertUnderWay
    <2>5. CASE c = "old"
      <3>1. net'["cur"] = net["cur"] /\ hand'["cur"] = hand["cur"]
        BY <1>1, <2>2, <2>5 DEF Conns
      <3>2. AlertOnOld => AlertOnOld'
        BY <1>1, <1>2, <2>3, <2>5 DEF AlertOnOld
      <3>3. AlertOnCur => AlertOnCur'
        BY <1>2, <3>1, <3>2 DEF AlertOnCur
      <3> QED
        BY <1>1, <1>2, <2>1, <3>3, KeepAlert DEF AlertUnderWay
    <2> QED
      BY <2>4, <2>5 DEF Conns
  <1> QED
    BY <1>3, <1>4 DEF CheckAlert

\* apply_alert: the alert that is due shows, and one of the old connection that
\* comes after its successor's is an excuse.
LEMMA AlertApply ==
    ASSUME TypeOK, AlertAccounted, HandsChecked, NEW c \in Conns, ApplyAlert(c),
           ~(Quiet' /\ Agree')
    PROVE  AlertAccounted'
  <1>1. /\ UNCHANGED <<mode, silent, lane, net, ahead>>
        /\ hand[c] # None /\ (firing' <=> hand[c] = "firing")
        /\ hand'[c] = None /\ \A d \in Conns : d # c => hand'[d] = hand[d]
        /\ hand[c] \in Alerts
    <2>1. firing' <=> hand[c] = "firing"
      BY Zenon DEF ApplyAlert
    <2>2. hand'[c] = None /\ \A d \in Conns : d # c => hand'[d] = hand[d]
      BY QueueTypes DEF ApplyAlert
    <2>3. hand[c] # None /\ hand[c] \in Alerts
      BY QueueTypes DEF ApplyAlert, Conns
    <2> QED
      BY <2>1, <2>2, <2>3 DEF ApplyAlert
  <1>2. blame' = blame \cup LateOn(c)
    BY NoteFacts DEF ApplyAlert
  <1>3. Due' = Due /\ Due # None /\ "late" \in Excuses
    BY <1>1, DueFacts DEF Due
  <1>4. hand[c] = Due => Shown'
    BY <1>1 DEF Due, Shown, Alerts
  <1>5. CASE c = "cur"
    <2>1. /\ ahead' /\ hand'["old"] = hand["old"]
          /\ hand["cur"] # None /\ hand'["cur"] = None
      BY <1>1, <1>5 DEF HandsChecked, Conns
    <2>2. hand["cur"] = Due => AlertOnOld'
      BY <1>4, <1>5, <2>1 DEF AlertOnOld
    <2>3. AlertOnCur => AlertOnCur'
      BY <1>1, <1>3, <2>1, <2>2 DEF AlertOnCur
    <2> QED
      BY <1>1, <1>2, <1>3, <2>3, KeepAlert DEF AlertUnderWay
  <1>6. CASE c = "old" /\ ahead
    <2>1. "late" \in blame'
      BY <1>2, <1>6 DEF LateOn
    <2> QED
      BY <1>1, <1>2, <1>3, <2>1, KeepAlert
  <1>7. CASE c = "old" /\ ~ahead
    <2>1. hand'["cur"] = hand["cur"] /\ hand'["old"] = None /\ hand["old"] # None
      BY <1>1, <1>7 DEF Conns
    <2>2. AlertOnOld => AlertOnOld'
      BY <1>1, <1>3, <1>4, <1>7, <2>1 DEF AlertOnOld
    <2>3. AlertOnCur => AlertOnCur'
      BY <1>1, <1>3, <2>1, <2>2 DEF AlertOnCur
    <2> QED
      BY <1>1, <1>2, <1>3, <2>3, KeepAlert DEF AlertUnderWay
  <1> QED
    BY <1>5, <1>6, <1>7 DEF Conns

\* A restart of the collector: what the lane holds still comes, and an episode
\* that nothing announces is due to the restart.
LEMMA AlertCollectorRestart ==
    ASSUME TypeOK, AlertAccounted, CollectorRestart, ~(Quiet' /\ Agree')
    PROVE  AlertAccounted'
  <1>1. /\ UNCHANGED <<mode, silent, lane>> /\ ~firing'
        /\ net'["cur"] = <<>> /\ net'["old"] = <<>>
        /\ hand'["cur"] = None /\ hand'["old"] = None
    BY DEF CollectorRestart, Conns
  <1>2. blame \subseteq blame' /\ "collector" \in blame'
    BY NoteFacts DEF CollectorRestart
  <1>3. Due' = Due /\ Without(<<>>, Alerts)
    BY <1>1, EmptyQueue DEF Due
  <1>4. CASE silent # None
    <2>1. "collector" \in Excuses
      BY <1>4 DEF Excuses
    <2> QED
      BY <1>1, <1>2, <2>1, KeepAlert
  <1>5. CASE silent = None
    <2>1. Shown'
      BY <1>1, <1>5 DEF Shown
    <2>2. AlertOnCur'
      BY <1>1, <1>3, <2>1 DEF AlertOnCur, AlertOnOld
    <2> QED
      BY <1>1, <1>2, <1>3, <2>2, KeepAlert DEF AlertUnderWay
  <1> QED
    BY <1>4, <1>5

\* POST /api/resolve: the operator takes the blame for an episode that goes on.
LEMMA AlertOperator ==
    ASSUME AlertAccounted, OperatorResolve, ~(Quiet' /\ Agree')
    PROVE  AlertAccounted'
  <1>1. UNCHANGED <<mode, silent, lane, net, ahead, hand>> /\ ~firing'
    BY DEF OperatorResolve
  <1>2. blame' = blame \cup {"operator"}
    BY NoteFacts DEF OperatorResolve
  <1>3. CASE silent # None
    <2>1. "operator" \in Excuses
      BY <1>3 DEF Excuses
    <2> QED
      BY <1>1, <1>2, <2>1, KeepAlert
  <1>4. CASE silent = None
    <2>1. Due' = Due /\ Shown'
      BY <1>1, <1>4 DEF Due, Shown
    <2>2. AlertUnderWay => AlertUnderWay'
      BY <1>1, <2>1 DEF AlertUnderWay, AlertOnCur, AlertOnOld
    <2> QED
      BY <1>1, <1>2, <2>2, KeepAlert
  <1> QED
    BY <1>3, <1>4

\* No step loses the alert that is due without an excuse.
LEMMA NextAlert ==
    ASSUME IInv, [Next]_vars
    PROVE  AlertAccounted'
  <1>1. TypeOK /\ AlertAccounted /\ HandsChecked
    BY DEF IInv
  <1>2. CASE UNCHANGED vars
    BY <1>1, <1>2, AlertUnmoved DEF vars
  <1>3. CASE Quiet' /\ Agree'
    BY <1>3, Settled
  <1> SUFFICES ASSUME Next, ~(Quiet' /\ Agree') PROVE AlertAccounted'
    BY <1>2, <1>3
  <1>4. CASE Change \/ PumpExit \/ Break
    <2>1. blame' = blame \cup {}
      BY <1>4, NoteFacts DEF Change, PumpExit, Break
    <2>2. UNCHANGED <<mode, silent, lane, net, ahead, hand, firing>>
      BY <1>4 DEF Change, PumpExit, Break
    <2> QED
      BY <1>1, <2>1, <2>2, AlertUnmoved
  <1>5. ASSUME NEW m \in BOOLEAN, Restart(m)
        PROVE  AlertAccounted'
    <2>1. silent' = None /\ "agent" \in blame'
      BY <1>5, NoteFacts DEF Restart
    <2>2. "agent" \in Excuses'
      BY <2>1 DEF Excuses
    <2> QED
      BY <2>1, <2>2 DEF AlertAccounted
  <1> QED
    BY <1>1, <1>4, <1>5, AlertPolled, AlertConnect, AlertShip, AlertShipFails, AlertCut,
       AlertRegister, AlertCheck, AlertApply, AlertCollectorRestart, AlertOperator DEF Next

-----------------------------------------------------------------------------
(* The Hello of the running process.                                       *)

\* A step that moves no Hello and leaves the setting and the flag alone.
LEMMA HelloUnmoved ==
    ASSUME HelloAccounted, blame \subseteq blame', UNCHANGED <<mode, lane, net, ahead, muted>>
    PROVE  HelloAccounted'
  BY DEF HelloAccounted, HelloUnderWay, HelloOnCur, HelloOnOld

\* AlertSink::send puts only alerts behind the Hello.
LEMMA HelloPolled ==
    ASSUME TypeOK, HelloAccounted, PollBad \/ PollOk, ~(Quiet' /\ Agree')
    PROVE  HelloAccounted'
  <1>1. lane \in Seq(Messages) /\ UNCHANGED <<mode, net, ahead, muted>>
    BY DEF TypeOK, PollBad, PollOk
  <1>2. PICK m \in Alerts : SendAlert(m) \/ NoSend
    BY DEF PollBad, PollOk, Alerts
  <1>3. blame \subseteq blame'
    BY <1>2, NoteFacts DEF SendAlert, NoSend
  <1>4. CASE lane' = lane
    BY <1>1, <1>3, <1>4, HelloUnmoved
  <1>5. CASE lane' = Append(lane, m)
    <2>1. m \in Messages /\ m \notin Hellos
      BY DEF Messages, Alerts, Hellos
    <2>2. /\ LastIs(lane, Hellos, Hello(mode)) => LastIs(lane', Hellos, Hello(mode))
          /\ Without(lane, Hellos) => Without(lane', Hellos)
      BY <1>1, <1>5, <2>1, QueueAppend
    <2>3. HelloOnCur => HelloOnCur'
      BY <1>1 DEF HelloOnCur, HelloOnOld
    <2>4. HelloUnderWay => HelloUnderWay'
      BY <1>1, <2>2, <2>3 DEF HelloUnderWay
    <2> QED
      BY <1>1, <1>3, <2>4, KeepHello
  <1> QED
    BY <1>2, <1>4, <1>5 DEF SendAlert, NoSend

\* main queues one Hello per process, on a new lane.
LEMMA HelloRestart ==
    ASSUME NEW m \in BOOLEAN, Restart(m)
    PROVE  HelloAccounted'
  <1>1. mode' = m /\ lane' = <<Hello(m)>>
    BY DEF Restart
  <1>2. Len(lane') = 1 /\ lane'[1] = Hello(m)
    BY <1>1
  <1>3. LastIs(lane', Hellos, Hello(m))
    BY <1>2 DEF LastIs
  <1> QED
    BY <1>1, <1>3 DEF HelloAccounted, HelloUnderWay

\* The transport connects: the Hellos of the connection that was current count
\* until a frame of the new one is read.
LEMMA HelloConnect ==
    ASSUME TypeOK, HelloAccounted, Connect, ~(Quiet' /\ Agree')
    PROVE  HelloAccounted'
  <1>1. /\ UNCHANGED <<mode, lane, muted>> /\ net["old"] = <<>>
        /\ net'["old"] = net["cur"] /\ net'["cur"] = <<>>
    BY DEF Connect, Conns
  <1>2. blame' = blame \cup {}
    BY NoteFacts DEF Connect
  <1>3. Without(<<>>, Hellos) /\ ~LastIs(<<>>, Hellos, Hello(mode))
    BY EmptyQueue
  <1>4. HelloOnOld => muted = mode
    BY <1>1, <1>3 DEF HelloOnOld
  <1>5. HelloOnCur => HelloOnOld'
    BY <1>1, <1>4 DEF HelloOnCur, HelloOnOld
  <1>6. HelloOnOld' => HelloOnCur'
    BY <1>1, <1>3 DEF HelloOnCur
  <1>7. HelloUnderWay => HelloUnderWay'
    BY <1>1, <1>5, <1>6 DEF HelloUnderWay
  <1> QED
    BY <1>1, <1>2, <1>7, KeepHello

\* ship: the order of what is under way stays the same.
LEMMA HelloShip ==
    ASSUME TypeOK, HelloAccounted, Ship, ~(Quiet' /\ Agree')
    PROVE  HelloAccounted'
  <1> DEFINE e == Head(lane)
             h == Hello(mode)
  <1>1. /\ UNCHANGED <<mode, ahead, muted>> /\ lane # <<>> /\ lane' = Tail(lane)
        /\ net'["old"] = net["old"] /\ net'["cur"] = Append(net["cur"], e)
    BY QueueTypes DEF Ship, Conns
  <1>2. blame' = blame \cup {}
    BY NoteFacts DEF Ship
  <1>3. lane \in Seq(Messages) /\ net["cur"] \in Seq(Messages) /\ h = Hello(mode')
    BY <1>1, QueueTypes
  <1> HIDE DEF h
  <1>4. /\ e \in Messages
        /\ Without(lane, Hellos) => e \notin Hellos /\ Without(lane', Hellos)
        /\ LastIs(lane, Hellos, h) =>
             LastIs(lane', Hellos, h) \/ (Without(lane', Hellos) /\ e = h)
    BY <1>1, <1>3, QueueTail
  <1> HIDE DEF e
  <1>5. /\ e = h => LastIs(net'["cur"], Hellos, h)
        /\ e \notin Hellos /\ LastIs(net["cur"], Hellos, h) => LastIs(net'["cur"], Hellos, h)
        /\ e \notin Hellos /\ Without(net["cur"], Hellos) => Without(net'["cur"], Hellos)
    BY <1>1, <1>3, <1>4, QueueAppend
  <1>6. HelloOnOld' <=> HelloOnOld
    BY <1>1 DEF HelloOnOld
  <1>7. e \notin Hellos /\ HelloOnCur => HelloOnCur'
    BY <1>3, <1>5, <1>6 DEF HelloOnCur, h
  <1>8. e = h => HelloOnCur'
    BY <1>3, <1>5 DEF HelloOnCur
  <1>9. HelloUnderWay => HelloUnderWay'
    BY <1>3, <1>4, <1>7, <1>8 DEF HelloUnderWay, h
  <1> QED
    BY <1>1, <1>2, <1>9, KeepHello

\* A failed ws.send that takes the process's Hello is noted.
LEMMA HelloShipFails ==
    ASSUME TypeOK, HelloAccounted, ShipFails, ~(Quiet' /\ Agree')
    PROVE  HelloAccounted'
  <1> DEFINE e == Head(lane)
  <1>1. UNCHANGED <<mode, net, ahead, muted>> /\ lane # <<>> /\ lane' = Tail(lane)
    BY DEF ShipFails
  <1>2. blame' = blame \cup {Lost(e)}
    BY NoteFacts DEF ShipFails
  <1>3. lane \in Seq(Messages) /\ Lost(Hello(mode)) = "hello_lost"
    BY QueueTypes, HelloFacts
  <1>4. /\ Without(lane, Hellos) => Without(lane', Hellos)
        /\ LastIs(lane, Hellos, Hello(mode)) => LastIs(lane', Hellos, Hello(mode)) \/ e = Hello(mode)
    BY <1>1, <1>3, QueueTail
  <1> HIDE DEF e
  <1>5. HelloOnCur' <=> HelloOnCur
    BY <1>1 DEF HelloOnCur, HelloOnOld
  <1>6. HelloUnderWay => HelloUnderWay' \/ e = Hello(mode)
    BY <1>1, <1>4, <1>5 DEF HelloUnderWay
  <1>7. e = Hello(mode) => "hello_lost" \in blame'
    BY <1>2, <1>3
  <1> QED
    BY <1>1, <1>2, <1>6, <1>7, KeepHello

\* A broken connection that takes the process's Hello is noted.
LEMMA HelloCut ==
    ASSUME TypeOK, HelloAccounted, NEW c \in Conns, Cut(c), ~(Quiet' /\ Agree')
    PROVE  HelloAccounted'
  <1>1. /\ UNCHANGED <<mode, lane, ahead, muted>>
        /\ net'[c] = <<>> /\ \A d \in Conns : d # c => net'[d] = net[d]
    BY QueueTypes DEF Cut
  <1>2. blame' = blame \cup {Lost(net[c][i]) : i \in DOMAIN net[c]}
    BY NoteFacts DEF Cut
  <1>3. net[c] \in Seq(Messages) /\ Lost(Hello(mode)) = "hello_lost"
    BY QueueTypes, HelloFacts DEF Conns
  <1>4. Without(<<>>, Hellos)
    BY EmptyQueue
  <1>5. CASE ~Without(net[c], Hellos)
    <2>1. PICK i \in 1 .. Len(net[c]) : net[c][i] \in Hellos
      BY <1>5 DEF Without
    <2>2. Lost(net[c][i]) = "hello_lost" /\ i \in DOMAIN net[c]
      BY <1>3, <2>1, LenProperties DEF Lost
    <2>3. "hello_lost" \in blame'
      BY <1>2, <2>2
    <2> QED
      BY <2>3 DEF HelloAccounted
  <1>6. CASE Without(net[c], Hellos)
    <2>1. ~LastIs(net[c], Hellos, Hello(mode))
      BY <1>6, HelloFacts DEF Without, LastIs
    <2>2. CASE c = "cur"
      <3>1. net'["cur"] = <<>> /\ net'["old"] = net["old"]
        BY <1>1, <2>2 DEF Conns
      <3>2. HelloOnOld' <=> HelloOnOld
        BY <1>1, <3>1 DEF HelloOnOld
      <3>3. HelloOnCur => HelloOnCur'
        BY <1>1, <1>4, <2>1, <2>2, <3>1, <3>2 DEF HelloOnCur
      <3> QED
        BY <1>1, <1>2, <3>3, KeepHello DEF HelloUnderWay
    <2>3. CASE c = "old"
      <3>1. net'["old"] = <<>> /\ net'["cur"] = net["cur"]
        BY <1>1, <2>3 DEF Conns
      <3>2. HelloOnOld => HelloOnOld'
        BY <1>1, <1>4, <1>6, <2>1, <2>3, <3>1 DEF HelloOnOld
      <3>3. HelloOnCur => HelloOnCur'
        BY <1>1, <3>1, <3>2 DEF HelloOnCur
      <3> QED
        BY <1>1, <1>2, <3>3, KeepHello DEF HelloUnderWay
    <2> QED
      BY <2>2, <2>3 DEF Conns
  <1> QED
    BY <1>5, <1>6

\* register_hello: the process's Hello sets the flag, and one of the old
\* connection that comes after its successor's frames is late.
LEMMA HelloRegister ==
    ASSUME TypeOK, HelloAccounted, NEW c \in Conns, RegisterHello(c), ~(Quiet' /\ Agree')
    PROVE  HelloAccounted'
  <1> DEFINE h == Hello(mode)
             e == Head(net[c])
  <1>1. /\ UNCHANGED <<mode, lane>>
        /\ net[c] # <<>> /\ net'[c] = Tail(net[c])
        /\ \A d \in Conns : d # c => net'[d] = net[d]
        /\ e \in Hellos
    BY QueueTypes DEF RegisterHello, Read
  <1>2. blame' = blame \cup LateOn(c)
    BY NoteFacts DEF RegisterHello
  <1>3. h = Hello(mode') /\ net[c] \in Seq(Messages)
    BY <1>1, QueueTypes DEF Conns
  <1>4. e = h => muted' = mode'
    <2>1. muted' = (e = "hello_maintenance") /\ mode \in BOOLEAN /\ mode' = mode
      BY <1>1 DEF RegisterHello, TypeOK
    <2> HIDE DEF e
    <2>2. CASE mode
      BY <2>1, <2>2 DEF Hello
    <2>3. CASE ~mode
      BY <2>1, <2>3 DEF Hello
    <2> QED
      BY <2>1, <2>2, <2>3
  <1>5. /\ ~Without(net[c], Hellos)
        /\ LastIs(net[c], Hellos, h) =>
             LastIs(net'[c], Hellos, h) \/ (Without(net'[c], Hellos) /\ e = h)
    BY <1>1, <1>3, QueueTail
  <1> HIDE DEF e, h
  <1>6. CASE c = "cur"
    <2>1. ahead' /\ net'["old"] = net["old"]
      BY <1>1, <1>6 DEF RegisterHello, Read, Conns
    <2>2. e = h => HelloOnOld'
      BY <1>4, <2>1 DEF HelloOnOld
    <2>3. HelloOnCur => HelloOnCur'
      BY <1>3, <1>5, <1>6, <2>2 DEF HelloOnCur, h
    <2> QED
      BY <1>1, <1>2, <2>3, KeepHello DEF HelloUnderWay
  <1>7. CASE c = "old" /\ ahead
    <2>1. "late" \in blame'
      BY <1>2, <1>7 DEF LateOn
    <2> QED
      BY <2>1 DEF HelloAccounted
  <1>8. CASE c = "old" /\ ~ahead
    <2>1. net'["cur"] = net["cur"]
      BY <1>1, <1>8 DEF Conns
    <2>2. HelloOnOld => HelloOnOld'
      BY <1>3, <1>4, <1>5, <1>8 DEF HelloOnOld, h
    <2>3. HelloOnCur => HelloOnCur'
      BY <1>1, <2>1, <2>2 DEF HelloOnCur
    <2> QED
      BY <1>1, <1>2, <2>3, KeepHello DEF HelloUnderWay
  <1> QED
    BY <1>6, <1>7, <1>8 DEF Conns

\* The handlers read an alert: the Hellos keep their order, and those of the old
\* connection are late once the current one is ahead.
LEMMA HelloCheck ==
    ASSUME TypeOK, HelloAccounted, NEW c \in Conns, CheckAlert(c), ~(Quiet' /\ Agree')
    PROVE  HelloAccounted'
  <1> DEFINE h == Hello(mode)
  <1>1. /\ UNCHANGED <<mode, lane, muted>>
        /\ net[c] # <<>> /\ net'[c] = Tail(net[c])
        /\ \A d \in Conns : d # c => net'[d] = net[d]
        /\ Head(net[c]) \in Alerts
        /\ ahead => ahead'
    BY QueueTypes DEF CheckAlert, Read
  <1>2. blame \subseteq blame'
    BY NoteFacts DEF CheckAlert
  <1>3. /\ h = Hello(mode') /\ net[c] \in Seq(Messages)
        /\ Head(net[c]) \notin Hellos /\ Head(net[c]) # h
    BY <1>1, QueueTypes, HelloFacts DEF Conns, Alerts, Hellos
  <1> HIDE DEF h
  <1>4. /\ Without(net[c], Hellos) => Without(net'[c], Hellos)
        /\ ~Without(net[c], Hellos) => ~Without(net'[c], Hellos)
        /\ LastIs(net[c], Hellos, h) => LastIs(net'[c], Hellos, h)
    BY <1>1, <1>3, QueueTail
  <1>5. \A d \in Conns : /\ Without(net[d], Hellos) <=> Without(net'[d], Hellos)
                         /\ LastIs(net[d], Hellos, h) => LastIs(net'[d], Hellos, h)
    BY <1>1, <1>4
  <1>6. HelloOnOld => HelloOnOld'
    BY <1>1, <1>3, <1>5 DEF HelloOnOld, Conns, h
  <1>7. HelloOnCur => HelloOnCur'
    BY <1>1, <1>3, <1>5, <1>6 DEF HelloOnCur, Conns, h
  <1> QED
    BY <1>1, <1>2, <1>7, KeepHello DEF HelloUnderWay

\* No step loses the process's Hello, or overtakes it, without a note.
LEMMA NextHello ==
    ASSUME IInv, [Next]_vars
    PROVE  HelloAccounted'
  <1>1. TypeOK /\ HelloAccounted
    BY DEF IInv
  <1>2. CASE UNCHANGED vars
    BY <1>1, <1>2, HelloUnmoved DEF vars
  <1>3. CASE Quiet' /\ Agree'
    BY <1>3, Settled
  <1> SUFFICES ASSUME Next, ~(Quiet' /\ Agree') PROVE HelloAccounted'
    BY <1>2, <1>3
  <1>4. CASE Change \/ PumpExit \/ Break \/ OperatorResolve \/ \E c \in Conns : ApplyAlert(c)
    <2>1. blame \subseteq blame'
      BY <1>4, NoteFacts DEF Change, PumpExit, Break, OperatorResolve, ApplyAlert
    <2>2. UNCHANGED <<mode, lane, net, ahead, muted>>
      BY <1>4 DEF Change, PumpExit, Break, OperatorResolve, ApplyAlert
    <2> QED
      BY <1>1, <2>1, <2>2, HelloUnmoved
  <1>5. CASE CollectorRestart
    <2>1. "collector" \in blame'
      BY <1>5, NoteFacts DEF CollectorRestart
    <2> QED
      BY <2>1 DEF HelloAccounted
  <1> QED
    BY <1>1, <1>4, <1>5, HelloPolled, HelloRestart, HelloConnect, HelloShip, HelloShipFails,
       HelloCut, HelloRegister, HelloCheck DEF Next

-----------------------------------------------------------------------------
(* The alerts that the handlers have let through.                          *)

\* A handler reads no Hello while it holds an alert, so maintenance overtakes an
\* alert only from the other connection, and one of the two is late then.
LEMMA NextHands ==
    ASSUME IInv, [Next]_vars
    PROVE  HandsChecked'
  <1>1. TypeOK /\ HandsChecked
    BY DEF IInv
  <1>2. CASE UNCHANGED vars
    BY <1>1, <1>2 DEF vars, HandsChecked
  <1>3. CASE Quiet' /\ Agree'
    BY <1>3, Settled
  <1> SUFFICES ASSUME Next, ~(Quiet' /\ Agree') PROVE HandsChecked'
    BY <1>2, <1>3
  <1>4. blame \subseteq blame'
    <2>1. ASSUME NEW causes, Note(causes) PROVE blame \subseteq blame'
      BY <2>1, NoteFacts
    <2>2. \E causes : Note(causes)
      BY DEF Next, Change, PollBad, PollOk, SendAlert, NoSend, Restart, Connect, Ship,
             ShipFails, PumpExit, Break, Cut, RegisterHello, CheckAlert, ApplyAlert,
             CollectorRestart, OperatorResolve
    <2> QED
      BY <2>1, <2>2
  <1>5. CASE UNCHANGED <<ahead, hand, muted>>
    BY <1>1, <1>4, <1>5 DEF HandsChecked
  <1>6. CASE Connect
    <2>1. /\ muted' = muted /\ hand'["cur"] = None /\ hand'["old"] = hand["cur"]
      BY <1>6 DEF Connect, Conns
    <2>2. muted /\ hand["cur"] # None => "late" \in blame
      BY <1>1 DEF HandsChecked, Conns
    <2> QED
      BY <1>4, <2>1, <2>2 DEF HandsChecked, Conns
  <1>7. ASSUME NEW c \in Conns, RegisterHello(c)
        PROVE  HandsChecked'
    <2>1. hand' = hand /\ hand[c] = None /\ ahead' = (ahead \/ c = "cur")
      BY <1>7 DEF RegisterHello, Read
    <2>2. blame' = blame \cup LateOn(c)
      BY <1>7, NoteFacts DEF RegisterHello
    <2>3. CASE c = "cur"
      <3>1. hand'["cur"] = None /\ ahead'
        BY <2>1, <2>3
      <3> QED
        BY <3>1 DEF HandsChecked, Conns
    <2>4. CASE c = "old"
      <3>1. hand'["old"] = None /\ (hand'["cur"] # None => ahead /\ ahead')
        BY <1>1, <2>1, <2>4 DEF HandsChecked
      <3>2. ahead => "late" \in blame'
        BY <2>2, <2>4 DEF LateOn
      <3> QED
        BY <3>1, <3>2 DEF HandsChecked, Conns
    <2> QED
      BY <2>3, <2>4 DEF Conns
  <1>8. ASSUME NEW c \in Conns, CheckAlert(c)
        PROVE  HandsChecked'
    <2>1. muted' = muted /\ ahead' = (ahead \/ c = "cur")
      BY <1>8 DEF CheckAlert, Read
    <2>2. CASE muted /\ hand' = hand
      BY <1>1, <1>4, <2>1, <2>2 DEF HandsChecked
    <2>3. CASE ~muted /\ hand' = [hand EXCEPT ![c] = Head(net[c])]
      <3>1. hand'["cur"] # None => ahead'
        <4>1. CASE c = "cur"
          BY <2>1, <4>1
        <4>2. CASE c # "cur"
          <5>1. hand'["cur"] = hand["cur"]
            BY <1>1, <2>3, <4>2, QueueTypes DEF Conns
          <5> QED
            BY <1>1, <2>1, <5>1 DEF HandsChecked
        <4> QED
          BY <4>1, <4>2
      <3> QED
        BY <2>1, <2>3, <3>1 DEF HandsChecked
    <2> QED
      BY <1>8, <2>2, <2>3 DEF CheckAlert
  <1>9. ASSUME NEW c \in Conns, ApplyAlert(c)
        PROVE  HandsChecked'
    <2>1. UNCHANGED <<muted, ahead>> /\ hand' = [hand EXCEPT ![c] = None]
      BY <1>9 DEF ApplyAlert
    <2>2. \A d \in Conns : hand'[d] # None => hand[d] # None
      BY <1>1, <2>1, QueueTypes
    <2>3. "cur" \in Conns
      BY DEF Conns
    <2> QED
      BY <1>1, <1>4, <2>1, <2>2, <2>3 DEF HandsChecked
  <1>10. CASE CollectorRestart
    <2>1. \A c \in Conns : hand'[c] = None
      BY <1>10 DEF CollectorRestart
    <2> QED
      BY <2>1 DEF HandsChecked, Conns
  <1>11. CASE \/ Change \/ PollBad \/ PollOk \/ Ship \/ ShipFails \/ PumpExit \/ Break
              \/ OperatorResolve
              \/ (\E m \in BOOLEAN : Restart(m)) \/ (\E c \in Conns : Cut(c))
    <2>1. UNCHANGED <<ahead, hand, muted>>
      BY <1>11 DEF Change, PollBad, PollOk, Ship, ShipFails, PumpExit, Break,
                   OperatorResolve, Restart, Cut
    <2> QED
      BY <1>5, <2>1
  <1> QED
    BY <1>6, <1>7, <1>8, <1>9, <1>10, <1>11 DEF Next

-----------------------------------------------------------------------------
(* The theorems.                                                           *)

\* At start nothing is shown, and the Hello waits on the lane.
LEMMA InitInvariant == Init => IInv
  <1> SUFFICES ASSUME Init PROVE IInv
    OBVIOUS
  <1>1. TypeOK
    BY InitType
  <1>2. /\ silent = None /\ ~firing /\ lane = <<Hello(mode)>>
        /\ net["cur"] = <<>> /\ net["old"] = <<>> /\ hand["cur"] = None /\ hand["old"] = None
    BY DEF Init, Conns
  <1>3. Len(lane) = 1 /\ lane[1] = Hello(mode) /\ Hello(mode) \notin Alerts
    BY <1>2, HelloFacts
  <1>4. Without(lane, Alerts) /\ LastIs(lane, Hellos, Hello(mode)) /\ Without(<<>>, Alerts)
    BY <1>3, EmptyQueue DEF Without, LastIs
  <1>5. AlertAccounted
    BY <1>2, <1>4 DEF AlertAccounted, AlertUnderWay, AlertOnCur, AlertOnOld, Shown
  <1>6. HelloAccounted
    BY <1>4 DEF HelloAccounted, HelloUnderWay
  <1>7. HandsChecked
    BY <1>2 DEF HandsChecked, Conns
  <1> QED
    BY <1>1, <1>5, <1>6, <1>7 DEF IInv

\* The invariant holds along every behaviour of the path.
THEOREM PathInvariant == Spec => []IInv
  <1>1. IInv /\ [Next]_vars => IInv'
    <2> SUFFICES ASSUME IInv, [Next]_vars PROVE IInv'
      OBVIOUS
    <2>1. TypeOK'
      BY NextType DEF IInv
    <2> QED
      BY <2>1, NextAlert, NextHello, NextHands DEF IInv
  <1> QED
    BY <1>1, InitInvariant, PTL DEF Spec

\* The lane and the sockets never exceed their capacity (send_queue_size), and a
\* recovery window never outlives its entry (state.rs).
THEOREM TypeCorrect == Spec => []TypeOK
  <1>1. IInv => TypeOK
    BY DEF IInv
  <1> QED
    BY <1>1, PathInvariant, PTL

\* Two ends at rest that disagree about the condition do so for one of the causes
\* that the observer has noted since they last agreed: state.rs, bus.rs,
\* transport.rs and ws_ingest.rs know no other way to part them.
THEOREM DisagreementHasCause == Spec => []DisagreementExplained
  <1>1. IInv => DisagreementExplained
    <2> SUFFICES ASSUME IInv, Quiet, ~mode
                 PROVE  /\ firing /\ silent = None =>
                             blame \cap {"resolved_lost", "muted", "agent", "late"} # {}
                        /\ ~firing /\ silent # None =>
                             blame \cap {"firing_lost", "muted", "collector", "operator", "late"} # {}
      BY DEF DisagreementExplained
    <2>1. /\ lane = <<>> /\ net["cur"] = <<>> /\ net["old"] = <<>>
          /\ hand["cur"] = None /\ hand["old"] = None
      BY DEF Quiet, Conns
    <2>2. ~LastIs(<<>>, Alerts, Due) /\ Due # None
      BY EmptyQueue, DueFacts
    <2>3. AlertUnderWay => Shown
      BY <2>1, <2>2 DEF AlertUnderWay, AlertOnCur, AlertOnOld
    <2>4. blame \cap Excuses # {} \/ Shown
      BY <2>3 DEF IInv, AlertAccounted
    <2> QED
      BY <2>4 DEF Excuses, Shown
  <1> QED
    BY <1>1, PathInvariant, PTL

\* The collector's maintenance flag at rest differs from the agent's setting only
\* after a lost Hello, a restart of the collector or a late frame.
THEOREM MutedHasCause == Spec => []MutedExplained
  <1>1. IInv => MutedExplained
    <2> SUFFICES ASSUME IInv, Quiet, muted # mode
                 PROVE  blame \cap {"hello_lost", "collector", "late"} # {}
      BY DEF MutedExplained
    <2>1. lane = <<>> /\ net["cur"] = <<>> /\ net["old"] = <<>>
      BY DEF Quiet, Conns
    <2>2. Without(<<>>, Hellos) /\ ~LastIs(<<>>, Hellos, Hello(mode))
      BY EmptyQueue
    <2>3. ~HelloUnderWay
      BY <2>1, <2>2 DEF HelloUnderWay, HelloOnCur, HelloOnOld
    <2> QED
      BY <2>3 DEF IInv, HelloAccounted
  <1> QED
    BY <1>1, PathInvariant, PTL

\* Only apply_alert raises an alarm, and for a host in maintenance it does so only
\* when one of two connections of the host is late (ws_ingest.rs).
THEOREM MaintenanceKept == Spec => MaintenanceRespected
  <1>1. IInv /\ [Next]_vars => (~firing /\ firing' /\ muted => "late" \in blame') \/ UNCHANGED vars
    <2> SUFFICES ASSUME IInv, Next, ~firing, firing', muted
                 PROVE  "late" \in blame'
      OBVIOUS
    <2>1. PICK c \in Conns : ApplyAlert(c)
      <3>1. \/ Change \/ PollBad \/ PollOk \/ Connect \/ Ship \/ ShipFails \/ PumpExit \/ Break
            \/ \E m \in BOOLEAN : Restart(m)
            \/ \E c \in Conns : Cut(c) \/ RegisterHello(c) \/ CheckAlert(c)
            => firing' = firing
        BY DEF Change, PollBad, PollOk, Restart, Connect, Ship, ShipFails, PumpExit,
               Break, Cut, RegisterHello, CheckAlert
      <3>2. CollectorRestart \/ OperatorResolve => ~firing'
        BY DEF CollectorRestart, OperatorResolve
      <3> QED
        BY <3>1, <3>2 DEF Next
    <2>2. muted' = muted /\ mode' = mode /\ hand[c] # None
      BY <2>1 DEF ApplyAlert
    <2>3. blame' = blame \cup LateOn(c)
      <3>1. ~Agree'
        BY <2>2, Zenon DEF Agree
      <3> QED
        BY <2>1, <3>1, NoteFacts DEF ApplyAlert
    <2>4. "late" \in blame \/ (c = "old" /\ ahead)
      BY <2>2 DEF IInv, HandsChecked
    <2> QED
      BY <2>3, <2>4 DEF LateOn
  <1> QED
    BY <1>1, PathInvariant, PTL DEF Spec, MaintenanceRespected
=============================================================================
