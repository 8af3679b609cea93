--------------------------- MODULE HostLifecycle ---------------------------
(***************************************************************************)
(* The agent around the end and the start of its host: the notice it sends *)
(* when the host is about to stop (agent/src/modules/lifecycle.rs) and the *)
(* report it makes when it finds that the host has rebooted (boot.rs).     *)
(*                                                                         *)
(* logind, the operator and the power supply are the environment.  logind  *)
(* holds a shutdown back while the agent holds a delay lock, at most       *)
(* InhibitMax; its signals reach only a subscribed loop.  The transport is *)
(* the normal lane of AgentLink, reduced to how many messages it holds; a  *)
(* file's contents reach the disk some time after the write.               *)
(***************************************************************************)
EXTENDS Integers, Sequences

CONSTANTS
    ReNotify,      \* dedup.re_notify_after_s
    InhibitMax,    \* InhibitDelayMaxSec
    Configs,       \* what may be enabled: subsets of {"boot", "lifecycle"}
    None,
    MaxTime,       \* bound: the clock stops here
    MaxBoots,      \* bound: boots of the host
    MaxStarts,     \* bound: starts of the agent
    LaneCap,       \* capacity of the lane
    MaxSignals     \* bound: signals not yet received

ASSUME LifecycleAssumption ==
    /\ ReNotify \in Nat /\ InhibitMax \in Nat
    /\ MaxTime \in Nat /\ MaxBoots \in Nat \ {0} /\ MaxStarts \in Nat
    /\ Configs \in SUBSET SUBSET {"boot", "lifecycle"} /\ LaneCap \in Nat /\ MaxSignals \in Nat
    /\ None \notin Nat

\* MODE= of a scheduled shutdown; "other" is halt or kexec.
Modes == {"reboot", "poweroff", "other"}
Payloads == {"start", "cancel", "bad"}
Torn == 0   \* the state file is empty: truncated, the boot_id not written
Contents == 0 .. MaxBoots \cup {None}
Metrics == {"host_rebooting", "host_shutting_down"}

VARIABLES
    enabled,    \* the two modules' cfg.enabled
    now,
    boot,       \* number of the boot, the boot_id
    host,       \* "up", "stopping" (logind waits for delay locks), "off"
    deadline,   \* when logind stops waiting
    scheduled,  \* MODE= of /run/systemd/shutdown/scheduled, None: no such file
    agent,      \* the agent process runs
    starts,     \* observer: the boots of the agent's starts
    last_boot,  \* the state file of boot.rs, None: never written
    disk,       \* the contents of it that a power loss may leave
    pending,    \* boot.rs: the file is written, the alert not yet sent
    loop,       \* logind_shutdown_loop: "idle", "locked", "listening"
    signals,    \* PrepareForShutdown payloads not yet received
    alerted,    \* alerted_for_presence
    carrying,   \* scheduled_file_poll has a notice from the tracker, not yet sent
    told,       \* tracker: time of the last emission per metric, or None
    lane,       \* how many messages the sink holds for the transport
    sent,       \* observer: when a notice last entered the lane, or None
    dropped,    \* observer: when a full lane last discarded a notice, or None
    owed,       \* observer: the loop has been listening since the request
    held,       \* observer: the lock has been held since the shutdown was asked for
    failed,     \* observer: failed[b]: starts in boot b that could not store its id
    reports     \* observer: reports[b]: reboot reports made in boot b

notices == <<told, lane, sent, dropped>>
file == <<last_boot, disk, failed>>
vars == <<enabled, now, boot, host, deadline, scheduled, agent, starts, file, pending, loop,
          signals, alerted, carrying, notices, owed, held, reports>>

\* What a step of the agent's tasks leaves alone.
world == <<enabled, now, boot, host, deadline, scheduled, starts, file, held>>

TypeOK ==
    /\ enabled \in Configs /\ now \in 0 .. MaxTime /\ boot \in 1 .. MaxBoots
    /\ host \in {"up", "stopping", "off"} /\ deadline \in Nat
    /\ scheduled \in Modes \cup {None}
    /\ agent \in BOOLEAN /\ starts \in Seq(1 .. MaxBoots)
    /\ last_boot \in Contents /\ disk \in SUBSET Contents /\ pending \in BOOLEAN
    /\ loop \in {"idle", "locked", "listening"}
    /\ signals \in Seq(Payloads) /\ (loop # "listening" => signals = <<>>)
    /\ alerted \in BOOLEAN /\ carrying \in BOOLEAN
    /\ told \in [Metrics -> 0 .. MaxTime \cup {None}]
    /\ lane \in 0 .. LaneCap
    /\ sent \in 0 .. MaxTime \cup {None} /\ dropped \in 0 .. MaxTime \cup {None}
    /\ owed \in BOOLEAN /\ held \in BOOLEAN
    /\ failed \in [1 .. MaxBoots -> Nat] /\ reports \in [1 .. MaxBoots -> Nat]
    /\ ~agent => loop = "idle" /\ lane = 0 /\ ~pending /\ ~carrying

Init ==
    /\ enabled \in Configs /\ now = 0 /\ boot = 1 /\ host = "up" /\ deadline = 0 /\ scheduled = None
    /\ agent = FALSE /\ starts = <<>> /\ pending = FALSE
    /\ last_boot = None /\ disk = {None} /\ failed = [b \in 1 .. MaxBoots |-> 0]
    /\ loop = "idle" /\ signals = <<>> /\ alerted = FALSE /\ carrying = FALSE
    /\ told = [m \in Metrics |-> None] /\ sent = None /\ dropped = None
    /\ lane = 0 /\ owed = FALSE /\ held = FALSE
    /\ reports = [b \in 1 .. MaxBoots |-> 0]

-----------------------------------------------------------------------------
(* The sink and the tracker, as these two modules use them.                *)

\* Warning severity: the normal lane, and try_send, which discards on a full one.
HasRoom == lane < LaneCap
Send == lane' = IF HasRoom THEN lane + 1 ELSE lane

SendNotice ==
    /\ Send
    /\ IF HasRoom THEN sent' = now /\ UNCHANGED dropped ELSE dropped' = now /\ UNCHANGED sent

\* tracker.observe: suppressed, or recorded as told.
Fresh(m) == told[m] # None /\ now - told[m] < ReNotify
Emit(m) == told' = [told EXCEPT ![m] = now]

\* guess_kind_from_scheduled_path: without MODE=reboot or MODE=poweroff in the
\* file default.target decides, which may name either.
GuessKind ==
    CASE scheduled = "reboot" -> {"host_rebooting"}
      [] scheduled = "poweroff" -> {"host_shutting_down"}
      [] OTHER -> Metrics

-----------------------------------------------------------------------------
(* boot.rs: run.                                                           *)

WriteIdOnce(b) ==   \* mutant: an id that is there is kept
    IF last_boot = None
    THEN last_boot' = b /\ disk' = disk \cup {Torn, b} /\ UNCHANGED failed
    ELSE UNCHANGED file

\* std::fs::write truncates and writes; a failure is ignored: the file cannot be
\* opened, or it stays empty (no room, or the process dies in between).
WriteId(b) ==
    \/ last_boot' = b /\ disk' = disk \cup {Torn, b} /\ UNCHANGED failed
    \/ /\ failed' = [failed EXCEPT ![boot] = @ + 1]
       /\ \/ UNCHANGED <<last_boot, disk>>
          \/ last_boot' = Torn /\ disk' = disk \cup {Torn}

\* The process starts; the state file is read and overwritten before anything is
\* sent.
Start ==
    /\ ~agent /\ host = "up" /\ Len(starts) < MaxStarts
    /\ agent' = TRUE /\ starts' = Append(starts, boot)
    /\ \/ /\ "boot" \in enabled
          /\ pending' = (last_boot # None /\ last_boot # boot)
          /\ WriteId(boot)
       \/ "boot" \notin enabled /\ pending' = FALSE /\ UNCHANGED file
    /\ UNCHANGED <<enabled, now, boot, host, deadline, scheduled, loop, signals, alerted, carrying,
                   notices, owed, held, reports>>

BootReport ==
    /\ pending
    /\ pending' = FALSE
    /\ Send
    /\ reports' = [reports EXCEPT ![boot] = @ + 1]
    /\ UNCHANGED <<world, agent, loop, signals, alerted, carrying, told, sent, dropped, owed>>

-----------------------------------------------------------------------------
(* lifecycle.rs: logind_shutdown_loop and scheduled_file_poll.             *)

\* logind refuses new locks once a shutdown is under way.
Inhibit ==
    /\ agent /\ "lifecycle" \in enabled /\ loop = "idle" /\ host = "up"
    /\ loop' = "locked"
    /\ UNCHANGED <<world, agent, pending, signals, alerted, carrying, notices, owed, reports>>

Subscribe ==
    /\ loop = "locked"
    /\ loop' = "listening"
    /\ UNCHANGED <<world, agent, pending, signals, alerted, carrying, notices, owed, reports>>

OnSignalTrustsPoll ==   \* mutant: nothing is sent for a file the poll has seen
    /\ loop = "listening" /\ signals # <<>>
    /\ IF Head(signals) = "start"
       THEN /\ \/ (alerted \/ \E m \in GuessKind : Fresh(m)) /\ UNCHANGED notices
               \/ ~alerted /\ \E m \in GuessKind : ~Fresh(m) /\ Emit(m) /\ SendNotice
            /\ loop' = "idle" /\ signals' = <<>>
       ELSE signals' = Tail(signals) /\ UNCHANGED <<loop, notices>>
    /\ UNCHANGED <<world, agent, pending, alerted, carrying, owed, reports>>

\* start = true: observe, send, return, which drops the lock and the stream.  A
\* cancellation and a payload that cannot be read are passed over.
OnSignal ==
    /\ loop = "listening" /\ signals # <<>>
    /\ IF Head(signals) = "start"
       THEN /\ \E m \in GuessKind : IF Fresh(m) THEN UNCHANGED notices ELSE Emit(m) /\ SendNotice
            /\ loop' = "idle" /\ signals' = <<>>
       ELSE signals' = Tail(signals) /\ UNCHANGED <<loop, notices>>
    /\ UNCHANGED <<world, agent, pending, alerted, carrying, owed, reports>>

LoopFailsKeepsStream ==   \* mutant: the old stream is read again after a failure
    /\ loop # "idle"
    /\ loop' = "idle" /\ owed' = FALSE /\ held' = FALSE
    /\ UNCHANGED <<enabled, now, boot, host, deadline, scheduled, starts, agent, file, pending,
                   signals, alerted, carrying, notices, reports>>

\* D-Bus fails or the stream ends: the loop starts over after a pause.
LoopFails ==
    /\ loop # "idle"
    /\ loop' = "idle" /\ signals' = <<>> /\ owed' = FALSE /\ held' = FALSE
    /\ UNCHANGED <<enabled, now, boot, host, deadline, scheduled, starts, agent, file, pending,
                   alerted, carrying, notices, reports>>

\* One tick: the first sight of the file is observed; the loop above may ask the
\* tracker before the notice is sent.
PollFile ==
    /\ agent /\ "lifecycle" \in enabled /\ ~carrying
    /\ alerted # (scheduled # None)
    /\ alerted' = (scheduled # None)
    /\ \/ scheduled = None /\ UNCHANGED <<told, carrying>>
       \/ /\ scheduled # None
          /\ \E m \in GuessKind : IF Fresh(m) THEN UNCHANGED <<told, carrying>>
                                ELSE Emit(m) /\ carrying' = TRUE
    /\ UNCHANGED <<world, agent, pending, loop, signals, lane, sent, dropped, owed, reports>>

PollSend ==
    /\ carrying
    /\ carrying' = FALSE
    /\ SendNotice
    /\ UNCHANGED <<world, agent, pending, loop, signals, alerted, told, owed, reports>>

-----------------------------------------------------------------------------
(* The rest of the agent: another message, the transport, a crash.         *)

OtherAlert ==
    /\ agent
    /\ Send
    /\ UNCHANGED <<world, agent, pending, loop, signals, alerted, carrying, told, sent, dropped,
                   owed, reports>>

Ship ==
    /\ lane > 0
    /\ lane' = lane - 1
    /\ UNCHANGED <<world, agent, pending, loop, signals, alerted, carrying, told, sent, dropped,
                   owed, reports>>

Gone ==
    /\ agent' = FALSE /\ pending' = FALSE /\ carrying' = FALSE /\ alerted' = FALSE
    /\ told' = [m \in Metrics |-> None] /\ lane' = 0 /\ sent' = None /\ dropped' = None
    /\ loop' = "idle" /\ signals' = <<>> /\ owed' = FALSE
    /\ UNCHANGED <<enabled, reports, now, boot, starts, failed>>

Crash == agent /\ Gone /\ held' = FALSE /\ UNCHANGED <<host, deadline, scheduled, last_boot, disk>>

-----------------------------------------------------------------------------
(* systemd-logind, operators and power (external).                         *)

agentVars == <<enabled, agent, starts, pending, loop, alerted, carrying, notices, reports>>

\* To a subscribed loop, with a payload that it can read or not.
Signal(payload) ==
    IF loop = "listening" THEN \E p \in {payload, "bad"} : signals' = Append(signals, p)
    ELSE UNCHANGED signals

Schedule(mode) ==
    /\ host = "up" /\ scheduled = None
    /\ scheduled' = mode
    /\ UNCHANGED <<agentVars, file, now, boot, host, deadline, signals, owed, held>>

Cancel ==
    /\ host = "up" /\ scheduled # None
    /\ scheduled' = None
    /\ UNCHANGED <<agentVars, file, now, boot, host, deadline, signals, owed, held>>

\* reboot, poweroff, or the scheduled time: PrepareForShutdown(true).
Request ==
    /\ host = "up" /\ Len(signals) < MaxSignals
    /\ host' = "stopping" /\ deadline' = now + InhibitMax
    /\ Signal("start")
    /\ owed' = (loop = "listening") /\ held' = (loop # "idle")
    /\ UNCHANGED <<agentVars, file, now, boot, scheduled>>

\* The shutdown fails: PrepareForShutdown(false).
Abandon ==
    /\ host = "stopping" /\ Len(signals) < MaxSignals
    /\ host' = "up" /\ owed' = FALSE /\ held' = FALSE
    /\ Signal("cancel")
    /\ deadline' = 0
    /\ UNCHANGED <<agentVars, file, now, boot, scheduled>>

TimedOut == now >= deadline

\* The file systems are unmounted.
Proceed ==
    /\ host = "stopping"
    /\ loop = "idle" \/ TimedOut
    /\ host' = "off" /\ disk' = {last_boot}
    /\ deadline' = 0 /\ held' = FALSE
    /\ Gone /\ UNCHANGED <<scheduled, last_boot>>

\* What was not yet on the disk may be lost; nobody asked for an fsync.
PowerLoss ==
    /\ host = "up"
    /\ host' = "off" /\ last_boot' \in disk /\ disk' = {last_boot'}
    /\ Gone /\ UNCHANGED <<deadline, scheduled, held>>

Writeback ==
    /\ host # "off" /\ disk # {last_boot}
    /\ disk' = {last_boot}
    /\ UNCHANGED <<agentVars, last_boot, failed, now, boot, host, deadline, scheduled, signals,
                   owed, held>>

BootHost ==
    /\ host = "off" /\ boot < MaxBoots
    /\ host' = "up" /\ boot' = boot + 1 /\ scheduled' = None
    /\ UNCHANGED <<agentVars, file, now, deadline, signals, owed, held>>

Tick ==
    /\ now < MaxTime
    /\ now' = now + 1
    /\ UNCHANGED <<agentVars, file, boot, host, deadline, scheduled, signals, owed, held>>

Next ==
    \/ Start \/ BootReport
    \/ Inhibit \/ Subscribe \/ OnSignal \/ LoopFails \/ PollFile \/ PollSend
    \/ OtherAlert \/ Ship \/ Crash
    \/ \E mode \in Modes : Schedule(mode)
    \/ Cancel \/ Request \/ Abandon \/ Proceed \/ PowerLoss \/ Writeback
    \/ BootHost \/ Tick

Spec == Init /\ [][Next]_vars

\* systemd restarts the agent, the runtime polls its tasks, logind goes on.
FairSpec ==
    /\ Spec
    /\ WF_vars(Start) /\ WF_vars(BootReport) /\ WF_vars(Inhibit) /\ WF_vars(Subscribe)
    /\ WF_vars(OnSignal) /\ WF_vars(PollFile) /\ WF_vars(PollSend) /\ WF_vars(Ship) /\ WF_vars(Proceed)

-----------------------------------------------------------------------------
(* Properties.                                                             *)

\* Since the shutdown was asked for, or so short a time before that a notice was
\* not due again.
InTime(at) ==
    LET asked == deadline - InhibitMax
    IN  at # None /\ (at >= asked \/ at + ReNotify > asked)

\* A notice was handed to the transport.
Announced == InTime(sent)

\* The tracker has given the notice out and will not give it again, but it is not
\* with the transport: a full lane has discarded it (bus.rs), or the other task
\* still has it in its hands.
Lost == InTime(dropped) \/ carrying

Stops == host = "stopping" /\ host' = "off"

\* A host stops before logind's deadline, with a loop that was listening when
\* the shutdown was asked for, only after a notice has entered the lane, a
\* cancelled shutdown's included.  Two ways to lose it are left, and no third: a
\* full lane, and a lock released while scheduled_file_poll is between observe and
\* send, so that the loop's own observe was suppressed.  A payload that cannot be
\* read makes logind wait for its deadline.
HeardMeansAnnounced == [][Stops /\ owed /\ ~TimedOut => Announced \/ Lost]_vars

\* However often the agent is restarted or killed in a boot, it reports the boot at
\* most once, and once more for each start that could not store the boot_id (boot.rs
\* ignores a failed write: on a full or read-only disk every start reports).  The
\* boot in which the agent first ran is reported only after such a failure; a
\* power loss that leaves the file empty or old makes no report wrong.
ReportedOncePerBoot ==
    \A b \in 1 .. MaxBoots :
        /\ reports[b] <= 1 + failed[b]
        /\ reports[b] > 0 => failed[b] > 0 \/ \E i \in DOMAIN starts : starts[i] < b

\* The inductive invariant.  What the file holds, or may hold after a power loss, was
\* written by some start; an empty file found in the boot of its writer is a failed
\* write; each report of this boot, the one to come included, is paid for by a failed
\* write or by the id that is in the file now.
Written(c) == c # None => \E i \in 1 .. Len(starts) : c \in {Torn, starts[i]}

Excused == failed[boot] > 0 \/ \E i \in 1 .. Len(starts) : starts[i] < boot

BootsRecorded ==
    /\ host = "off" => ~agent
    /\ \A i \in 1 .. Len(starts) : starts[i] <= boot
    /\ \A b \in 1 .. MaxBoots : b > boot => reports[b] = 0
    /\ \A c \in disk \cup {last_boot} : Written(c)
    /\ host # "off" =>
        /\ last_boot = Torn \/ pending => Excused
        /\ reports[boot] + (IF pending THEN 1 ELSE 0)
               <= failed[boot] + (IF last_boot = boot THEN 1 ELSE 0)

\* Whatever the tracker holds as told has entered the lane since, or has been
\* discarded since, or is in the hands of scheduled_file_poll; a loop that was
\* listening when the shutdown was asked for still listens, or has told.
Whereabouts(at) ==
    at # None => /\ at <= now
                 /\ \/ carrying
                    \/ sent # None /\ at <= sent
                    \/ dropped # None /\ at <= dropped

NoticeOwed ==
    /\ \A m \in Metrics : Whereabouts(told[m])
    /\ host = "stopping" =>
        /\ deadline - InhibitMax <= now
        /\ owed => Announced \/ Lost \/ loop = "listening"

IInv == TypeOK /\ BootsRecorded /\ NoticeOwed /\ ReportedOncePerBoot

\* Module header of lifecycle.rs: with the lock held, the signal makes the agent
\* push an alert before the host stops.
HeldMeansAnnounced == [][Stops /\ held => Announced \/ Lost]_vars
=============================================================================
