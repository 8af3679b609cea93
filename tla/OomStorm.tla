------------------------------ MODULE OomStorm ------------------------------
(***************************************************************************)
(* agent/src/kmsg.rs, the /dev/kmsg tailer and its broadcast channel, and  *)
(* oom_loop of agent/src/modules/mempressure.rs, one of its consumers: an  *)
(* oom_kill alert per killed command and an oom_storm alert for many kills *)
(* in a rolling window.                                                    *)
(*                                                                         *)
(* A record is abstracted to the kernel's sequence number and the killed   *)
(* command, None for any other line.  The tracker is reduced to the time   *)
(* it last notified a fingerprint; nothing resolves these two metrics.     *)
(***************************************************************************)
EXTENDS SlidingWindow

CONSTANTS
    Comms,          \* command names of the processes killed
    None,
    StormWindow,    \* cfg.oom_storm_window_s
    StormCount,     \* cfg.oom_storm_count
    ReNotify,       \* dedup.re_notify_after_s
    RingSize,       \* records the kernel keeps
    Buffer,         \* capacity of the broadcast channel
    MaxTime,        \* bound: the clock stops here
    MaxLines        \* bound: records logged by the kernel

ASSUME OomAssumption ==
    /\ None \notin Comms /\ "storm" \notin Comms
    /\ StormWindow \in Nat /\ StormCount \in Nat \ {0} /\ ReNotify \in Nat
    /\ RingSize \in Nat \ {0} /\ Buffer \in Nat \ {0}
    /\ MaxTime \in Nat /\ MaxLines \in Nat

Line == [seq : Nat, comm : Comms \cup {None}]
Storm == "storm"                       \* fingerprint of oom_storm
Fps == Comms \cup {Storm}              \* oom_kill is keyed by the command name

VARIABLES
    now,       \* the clock
    ring,      \* records in the kernel not yet read by the tailer
    overrun,   \* the kernel overwrote records the tailer had not read
    chan,      \* lines broadcast and not yet received by oom_loop
    lagged,    \* lines overwritten in the channel since the last receive
    storm,     \* the deque of oom_loop
    notified,  \* time of the last notification of a fingerprint, None before
    sent,      \* alerts of this step
    lines,     \* observer: lines the kernel has logged
    kills,     \* observer: the numbers of the records that tell of a kill
    handled,   \* observer: every kill handled, with the time it was handled
    received,  \* observer: lines received by oom_loop
    broadcast, \* observer: lines broadcast by the tailer
    warned     \* observer: lines named in Lagged warnings

kernel == <<ring, overrun, lines, kills>>
consumer == <<storm, notified, sent, handled, received, warned>>
vars == <<now, chan, lagged, broadcast, kernel, consumer>>

TypeOK ==
    /\ now \in 0 .. MaxTime
    /\ ring \in Seq(Line) /\ Len(ring) =< RingSize
    /\ chan \in Seq(Line) /\ Len(chan) =< Buffer
    /\ overrun \in BOOLEAN /\ lagged \in 0 .. MaxLines
    /\ storm \in Seq(0 .. MaxTime)
    /\ notified \in [Fps -> 0 .. MaxTime \cup {None}]
    /\ sent \subseteq Fps
    /\ lines \in 0 .. MaxLines /\ broadcast \in 0 .. MaxLines
    /\ received \in 0 .. MaxLines /\ warned \in 0 .. MaxLines
    /\ kills \subseteq 1 .. lines
    /\ handled \in Seq([line : Line, seen : 0 .. MaxTime])

\* The tailer seeks to the end: nothing logged before it started is read.
Init ==
    /\ now = 0
    /\ ring = <<>> /\ overrun = FALSE /\ lines = 0 /\ kills = {}
    /\ chan = <<>> /\ lagged = 0 /\ broadcast = 0
    /\ storm = <<>> /\ notified = [f \in Fps |-> None] /\ sent = {}
    /\ handled = <<>> /\ received = 0 /\ warned = 0

Tick ==
    /\ now < MaxTime /\ now' = now + 1 /\ sent' = {}
    /\ UNCHANGED <<chan, lagged, broadcast, kernel, storm, notified, handled, received, warned>>

\* The kernel logs a record and overwrites the oldest of a full ring.
KernelLogs(c) ==
    LET line == [seq |-> lines + 1, comm |-> c] IN
    /\ lines < MaxLines /\ lines' = lines + 1
    /\ ring' = IF Len(ring) < RingSize THEN Append(ring, line) ELSE Append(Tail(ring), line)
    /\ overrun' = (overrun \/ Len(ring) = RingSize)
    /\ kills' = IF c = None THEN kills ELSE kills \cup {line.seq}
    /\ UNCHANGED <<now, chan, lagged, broadcast, consumer>>

-----------------------------------------------------------------------------
(* The tailer.                                                             *)

ResyncStops ==   \* mutant: the tailer gives up on EPIPE
    overrun /\ UNCHANGED vars

\* EPIPE: the position moved past records that are gone; read on.
Resync ==
    /\ overrun /\ overrun' = FALSE
    /\ UNCHANGED <<now, ring, lines, kills, chan, lagged, broadcast, consumer>>

\* A full broadcast channel overwrites its oldest line.
Broadcast(line) ==
    /\ chan' = IF Len(chan) < Buffer THEN Append(chan, line) ELSE Append(Tail(chan), line)
    /\ lagged' = IF Len(chan) < Buffer THEN lagged ELSE lagged + 1

\* One read of the drain loop: one record, which the kernel formats as parse
\* expects it.
ReadRecord ==
    /\ ring # <<>> /\ ~overrun
    /\ Broadcast(Head(ring)) /\ broadcast' = broadcast + 1
    /\ ring' = Tail(ring)
    /\ UNCHANGED <<now, overrun, lines, kills, consumer>>

-----------------------------------------------------------------------------
(* oom_loop.                                                               *)

\* tracker.observe on an entry that is never resolved.
Due(f) == notified[f] = None \/ now - notified[f] >= ReNotify

Notify(F) ==
    /\ sent' = {f \in F : Due(f)}
    /\ notified' = [f \in Fps |-> IF f \in sent' THEN now ELSE notified[f]]

RecvLaggedSkips ==   \* mutant: a lagging receiver starts over at the newest line
    /\ lagged > 0 /\ warned' = warned + lagged /\ lagged' = 0
    /\ sent' = {} /\ chan' = <<>>
    /\ UNCHANGED <<now, broadcast, kernel, storm, notified, handled, received>>

RecvLagged ==
    /\ lagged > 0 /\ warned' = warned + lagged /\ lagged' = 0
    /\ sent' = {}
    /\ UNCHANGED <<now, chan, broadcast, kernel, storm, notified, handled, received>>

Recv == /\ lagged = 0 /\ chan # <<>> /\ chan' = Tail(chan)
        /\ received' = received + 1
        /\ UNCHANGED <<now, lagged, broadcast, kernel, warned>>

RecvOther ==
    /\ Recv /\ Head(chan).comm = None /\ sent' = {}
    /\ UNCHANGED <<storm, notified, handled>>

TrimEmpties(s) ==   \* mutant: the window starts over once its oldest kill has aged out
    IF s # <<>> /\ now - Head(s) > StormWindow THEN SubSeq(s, Len(s), Len(s)) ELSE s

\* Pop from the front what is older than the window.
Trim(s) == Recent(s, now, StormWindow)

IsStorm(s) == Len(s) >= StormCount

RecvKill ==
    LET line == Head(chan)
        recent == Trim(Append(storm, now))
    IN
    /\ Recv /\ line.comm # None
    /\ storm' = recent
    /\ Notify({line.comm} \cup IF IsStorm(recent) THEN {Storm} ELSE {})
    /\ handled' = Append(handled, [line |-> line, seen |-> now])

Next == \/ Tick \/ (\E c \in Comms \cup {None} : KernelLogs(c))
        \/ Resync \/ ReadRecord
        \/ RecvLagged \/ RecvOther \/ RecvKill

Spec == Init /\ [][Next]_vars

\* The tailer and oom_loop are tasks of the runtime; both keep being polled.
Tailer == Resync \/ ReadRecord
Consumer == RecvLagged \/ RecvOther \/ RecvKill
FairSpec == Spec /\ WF_vars(Tailer) /\ WF_vars(Consumer)

-----------------------------------------------------------------------------
(* Properties.                                                             *)

Handles == Len(handled') > Len(handled)

\* oom_storm is observed exactly when StormCount kills were handled within
\* the window, this one included: the trimmed deque loses none that counts.
\* Observed and not yet due, the alert is suppressed.
StormIffDense ==
    Handles =>
        LET last == Len(handled')
            recent == {i \in 1 .. last : now - handled'[i].seen =< StormWindow}
        IN (Storm \in sent') <=> (Cardinality(recent) >= StormCount /\ Due(Storm))

NothingOverwritten ==
    lines = broadcast + Len(ring) /\ lagged = 0 /\ warned = 0

\* The kills in a queue, and the ones handled, by their numbers.
Kills(s) == {s[i].seq : i \in {j \in DOMAIN s : s[j].comm # None}}
HandledKills == {handled[i].line.seq : i \in DOMAIN handled}

\* Every line the tailer broadcast has been received, waits in the channel,
\* or is counted by a Lagged warning given or still to be given: kills are
\* not lost between tailer and oom_loop without a trace in the log.  Kills are
\* handled in the kernel's order and none twice, whatever was overwritten, and
\* while nothing was, the ones handled and still pending make up all of them.
KillsAccounted ==
    /\ broadcast = received + Len(chan) + lagged + warned
    /\ \A i, j \in DOMAIN handled : i < j => handled[i].line.seq < handled[j].line.seq
    /\ HandledKills \subseteq kills
    /\ NothingOverwritten => kills = HandledKills \cup Kills(chan) \cup Kills(ring)

\* A record in the kernel ring is read, and the line handled or counted as
\* lost: the pipeline always drains once the kernel falls silent.
Drained == ring = <<>> /\ chan = <<>> /\ lagged = 0
PipelineDrains == []<>Drained
-----------------------------------------------------------------------------
(* The inductive invariant of StormIffDense.                               *)

\* The kills that were handled within the window that ends at t.
Fresh(t) == {i \in 1 .. Len(handled) : t - handled[i].seen <= StormWindow}

\* Whenever the next kill comes, the deque will hold what it has to count.
StormInv ==
    /\ now \in Nat /\ now <= MaxTime /\ lines \in Nat
    /\ ring \in Seq(Line) /\ chan \in Seq(Line)
    /\ handled \in Seq([line : Line, seen : Nat])
    /\ storm \in Seq(Nat) /\ \A i \in 1 .. Len(storm) : storm[i] <= now
    /\ \A t \in now .. MaxTime : Cardinality(Fresh(t)) = Len(Recent(storm, t, StormWindow))

-----------------------------------------------------------------------------
(* The inductive invariant of KillsAccounted.                              *)

\* The ring holds the last records, the channel earlier ones in their order, and
\* what was handled comes before both.
InKernelOrder ==
    /\ \A i \in DOMAIN ring : ring[i].seq = lines - Len(ring) + i
    /\ \A i \in DOMAIN chan : chan[i].seq <= lines - Len(ring)
    /\ \A i, j \in DOMAIN chan : i < j => chan[i].seq < chan[j].seq
    /\ \A x \in HandledKills : x <= lines - Len(ring)
    /\ \A x \in HandledKills, i \in DOMAIN chan : x < chan[i].seq

KillsInv ==
    /\ ring \in Seq(Line) /\ chan \in Seq(Line)
    /\ handled \in Seq([line : Line, seen : Nat])
    /\ lines \in Nat /\ broadcast \in Nat /\ received \in Nat
    /\ lagged \in Nat /\ warned \in Nat /\ now \in Nat
    /\ broadcast + Len(ring) <= lines /\ Len(ring) <= RingSize
    /\ InKernelOrder
    /\ Kills(chan) \cup Kills(ring) \subseteq kills
    /\ KillsAccounted
=============================================================================
