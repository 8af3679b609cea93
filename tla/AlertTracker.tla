---------------------------- MODULE AlertTracker ----------------------------
(***************************************************************************)
(* agent/src/state.rs: the per-module dedup state machine.  A module owns  *)
(* one AlertTracker, shared by the module's tasks through Arc<Mutex<..>>.  *)
(*                                                                         *)
(* A call samples Instant::now() BEFORE it takes the mutex, so a call is   *)
(* two steps here: Call samples the clock, the operation's own action runs *)
(* the critical section with that (possibly old) sample.  Most             *)
(* fingerprints are driven by one task of their module; a few, such as the *)
(* notices of lifecycle.rs, by two.  Only a poll loop that computes its    *)
(* fingerprint alone calls observe_ok (mempressure.rs psi_loop, nvme.rs).  *)
(***************************************************************************)
EXTENDS Integers

CONSTANTS
    Tasks,         \* the tasks of one module that share the tracker
    Fingerprints,  \* dedup keys: host_id|category|device|metric
    Drivers,       \* Drivers[fp]: the tasks that make calls about fp
    Severities,    \* shared/src/lib.rs Severity
    ReNotify,      \* AlertTracker.re_notify
    Recovery,      \* AlertTracker.recovery
    None,          \* Option::None
    MaxTime,       \* bound: the clock stops here
    MaxDetections  \* bound: observe calls per episode

ASSUME TrackerAssumption ==
    /\ Drivers \in [Fingerprints -> SUBSET Tasks]
    /\ ReNotify \in Nat
    /\ Recovery \in Nat
    /\ None \notin Nat
    /\ None \notin Severities
    /\ MaxTime \in Nat
    /\ MaxDetections \in Nat

VARIABLES
    now,      \* the monotonic clock
    entries,  \* inner: HashMap<fingerprint, Entry>
    call,     \* call[t]: the call task t is in, or None
    told,     \* the last alert handed to the caller for each fingerprint
    count,    \* observer: detections in the current or last episode
    lastBad   \* observer: sample time of the last detection

vars == <<now, entries, call, told, count, lastBad>>

Operations == {"observe", "observe_ok", "force_resolve"}

\* observe takes the alert under construction, the other two a fingerprint.
CallRecord ==
    [op : {"observe"}, fp : Fingerprints, severity : Severities, at : Nat]
      \cup [op : Operations \ {"observe"}, fp : Fingerprints, severity : {None}, at : Nat]

Entry ==
    [last_emitted : Nat,
     last_seen    : Nat,
     occurrences  : Nat,
     severity     : Severities,
     ok_since     : Nat \cup {None}]

\* The alert a call hands back; build_firing / build_resolved stamp it.
Alert ==
    [state : {"silent", "firing", "resolved"},
     at : Nat, occurrences : Nat, severity : Severities \cup {None}]

TypeOK ==
    /\ now \in Nat
    /\ DOMAIN entries \subseteq Fingerprints
    /\ entries \in [DOMAIN entries -> Entry]
    /\ call \in [Tasks -> CallRecord \cup {None}]
    /\ told \in [Fingerprints -> Alert]
    /\ count \in [Fingerprints -> Nat]
    /\ lastBad \in [Fingerprints -> Nat]

-----------------------------------------------------------------------------
(* HashMap insert and remove.                                              *)

Put(fp, e) ==
    [g \in DOMAIN entries \cup {fp} |-> IF g = fp THEN e ELSE entries[g]]

Drop(fp) == [g \in DOMAIN entries \ {fp} |-> entries[g]]

\* Instant::duration_since, which saturates at zero.
Since(t, t0) == IF t >= t0 THEN t - t0 ELSE 0

-----------------------------------------------------------------------------
Init ==
    /\ now = 0
    /\ entries = [fp \in {} |-> None]
    /\ call = [t \in Tasks |-> None]
    /\ told = [fp \in Fingerprints |->
                 [state |-> "silent", at |-> 0, occurrences |-> 0, severity |-> None]]
    /\ count = [fp \in Fingerprints |-> 0]
    /\ lastBad = [fp \in Fingerprints |-> 0]

Tick ==
    /\ now < MaxTime
    /\ now' = now + 1
    /\ UNCHANGED <<entries, call, told, count, lastBad>>

\* Task t enters the tracker: the clock is read, the mutex not yet held.
Call(t, op, fp, sev) ==
    /\ call[t] = None
    /\ t \in Drivers[fp]
    /\ op = "observe_ok" => Drivers[fp] = {t}
    /\ op = "observe" <=> sev # None
    /\ op = "observe" => fp \notin DOMAIN entries \/ count[fp] < MaxDetections
    /\ call' = [call EXCEPT ![t] = [op |-> op, fp |-> fp, severity |-> sev, at |-> now]]
    /\ UNCHANGED <<now, entries, told, count, lastBad>>

\* build_firing: the alert carries the severity of THIS detection.
Firing(c, occ) ==
    [state |-> "firing", at |-> c.at, occurrences |-> occ, severity |-> c.severity]

\* build_resolved: the alert carries the severity of the episode's FIRST detection.
Resolved(c, e) ==
    [state |-> "resolved", at |-> c.at, occurrences |-> e.occurrences,
     severity |-> e.severity]

SeenSentinel(c, e) ==       \* mutant: "no window" written as -1
    [e EXCEPT !.last_seen = c.at, !.occurrences = @ + 1, !.ok_since = -1]

SeenKeepsOkSince(c, e) ==   \* mutant: a relapse does not restart the window
    [e EXCEPT !.last_seen = c.at, !.occurrences = @ + 1]

SeenSkipsCount(c, e) ==     \* mutant: a suppressed detection is not counted
    [e EXCEPT !.last_seen = c.at, !.ok_since = None]

\* What a detection does to the fingerprint's entry, before the emit decision.
Seen(c, e) ==
    [last_emitted |-> e.last_emitted, last_seen |-> c.at,
     occurrences |-> e.occurrences + 1, severity |-> e.severity, ok_since |-> None]

DueAfter(c, e) ==           \* mutant: > for >=
    Since(c.at, e.last_emitted) > ReNotify

DueAgain(c, e) == Since(c.at, e.last_emitted) >= ReNotify

\* observe, no entry yet: insert and emit.
ObserveNew(t) ==
    /\ call[t] # None /\ call[t].op = "observe"
    /\ call[t].fp \notin DOMAIN entries
    /\ LET c == call[t]
       IN  /\ entries' = Put(c.fp, [last_emitted |-> c.at, last_seen |-> c.at,
                                    occurrences |-> 1, severity |-> c.severity,
                                    ok_since |-> None])
           /\ told' = [told EXCEPT ![c.fp] = Firing(c, 1)]
           /\ count' = [count EXCEPT ![c.fp] = 1]
           /\ lastBad' = [lastBad EXCEPT ![c.fp] = c.at]
    /\ call' = [call EXCEPT ![t] = None]
    /\ UNCHANGED now

\* observe, known fingerprint: re-emit when due, otherwise suppress.
ObserveAgain(t) ==
    /\ call[t] # None /\ call[t].op = "observe"
    /\ call[t].fp \in DOMAIN entries
    /\ LET c == call[t]
           e == Seen(c, entries[c.fp])
       IN  /\ \/ /\ DueAgain(c, entries[c.fp])
                 /\ entries' = Put(c.fp, [e EXCEPT !.last_emitted = c.at])
                 /\ told' = [told EXCEPT ![c.fp] = Firing(c, e.occurrences)]
              \/ /\ ~DueAgain(c, entries[c.fp])
                 /\ entries' = Put(c.fp, e)
                 /\ UNCHANGED told
           /\ count' = [count EXCEPT ![c.fp] = @ + 1]
           /\ lastBad' = [lastBad EXCEPT ![c.fp] = c.at]
    /\ call' = [call EXCEPT ![t] = None]
    /\ UNCHANGED now

\* observe_ok: nothing tracked, start the recovery window, wait, or resolve.
ObserveOk(t) ==
    /\ call[t] # None /\ call[t].op = "observe_ok"
    /\ LET c == call[t]
       IN  \/ /\ c.fp \notin DOMAIN entries
              /\ UNCHANGED <<entries, told>>
           \/ /\ c.fp \in DOMAIN entries
              /\ entries[c.fp].ok_since = None
              /\ entries' = Put(c.fp, [entries[c.fp] EXCEPT !.ok_since = c.at])
              /\ UNCHANGED told
           \/ /\ c.fp \in DOMAIN entries
              /\ entries[c.fp].ok_since # None
              /\ Since(c.at, entries[c.fp].ok_since) < Recovery
              /\ UNCHANGED <<entries, told>>
           \/ /\ c.fp \in DOMAIN entries
              /\ entries[c.fp].ok_since # None
              /\ Since(c.at, entries[c.fp].ok_since) >= Recovery
              /\ entries' = Drop(c.fp)
              /\ told' = [told EXCEPT ![c.fp] = Resolved(c, entries[c.fp])]
    /\ call' = [call EXCEPT ![t] = None]
    /\ UNCHANGED <<now, count, lastBad>>

ForceResolveUntracked(t) ==  \* mutant: resolves what was never announced
    /\ call[t] # None /\ call[t].op = "force_resolve"
    /\ LET c == call[t]
       IN  /\ entries' = Drop(c.fp)
           /\ told' = [told EXCEPT ![c.fp] = [state |-> "resolved", at |-> c.at,
                                              occurrences |-> count[c.fp],
                                              severity |-> c.severity]]
    /\ call' = [call EXCEPT ![t] = None]
    /\ UNCHANGED <<now, count, lastBad>>

\* force_resolve: the resource is gone, or the link is up again.
ForceResolve(t) ==
    /\ call[t] # None /\ call[t].op = "force_resolve"
    /\ LET c == call[t]
       IN  \/ /\ c.fp \notin DOMAIN entries
              /\ UNCHANGED <<entries, told>>
           \/ /\ c.fp \in DOMAIN entries
              /\ entries' = Drop(c.fp)
              /\ told' = [told EXCEPT ![c.fp] = Resolved(c, entries[c.fp])]
    /\ call' = [call EXCEPT ![t] = None]
    /\ UNCHANGED <<now, count, lastBad>>

Next ==
    \/ Tick
    \/ \E t \in Tasks :
        \/ \E op \in Operations, fp \in Fingerprints, sev \in Severities \cup {None} :
             Call(t, op, fp, sev)
        \/ ObserveNew(t)
        \/ ObserveAgain(t)
        \/ ObserveOk(t)
        \/ ForceResolve(t)

Spec == Init /\ [][Next]_vars

-----------------------------------------------------------------------------
(* Properties.                                                             *)

\* A condition that is still being detected is never silent for ReNotify or
\* longer: at the last detection of an open episode, the last firing alert is
\* that detection's own or younger than ReNotify, also when two tasks detect it
\* and the tracker takes their detections in another order than they were made
\* (state.rs observe).
NeverSilentTooLong ==
    \A fp \in Fingerprints :
        told[fp].state = "firing" =>
            \/ lastBad[fp] = told[fp].at
            \/ lastBad[fp] - told[fp].at < ReNotify

\* A resolved alert reports every detection of the episode it closes, the
\* suppressed ones included (state.rs observe, build_resolved).
ResolvedCountsEveryDetection ==
    \A fp \in Fingerprints :
        told[fp].state = "resolved" => told[fp].occurrences = count[fp]

\* An alert is resolved through observe_ok only when no detection has been
\* made for the whole recovery window, although the window's start is sampled
\* outside the mutex; only force_resolve may cut it short.
RecoveryWindowHonoured ==
    [][\A t \in Tasks, fp \in Fingerprints :
         /\ call[t] # None /\ call'[t] = None
         /\ call[t].op = "observe_ok"
         /\ told[fp].state = "firing"
         /\ told'[fp].state = "resolved"
         => told'[fp].at - lastBad[fp] >= Recovery]_vars

\* The tracker implements the lifecycle its consumers rely on.
Lifecycle == INSTANCE AlertLifecycle
    WITH Times <- 0 .. MaxTime,
         told <- [fp \in Fingerprints |->
                    [state |-> told[fp].state, at |-> told[fp].at]]

\* Every behaviour of the tracker is a stream of alternating episodes whose
\* firing alerts are ReNotify apart and which one resolved alert closes.
LifecycleRefined == Lifecycle!LifecycleSpec

-----------------------------------------------------------------------------
(* The inductive invariant behind the theorems of AlertTrackerProofs.      *)

\* An entry exists exactly for the open episodes, and agrees with the alerts
\* that were handed out and with the detections that were made.
EntriesMatchEpisodes ==
    \A fp \in Fingerprints :
        /\ fp \in DOMAIN entries <=> told[fp].state = "firing"
        /\ fp \in DOMAIN entries =>
             /\ entries[fp].last_emitted = told[fp].at
             /\ entries[fp].last_seen = lastBad[fp]
             /\ entries[fp].occurrences = count[fp]
             /\ entries[fp].ok_since # None =>
                    entries[fp].ok_since >= entries[fp].last_seen

\* A call in progress sampled the clock after every stamp its task alone has
\* left; only the task that alone drives a fingerprint asks for its recovery.
CallsAreRecent ==
    \A t \in Tasks : call[t] # None =>
        /\ t \in Drivers[call[t].fp]
        /\ call[t].op = "observe_ok" => Drivers[call[t].fp] = {t}
        /\ call[t].at <= now
        /\ \A fp \in DOMAIN entries : Drivers[fp] = {t} =>
             /\ entries[fp].last_seen <= call[t].at
             /\ entries[fp].ok_since # None => entries[fp].ok_since <= call[t].at

\* No stamp lies in the future.
StampsArePast ==
    /\ now <= MaxTime
    /\ \A fp \in DOMAIN entries :
         /\ entries[fp].last_seen <= now
         /\ entries[fp].ok_since # None => entries[fp].ok_since <= now

IInv ==
    /\ TypeOK
    /\ EntriesMatchEpisodes
    /\ CallsAreRecent
    /\ StampsArePast
    /\ NeverSilentTooLong
    /\ ResolvedCountsEveryDetection
=============================================================================
