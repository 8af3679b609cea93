------------------------- MODULE AlertTrackerProofs -------------------------
(***************************************************************************)
(* Theorems about agent/src/state.rs for every set of tasks and            *)
(* fingerprints, every re-notify and recovery window and every bound.      *)
(* Then, on the same inductive invariant, theorems about the poll loops of *)
(* MCPollers that call it: PsiMonitor, NvmeMonitor, ThermalMonitor and     *)
(* HealthPollers; and about BmcEventlog, which keeps its own state.        *)
(***************************************************************************)
EXTENDS MCPollers, SequenceTheorems, WellFoundedInduction, TLAPS

(***************************************************************************)
(* What a repeated detection leaves in an entry.                           *)
(***************************************************************************)
LEMMA SeenFacts ==
    ASSUME NEW c, c.at \in Nat, NEW e \in Entry
    PROVE  /\ Seen(c, e) \in Entry
           /\ Seen(c, e).occurrences = e.occurrences + 1
           /\ Seen(c, e).last_seen = c.at
           /\ Seen(c, e).ok_since = None
           /\ Seen(c, e).last_emitted = e.last_emitted
  BY DEF Seen, Entry

(***************************************************************************)
(* A call in progress is a well-typed record.                              *)
(***************************************************************************)
LEMMA CallType ==
    ASSUME TypeOK, NEW t \in Tasks, call[t] # None
    PROVE  /\ call[t] \in CallRecord
           /\ call[t].fp \in Fingerprints
           /\ call[t].at \in Nat
           /\ call[t].op \in Operations
           /\ call[t].op = "observe" => call[t].severity \in Severities
  BY DEF TypeOK, CallRecord, Operations

\* An AlertTracker::new has no entry: the inductive invariant holds.
LEMMA InitIInv == Init => IInv
  BY TrackerAssumption
     DEF Init, IInv, TypeOK, EntriesMatchEpisodes, CallsAreRecent,
         StampsArePast, NeverSilentTooLong, ResolvedCountsEveryDetection, Alert

-----------------------------------------------------------------------------
(***************************************************************************)
(* A call that finds nothing to do just returns.                           *)
(***************************************************************************)
LEMMA ReturnIInv ==
    ASSUME IInv, NEW t \in Tasks,
           call' = [call EXCEPT ![t] = None],
           UNCHANGED <<now, entries, told, count, lastBad>>
    PROVE  IInv'
  BY DEF IInv, TypeOK, EntriesMatchEpisodes, CallsAreRecent, StampsArePast,
         NeverSilentTooLong, ResolvedCountsEveryDetection, CallRecord

(***************************************************************************)
(* Removing an entry and handing out its resolved alert closes the episode *)
(* (the tail of observe_ok and force_resolve).                             *)
(***************************************************************************)
LEMMA CloseIInv ==
    ASSUME IInv, NEW t \in Tasks, call[t] # None,
           call[t].fp \in DOMAIN entries,
           entries' = Drop(call[t].fp),
           told' = [told EXCEPT ![call[t].fp] = Resolved(call[t], entries[call[t].fp])],
           call' = [call EXCEPT ![t] = None],
           UNCHANGED <<now, count, lastBad>>
    PROVE  IInv'
  <1> DEFINE c == call[t]
  <1>1. /\ c.fp \in Fingerprints /\ c.at \in Nat /\ entries[c.fp] \in Entry
        /\ t \in Drivers[c.fp] /\ c.at <= now
    BY CallType DEF IInv, TypeOK, CallsAreRecent
  <1>2. /\ DOMAIN entries' = DOMAIN entries \ {c.fp}
        /\ \A g \in DOMAIN entries' : entries'[g] = entries[g]
        /\ entries' = [g \in DOMAIN entries' |-> entries'[g]]
    BY DEF Drop
  <1>3. Resolved(c, entries[c.fp]) \in Alert
    BY <1>1 DEF Resolved, Alert, Entry
  <1>4. /\ Resolved(c, entries[c.fp]).state = "resolved"
        /\ Resolved(c, entries[c.fp]).occurrences = entries[c.fp].occurrences
    BY DEF Resolved
  <1> HIDE DEF c
  <1>5. told' = [told EXCEPT ![c.fp] = Resolved(c, entries[c.fp])]
    BY DEF c
  <1>6. TypeOK'
    BY <1>1, <1>2, <1>3, <1>5 DEF IInv, TypeOK
  <1>7. EntriesMatchEpisodes'
    BY <1>1, <1>2, <1>4, <1>5 DEF IInv, TypeOK, EntriesMatchEpisodes
  <1>8. CallsAreRecent' /\ StampsArePast'
    BY <1>2 DEF IInv, TypeOK, CallsAreRecent, StampsArePast, CallRecord
  <1>9. NeverSilentTooLong'
    BY <1>1, <1>4, <1>5 DEF IInv, TypeOK, NeverSilentTooLong
  <1>10. ResolvedCountsEveryDetection'
    BY <1>1, <1>4, <1>5, c.fp \in DOMAIN entries
       DEF IInv, TypeOK, ResolvedCountsEveryDetection, EntriesMatchEpisodes, c
  <1>11. QED
    BY <1>6, <1>7, <1>8, <1>9, <1>10 DEF IInv

(***************************************************************************)
(* Every call of the tracker preserves the inductive invariant.            *)
(***************************************************************************)
LEMMA NextIInv == IInv /\ [Next]_vars => IInv'
  <1> SUFFICES ASSUME IInv, [Next]_vars PROVE IInv'
    OBVIOUS
  <1> USE TrackerAssumption
  <1>1. CASE Tick
    BY <1>1
       DEF IInv, Tick, TypeOK, EntriesMatchEpisodes, CallsAreRecent, CallRecord,
           Entry, StampsArePast, NeverSilentTooLong, ResolvedCountsEveryDetection
  <1>2. ASSUME NEW t \in Tasks, NEW op \in Operations, NEW fp \in Fingerprints,
               NEW sev \in Severities \cup {None}, Call(t, op, fp, sev)
        PROVE  IInv'
    <2>1. TypeOK'
      BY <1>2 DEF IInv, Call, TypeOK, CallRecord, Operations
    <2>2. CallsAreRecent'
      <3> DEFINE r == [op |-> op, fp |-> fp, severity |-> sev, at |-> now]
      <3>1. /\ call'[t] = r /\ \A u \in Tasks : u # t => call'[u] = call[u]
            /\ UNCHANGED <<now, entries>>
        BY <1>2 DEF IInv, Call, TypeOK
      <3>2. r.op = op /\ r.fp = fp /\ r.at = now
        OBVIOUS
      <3>3. t \in Drivers[fp] /\ (op = "observe_ok" => Drivers[fp] = {t})
        BY <1>2 DEF Call
      <3>4. /\ now \in Nat /\ now =< now
            /\ \A g \in DOMAIN entries :
                 /\ entries[g].last_seen =< now
                 /\ entries[g].ok_since # None => entries[g].ok_since =< now
        BY DEF IInv, TypeOK, StampsArePast
      <3> HIDE DEF r
      <3> QED
        BY <3>1, <3>2, <3>3, <3>4 DEF IInv, CallsAreRecent
    <2>3. QED
      BY <1>2, <2>1, <2>2
         DEF IInv, Call, EntriesMatchEpisodes, StampsArePast, NeverSilentTooLong,
             ResolvedCountsEveryDetection
  <1>3. ASSUME NEW t \in Tasks, ObserveNew(t) PROVE IInv'
    <2> DEFINE c == call[t]
               e == [last_emitted |-> c.at, last_seen |-> c.at, occurrences |-> 1,
                     severity |-> c.severity, ok_since |-> None]
    <2>1. /\ c \in CallRecord /\ c.fp \in Fingerprints /\ c.at \in Nat
          /\ c.severity \in Severities
          /\ t \in Drivers[c.fp] /\ c.at <= now
      BY <1>3, CallType DEF IInv, ObserveNew, CallsAreRecent
    <2>3. /\ entries' = Put(c.fp, e)
          /\ c.fp \notin DOMAIN entries
      BY <1>3 DEF ObserveNew
    <2>4. /\ e \in Entry
          /\ e.last_emitted = c.at /\ e.last_seen = c.at /\ e.occurrences = 1
          /\ e.ok_since = None
      BY <2>1 DEF Entry
    <2> HIDE DEF c, e
    <2>2. /\ DOMAIN entries' = DOMAIN entries \cup {c.fp}
          /\ entries'[c.fp] = e
          /\ \A g \in DOMAIN entries : entries'[g] = entries[g]
          /\ entries' = [g \in DOMAIN entries' |-> entries'[g]]
      BY <2>3 DEF Put
    <2> USE DEF c
    <2>5. TypeOK'
      <3>1. /\ DOMAIN entries' \subseteq Fingerprints
            /\ entries' \in [DOMAIN entries' -> Entry]
        BY <2>1, <2>2, <2>4 DEF IInv, TypeOK
      <3>2. Firing(c, 1) \in Alert
        BY <2>1 DEF Firing, Alert
      <3>3. QED
        BY <1>3, <2>1, <3>1, <3>2 DEF IInv, TypeOK, ObserveNew
    <2>6. EntriesMatchEpisodes'
      BY <1>3, <2>1, <2>2, <2>4
         DEF IInv, TypeOK, EntriesMatchEpisodes, ObserveNew, Firing, Alert
    <2>7. CallsAreRecent'
      BY <1>3, <2>1, <2>2, <2>4 DEF IInv, TypeOK, CallsAreRecent, ObserveNew, CallRecord
    <2>8. StampsArePast'
      BY <1>3, <2>1, <2>2, <2>4 DEF IInv, TypeOK, StampsArePast, ObserveNew
    <2>9. NeverSilentTooLong' /\ ResolvedCountsEveryDetection'
      BY <1>3, <2>1
         DEF IInv, TypeOK, NeverSilentTooLong, ResolvedCountsEveryDetection,
             ObserveNew, Firing, Alert
    <2>10. QED
      BY <2>5, <2>6, <2>7, <2>8, <2>9 DEF IInv
  <1>4. ASSUME NEW t \in Tasks, ObserveAgain(t) PROVE IInv'
    <2> DEFINE c == call[t]
               s == Seen(c, entries[c.fp])
    <2>1. /\ c \in CallRecord /\ c.fp \in Fingerprints /\ c.at \in Nat
          /\ c.severity \in Severities
          /\ t \in Drivers[c.fp] /\ c.at <= now
          /\ c.fp \in DOMAIN entries /\ entries[c.fp] \in Entry
      BY <1>4, CallType
         DEF IInv, TypeOK, ObserveAgain, CallsAreRecent, EntriesMatchEpisodes, Entry
    <2>2. PICK e \in {s, [s EXCEPT !.last_emitted = c.at]} :
             /\ entries' = Put(c.fp, e)
             /\ \/ /\ e = [s EXCEPT !.last_emitted = c.at]
                   /\ told' = [told EXCEPT ![c.fp] = Firing(c, s.occurrences)]
                \/ /\ e = s
                   /\ ~DueAgain(c, entries[c.fp])
                   /\ told' = told
      BY <1>4 DEF ObserveAgain
    <2>3. /\ s \in Entry
          /\ s.last_emitted = entries[c.fp].last_emitted
          /\ s.occurrences = entries[c.fp].occurrences + 1
          /\ s.last_seen = c.at /\ s.ok_since = None
      BY <2>1, SeenFacts
    <2>4. /\ e \in Entry
          /\ e.occurrences = s.occurrences
          /\ e.last_seen = c.at /\ e.ok_since = None
          /\ e = [s EXCEPT !.last_emitted = c.at] => e.last_emitted = c.at
      <3> HIDE DEF s, c
      <3>1. QED
        BY <2>1, <2>2, <2>3 DEF Entry
    <2>5. /\ count' = [count EXCEPT ![c.fp] = @ + 1]
          /\ lastBad' = [lastBad EXCEPT ![c.fp] = c.at]
          /\ call' = [call EXCEPT ![t] = None]
          /\ now' = now
      BY <1>4 DEF ObserveAgain
    <2> HIDE DEF c, s
    <2>6. /\ DOMAIN entries' = DOMAIN entries
          /\ entries'[c.fp] = e
          /\ \A g \in DOMAIN entries : g # c.fp => entries'[g] = entries[g]
          /\ entries' = [g \in DOMAIN entries' |-> entries'[g]]
      BY <2>1, <2>2 DEF Put
    <2>7. TypeOK'
      <3>1. /\ DOMAIN entries' \subseteq Fingerprints
            /\ entries' \in [DOMAIN entries' -> Entry]
        BY <2>1, <2>3, <2>4, <2>6 DEF IInv, TypeOK
      <3>2. Firing(c, s.occurrences) \in Alert
        BY <2>1, <2>3, <2>4 DEF Firing, Alert, Entry
      <3>3. QED
        BY <2>1, <2>2, <2>5, <3>1, <3>2 DEF IInv, TypeOK
    <2>8. EntriesMatchEpisodes'
      BY <2>1, <2>2, <2>3, <2>4, <2>5, <2>6
         DEF IInv, TypeOK, EntriesMatchEpisodes, Firing, Alert, Entry
    <2>9. CallsAreRecent'
      BY <2>1, <2>3, <2>4, <2>5, <2>6 DEF IInv, TypeOK, CallsAreRecent, CallRecord
    <2>10. StampsArePast'
      BY <2>1, <2>3, <2>4, <2>5, <2>6 DEF IInv, TypeOK, StampsArePast
    <2>11. NeverSilentTooLong'
      <3>1. ~DueAgain(c, entries[c.fp]) => c.at - told[c.fp].at < ReNotify
        BY <2>1 DEF IInv, EntriesMatchEpisodes, DueAgain, Since, Entry
      <3>2. QED
        BY <2>1, <2>2, <2>5, <3>1 DEF IInv, TypeOK, NeverSilentTooLong, Firing, Alert
    <2>12. ResolvedCountsEveryDetection'
      BY <2>1, <2>2, <2>5
         DEF IInv, TypeOK, EntriesMatchEpisodes, ResolvedCountsEveryDetection, Firing, Alert
    <2>13. QED
      BY <2>7, <2>8, <2>9, <2>10, <2>11, <2>12 DEF IInv
  <1>5. ASSUME NEW t \in Tasks, ObserveOk(t) PROVE IInv'
    <2> DEFINE c == call[t]
               e == [entries[c.fp] EXCEPT !.ok_since = c.at]
    <2>1. CASE UNCHANGED <<entries, told>>
      BY <1>5, <2>1, ReturnIInv DEF ObserveOk
    <2>2. CASE /\ c.fp \in DOMAIN entries
               /\ entries' = Put(c.fp, e)
               /\ UNCHANGED told
      <3>1. /\ c.fp \in Fingerprints /\ c.at \in Nat /\ entries[c.fp] \in Entry
            /\ Drivers[c.fp] = {t} /\ c.at <= now /\ entries[c.fp].last_seen <= c.at
        BY <1>5, <2>2, CallType DEF IInv, TypeOK, CallsAreRecent, ObserveOk
      <3>2. /\ e \in Entry /\ e.ok_since = c.at
            /\ e.last_emitted = entries[c.fp].last_emitted
            /\ e.last_seen = entries[c.fp].last_seen
            /\ e.occurrences = entries[c.fp].occurrences
        BY <3>1 DEF Entry
      <3>3. call' = [call EXCEPT ![t] = None] /\ UNCHANGED <<now, told, count, lastBad>>
        BY <1>5, <2>2 DEF ObserveOk
      <3> HIDE DEF c, e
      <3>4. /\ DOMAIN entries' = DOMAIN entries
            /\ entries'[c.fp] = e
            /\ \A g \in DOMAIN entries : g # c.fp => entries'[g] = entries[g]
            /\ entries' = [g \in DOMAIN entries' |-> entries'[g]]
        BY <2>2 DEF Put
      <3>5. TypeOK'
        BY <3>1, <3>2, <3>3, <3>4 DEF IInv, TypeOK
      <3>6. EntriesMatchEpisodes'
        BY <3>1, <3>2, <3>3, <3>4 DEF IInv, TypeOK, EntriesMatchEpisodes
      <3>7. CallsAreRecent'
        <4> SUFFICES ASSUME NEW u \in Tasks, call'[u] # None
                     PROVE  /\ u \in Drivers[call[u].fp]
                            /\ call[u].op = "observe_ok" => Drivers[call[u].fp] = {u}
                            /\ call[u].at =< now
                            /\ \A g \in DOMAIN entries' : Drivers[g] = {u} =>
                                 /\ entries'[g].last_seen =< call[u].at
                                 /\ entries'[g].ok_since # None => entries'[g].ok_since =< call[u].at
          <5>1. \A u \in Tasks : call'[u] # None => call'[u] = call[u]
            BY <3>3 DEF IInv, TypeOK
          <5> QED
            BY <3>3, <5>1 DEF CallsAreRecent
        <4>1. u # t /\ call[u] # None
          BY <3>3 DEF IInv, TypeOK
        <4>2. /\ u \in Drivers[call[u].fp] /\ call[u].at =< now
              /\ call[u].op = "observe_ok" => Drivers[call[u].fp] = {u}
              /\ \A g \in DOMAIN entries : Drivers[g] = {u} =>
                   /\ entries[g].last_seen =< call[u].at
                   /\ entries[g].ok_since # None => entries[g].ok_since =< call[u].at
          BY <4>1 DEF IInv, CallsAreRecent
        <4>3. Drivers[c.fp] # {u}
          BY <1>5, <4>1 DEF IInv, CallsAreRecent, ObserveOk, c
        <4> QED
          BY <3>4, <4>2, <4>3
      <3>8. StampsArePast'
        BY <3>1, <3>2, <3>3, <3>4 DEF IInv, TypeOK, StampsArePast
      <3>9. NeverSilentTooLong' /\ ResolvedCountsEveryDetection'
        BY <3>3 DEF IInv, NeverSilentTooLong, ResolvedCountsEveryDetection
      <3>10. QED
        BY <3>5, <3>6, <3>7, <3>8, <3>9 DEF IInv
    <2>3. CASE /\ c.fp \in DOMAIN entries
               /\ entries' = Drop(c.fp)
               /\ told' = [told EXCEPT ![c.fp] = Resolved(c, entries[c.fp])]
      BY <1>5, <2>3, CloseIInv DEF ObserveOk
    <2>4. QED
      BY <1>5, <2>1, <2>2, <2>3 DEF ObserveOk
  <1>6. ASSUME NEW t \in Tasks, ForceResolve(t) PROVE IInv'
    <2>1. CASE call[t].fp \notin DOMAIN entries
      BY <1>6, <2>1, ReturnIInv DEF ForceResolve
    <2>2. CASE call[t].fp \in DOMAIN entries
      BY <1>6, <2>2, CloseIInv DEF ForceResolve
    <2>3. QED
      BY <2>1, <2>2
  <1>7. CASE UNCHANGED vars
    BY <1>7
       DEF IInv, vars, TypeOK, EntriesMatchEpisodes, CallsAreRecent,
           StampsArePast, NeverSilentTooLong, ResolvedCountsEveryDetection
  <1>8. QED
    BY <1>1, <1>2, <1>3, <1>4, <1>5, <1>6, <1>7 DEF Next

-----------------------------------------------------------------------------
\* The inductive invariant holds in every reachable state of the tracker.
LEMMA Invariance == Spec => []IInv
  BY InitIInv, NextIInv, PTL DEF Spec

(***************************************************************************)
(* Every reachable state of the tracker is well typed.                     *)
(***************************************************************************)
THEOREM TypeCorrect == Spec => []TypeOK
  BY Invariance, PTL DEF IInv

(***************************************************************************)
(* A condition that is still detected is never silent for ReNotify or      *)
(* longer, whatever the windows and however calls interleave.              *)
(***************************************************************************)
THEOREM NoLongSilence == Spec => []NeverSilentTooLong
  BY Invariance, PTL DEF IInv

(***************************************************************************)
(* The occurrence count of a resolved alert is the number of detections.   *)
(***************************************************************************)
THEOREM ResolvedCountsExact == Spec => []ResolvedCountsEveryDetection
  BY Invariance, PTL DEF IInv

(***************************************************************************)
(* observe_ok closes an episode only after a full recovery window without  *)
(* a detection, although both ends of the window are clock samples taken   *)
(* outside the mutex.                                                      *)
(***************************************************************************)
THEOREM RecoveryWindow == Spec => RecoveryWindowHonoured
  <1> DEFINE A == \A t \in Tasks, fp \in Fingerprints :
                    /\ call[t] # None /\ call'[t] = None
                    /\ call[t].op = "observe_ok"
                    /\ told[fp].state = "firing"
                    /\ told'[fp].state = "resolved"
                    => told'[fp].at - lastBad[fp] >= Recovery
  <1>1. ASSUME IInv, Next PROVE A
    <2> SUFFICES ASSUME NEW u \in Tasks, NEW fp \in Fingerprints,
                        call[u] # None, call'[u] = None, call[u].op = "observe_ok",
                        told[fp].state = "firing",
                        told'[fp].state = "resolved"
                 PROVE  told'[fp].at - lastBad[fp] >= Recovery
      OBVIOUS
    <2>1. told' # told
      OBVIOUS
    <2>2. ASSUME NEW t \in Tasks, ObserveNew(t) \/ ObserveAgain(t) PROVE FALSE
      <3>1. PICK n : told' = [told EXCEPT ![call[t].fp] = Firing(call[t], n)]
        BY <2>1, <2>2 DEF ObserveNew, ObserveAgain
      <3>2. Firing(call[t], n).state = "firing"
        BY DEF Firing
      <3>3. QED
        BY <3>1, <3>2 DEF IInv, TypeOK
    <2>3. ASSUME NEW t \in Tasks, ForceResolve(t) PROVE FALSE
      <3>1. u = t
        BY <1>1, <2>3 DEF IInv, TypeOK, ForceResolve
      <3>2. QED
        BY <2>3, <3>1 DEF ForceResolve
    <2>4. ASSUME NEW t \in Tasks, ObserveOk(t) PROVE told'[fp].at - lastBad[fp] >= Recovery
      <3> DEFINE c == call[t]
      <3>1. c.fp \in Fingerprints /\ c.at \in Nat
        BY <1>1, <2>4, CallType DEF IInv, ObserveOk
      <3>2. /\ c.fp \in DOMAIN entries
            /\ entries[c.fp].ok_since # None
            /\ Since(c.at, entries[c.fp].ok_since) >= Recovery
            /\ told' = [told EXCEPT ![c.fp] = Resolved(c, entries[c.fp])]
        BY <2>1, <2>4 DEF ObserveOk
      <3>3. c.fp = fp
        BY <3>2 DEF IInv, TypeOK
      <3>4. told'[fp].at = c.at
        BY <3>2, <3>3 DEF IInv, TypeOK, Resolved
      <3>5. /\ entries[fp].ok_since \in Nat
            /\ lastBad[fp] \in Nat
            /\ entries[fp].ok_since >= lastBad[fp]
            /\ entries[fp].ok_since <= c.at
        BY <1>1, <2>4, <3>2, <3>3
           DEF IInv, TypeOK, Entry, EntriesMatchEpisodes, CallsAreRecent, ObserveOk
      <3>6. QED
        BY <3>1, <3>2, <3>3, <3>4, <3>5, TrackerAssumption DEF Since
    <2>5. QED
      BY <1>1, <2>1, <2>2, <2>3, <2>4 DEF Next, Tick, Call
  <1>2. ASSUME IInv, [Next]_vars PROVE [A]_vars
    BY <1>1, <1>2
  <1> HIDE DEF A
  <1>3. Spec => [][A]_vars
    BY <1>2, Invariance, PTL DEF Spec
  <1>4. QED
    BY <1>3 DEF RecoveryWindowHonoured, A

(***************************************************************************)
(* The tracker implements the alert lifecycle: alternating episodes, firing*)
(* alerts ReNotify apart, one resolved alert per episode.                  *)
(***************************************************************************)
THEOREM TrackerImplementsLifecycle == Spec => LifecycleRefined
  <1> DEFINE m == [fp \in Fingerprints |-> [state |-> told[fp].state, at |-> told[fp].at]]
  <1>1. Init => Lifecycle!LifecycleInit
    BY DEF Init, Lifecycle!LifecycleInit
  <1>2. ASSUME IInv, Next PROVE Lifecycle!LifecycleNext \/ m' = m
    <2>1. ASSUME told' = told PROVE m' = m
      BY <2>1
    <2>2. ASSUME NEW t \in Tasks, call[t] # None
          PROVE  /\ call[t].fp \in Fingerprints /\ call[t].at \in 0 .. MaxTime
                 /\ m[call[t].fp].state = told[call[t].fp].state
                 /\ m[call[t].fp].at = told[call[t].fp].at
      BY <1>2, <2>2, CallType, TrackerAssumption
         DEF IInv, CallsAreRecent, StampsArePast, TypeOK
    <2>4. ASSUME NEW t \in Tasks, ObserveNew(t) PROVE Lifecycle!LifecycleNext
      <3> DEFINE c == call[t]
      <3>0. /\ c.fp \in Fingerprints /\ c.at \in 0 .. MaxTime
            /\ m[c.fp].state = told[c.fp].state
            /\ m[c.fp].at = told[c.fp].at
        BY <2>2, <2>4 DEF ObserveNew
      <3>1. told[c.fp].state # "firing" /\ c # None
        BY <1>2, <3>0, <2>4 DEF IInv, EntriesMatchEpisodes, ObserveNew
      <3>2. told' = [told EXCEPT ![c.fp] = Firing(c, 1)]
        BY <2>4 DEF ObserveNew
      <3>3. m' = [m EXCEPT ![c.fp] = [state |-> "firing", at |-> c.at]]
        BY <1>2, <3>1, <3>2, <3>0 DEF IInv, TypeOK, Firing
      <3>4. m'[c.fp] = [state |-> "firing", at |-> c.at]
        BY <3>0, <3>3
      <3>5. PICK f \in Fingerprints : f = c.fp
        BY <3>0
      <3>6. m'[f] \in [state : {"firing"}, at : 0 .. MaxTime]
        BY <3>0, <3>4, <3>5
      <3>7. m' = [m EXCEPT ![f] = m'[f]] /\ m[f].state # "firing"
        BY <3>0, <3>1, <3>3, <3>4, <3>5
      <3> HIDE DEF m, c
      <3>8. Lifecycle!Announce(f)
        BY <3>6, <3>7 DEF Lifecycle!Announce, Lifecycle!Emits, m
      <3>9. QED
        BY <3>8 DEF Lifecycle!LifecycleNext
    <2>5. ASSUME NEW t \in Tasks, ObserveAgain(t), told' # told
          PROVE  Lifecycle!LifecycleNext
      <3> DEFINE c == call[t]
      <3>0. /\ c.fp \in Fingerprints /\ c.at \in 0 .. MaxTime
            /\ m[c.fp].state = told[c.fp].state
            /\ m[c.fp].at = told[c.fp].at
        BY <2>2, <2>5 DEF ObserveAgain
      <3>1. /\ c # None /\ c.fp \in DOMAIN entries
            /\ DueAgain(c, entries[c.fp])
        BY <2>5 DEF ObserveAgain
      <3>2. PICK n : told' = [told EXCEPT ![c.fp] = Firing(c, n)]
        BY <2>5 DEF ObserveAgain
      <3>3. m' = [m EXCEPT ![c.fp] = [state |-> "firing", at |-> c.at]]
        BY <1>2, <3>1, <3>2, <3>0 DEF IInv, TypeOK, Firing
      <3>4. /\ told[c.fp].state = "firing"
            /\ told[c.fp].at = entries[c.fp].last_emitted
            /\ entries[c.fp].last_emitted \in Nat
        BY <1>2, <3>0, <3>1
           DEF IInv, TypeOK, Entry, EntriesMatchEpisodes
      <3>5. ReNotify = 0 \/ c.at - m[c.fp].at >= ReNotify
        BY <3>0, <3>1, <3>4, TrackerAssumption DEF DueAgain, Since
      <3>6. m'[c.fp] = [state |-> "firing", at |-> c.at]
        BY <3>0, <3>3
      <3>7. PICK f \in Fingerprints : f = c.fp
        BY <3>0
      <3>8. m'[f] \in [state : {"firing"}, at : 0 .. MaxTime] /\ m'[f].at = c.at
        BY <3>0, <3>6, <3>7
      <3>9. m' = [m EXCEPT ![f] = m'[f]] /\ m[f].state = "firing"
        BY <3>0, <3>3, <3>4, <3>6, <3>7
      <3>10. ReNotify = 0 \/ m'[f].at - m[f].at >= ReNotify
        BY <3>5, <3>7, <3>8
      <3> HIDE DEF m, c
      <3>11. Lifecycle!ReAnnounce(f)
        BY <3>8, <3>9, <3>10 DEF Lifecycle!ReAnnounce, Lifecycle!Emits, m
      <3>12. QED
        BY <3>11 DEF Lifecycle!LifecycleNext
    <2>6. ASSUME NEW t \in Tasks, ObserveOk(t) \/ ForceResolve(t), told' # told
          PROVE  Lifecycle!LifecycleNext
      <3> DEFINE c == call[t]
      <3>0. /\ c.fp \in Fingerprints /\ c.at \in 0 .. MaxTime
            /\ m[c.fp].state = told[c.fp].state
            /\ m[c.fp].at = told[c.fp].at
        BY <2>2, <2>6 DEF ObserveOk, ForceResolve
      <3>1. /\ c # None /\ c.fp \in DOMAIN entries
            /\ told' = [told EXCEPT ![c.fp] = Resolved(c, entries[c.fp])]
        BY <2>6 DEF ObserveOk, ForceResolve
      <3>2. m' = [m EXCEPT ![c.fp] = [state |-> "resolved", at |-> c.at]]
        BY <1>2, <3>1, <3>0 DEF IInv, TypeOK, Resolved
      <3>3. told[c.fp].state = "firing"
        BY <1>2, <3>0, <3>1 DEF IInv, EntriesMatchEpisodes
      <3>4. m'[c.fp] = [state |-> "resolved", at |-> c.at]
        BY <3>0, <3>2
      <3>5. PICK f \in Fingerprints : f = c.fp
        BY <3>0
      <3>6. m'[f] \in [state : {"resolved"}, at : 0 .. MaxTime]
        BY <3>0, <3>4, <3>5
      <3>7. m' = [m EXCEPT ![f] = m'[f]] /\ m[f].state = "firing"
        BY <3>0, <3>2, <3>3, <3>4, <3>5
      <3> HIDE DEF m, c
      <3>8. Lifecycle!Close(f)
        BY <3>6, <3>7 DEF Lifecycle!Close, Lifecycle!Emits, m
      <3>9. QED
        BY <3>8 DEF Lifecycle!LifecycleNext
    <2>7. QED
      BY <1>2, <2>1, <2>4, <2>5, <2>6 DEF Next, Tick, Call
  <1>3. IInv /\ [Next]_vars => [Lifecycle!LifecycleNext]_m
    BY <1>2 DEF vars
  <1>4. QED
    BY <1>1, <1>3, Invariance, PTL DEF Spec, LifecycleRefined, Lifecycle!LifecycleSpec

-----------------------------------------------------------------------------
(* The poll loops of MCPollers.  Each has one task that makes every call,  *)
(* so its tracker keeps the invariant IInv, and what is left to show is    *)
(* how the loop's own state follows what it has read.                      *)

\* What a detection does to the fingerprint it is about, and to no other.
LEMMA ObserveFacts ==
    ASSUME IInv, NEW t \in Tasks, ObserveNew(t) \/ ObserveAgain(t)
    PROVE  /\ call[t] # None /\ call[t].op = "observe" /\ call[t].fp \in Fingerprints
           /\ call[t].at \in Nat
           /\ call' = [call EXCEPT ![t] = None] /\ now' = now
           /\ \A g \in Fingerprints : g # call[t].fp => told'[g] = told[g]
           /\ told'[call[t].fp].state = "firing"
           /\ \/ /\ told'[call[t].fp].at = call[t].at
                 /\ told'[call[t].fp].severity = call[t].severity
              \/ told' = told /\ call[t].at - told[call[t].fp].at < ReNotify
  <1> DEFINE c == call[t]
  <1>1. c # None /\ c.op = "observe" /\ call' = [call EXCEPT ![t] = None] /\ now' = now
    BY DEF ObserveNew, ObserveAgain
  <1>2. c.fp \in Fingerprints /\ c.at \in Nat
    BY <1>1, CallType DEF IInv
  <1>3. told \in [Fingerprints -> Alert]
    BY DEF IInv, TypeOK
  <1>4. ASSUME NEW n, told' = [told EXCEPT ![c.fp] = Firing(c, n)]
        PROVE  /\ \A g \in Fingerprints : g # c.fp => told'[g] = told[g]
               /\ told'[c.fp].state = "firing"
               /\ told'[c.fp].at = c.at /\ told'[c.fp].severity = c.severity
    <2>1. told'[c.fp] = Firing(c, n)
      BY <1>2, <1>3, <1>4
    <2>2. \A g \in Fingerprints : g # c.fp => told'[g] = told[g]
      BY <1>2, <1>3, <1>4
    <2> QED
      BY <2>1, <2>2 DEF Firing
  <1>5. CASE \E n : told' = [told EXCEPT ![c.fp] = Firing(c, n)]
    BY <1>1, <1>2, <1>4, <1>5
  <1>6. CASE /\ c.fp \in DOMAIN entries /\ told' = told /\ ~DueAgain(c, entries[c.fp])
    <2>1. told[c.fp].state = "firing" /\ entries[c.fp].last_emitted = told[c.fp].at
      BY <1>2, <1>6 DEF IInv, EntriesMatchEpisodes
    <2>2. entries[c.fp].last_emitted \in Nat
      BY <1>2, <1>6 DEF IInv, TypeOK, Entry
    <2>3. c.at - told[c.fp].at < ReNotify
      BY <1>2, <1>6, <2>1, <2>2, TrackerAssumption DEF DueAgain, Since
    <2> QED
      BY <1>1, <1>2, <1>6, <2>1, <2>3
  <1> QED
    BY <1>5, <1>6 DEF ObserveNew, ObserveAgain

\* What observe_ok does to an open episode: it is closed, its recovery window
\* starts at the sample, or it waits.
LEMMA ObserveOkFacts ==
    ASSUME IInv, NEW t \in Tasks, ObserveOk(t), NEW f, f = call[t].fp
    PROVE  /\ call[t] # None /\ call[t].op = "observe_ok"
           /\ f \in Fingerprints /\ call[t].at \in Nat
           /\ call' = [call EXCEPT ![t] = None] /\ now' = now
           /\ \/ f \notin DOMAIN entries' /\ told'[f].state # "firing"
              \/ /\ f \in DOMAIN entries /\ entries[f].ok_since = None
                 /\ f \in DOMAIN entries' /\ entries'[f].ok_since = call[t].at
                 /\ told' = told
              \/ /\ f \in DOMAIN entries /\ entries' = entries
                 /\ entries[f].ok_since \in Nat /\ entries[f].ok_since =< call[t].at
                 /\ call[t].at - entries[f].ok_since < Recovery
                 /\ told' = told
  <1> DEFINE c == call[t]
  <1>1. c # None /\ c.op = "observe_ok" /\ call' = [call EXCEPT ![t] = None] /\ now' = now
    BY DEF ObserveOk
  <1>2. f \in Fingerprints /\ c.at \in Nat
    BY <1>1, CallType DEF IInv
  <1>3. told \in [Fingerprints -> Alert]
    BY DEF IInv, TypeOK
  <1>4. CASE f \notin DOMAIN entries /\ UNCHANGED <<entries, told>>
    BY <1>1, <1>2, <1>4 DEF IInv, EntriesMatchEpisodes
  <1>5. CASE /\ f \in DOMAIN entries /\ entries[f].ok_since = None
             /\ entries' = Put(f, [entries[f] EXCEPT !.ok_since = c.at]) /\ UNCHANGED told
    <2>1. entries[f] \in Entry
      BY <1>5 DEF IInv, TypeOK
    <2>2. f \in DOMAIN entries' /\ entries'[f] = [entries[f] EXCEPT !.ok_since = c.at]
      BY <1>5 DEF Put
    <2>3. entries'[f].ok_since = c.at
      BY <2>1, <2>2 DEF Entry
    <2> QED
      BY <1>1, <1>2, <1>5, <2>2, <2>3
  <1>6. CASE /\ f \in DOMAIN entries /\ entries[f].ok_since # None
             /\ Since(c.at, entries[f].ok_since) < Recovery /\ UNCHANGED <<entries, told>>
    <2>1. entries[f].ok_since \in Nat /\ entries[f].ok_since =< c.at
      BY <1>1, <1>2, <1>6 DEF IInv, TypeOK, Entry, CallsAreRecent
    <2>2. c.at - entries[f].ok_since < Recovery
      BY <1>2, <1>6, <2>1 DEF Since
    <2> QED
      BY <1>1, <1>2, <1>6, <2>1, <2>2
  <1>7. CASE /\ entries' = Drop(f) /\ told' = [told EXCEPT ![f] = Resolved(c, entries[f])]
    <2>1. f \notin DOMAIN entries'
      BY <1>7 DEF Drop
    <2>2. told'[f] = Resolved(c, entries[f])
      BY <1>2, <1>3, <1>7
    <2>3. told'[f].state = "resolved"
      BY <2>2 DEF Resolved
    <2> QED
      BY <1>1, <1>2, <2>1, <2>3
  <1> QED
    BY <1>4, <1>5, <1>6, <1>7 DEF ObserveOk

\* The tracker of each monitor is the one of AlertTracker.
LEMMA PsiTracker ==
    /\ (UNCHANGED Psi!vars <=> UNCHANGED vars) /\ (Psi!Init <=> Init) /\ (Psi!Tick <=> Tick)
    /\ \A op, f, sev : Psi!Call(poller, op, f, sev) <=> Call(poller, op, f, sev)
    /\ (Psi!ObserveNew(poller) <=> ObserveNew(poller))
    /\ (Psi!ObserveAgain(poller) <=> ObserveAgain(poller))
    /\ (Psi!ObserveOk(poller) <=> ObserveOk(poller))
    /\ \A a, b : Psi!Since(a, b) = Since(a, b)
  BY DEF Psi!vars, vars, Psi!Init, Init, Psi!Tick, Tick, Psi!Call, Call, Psi!Put, Put,
         Psi!Drop, Drop, Psi!Since, Since, Psi!Firing, Firing, Psi!Resolved, Resolved,
         Psi!Seen, Seen, Psi!DueAgain, DueAgain, Psi!ObserveNew, ObserveNew,
         Psi!ObserveAgain, ObserveAgain, Psi!ObserveOk, ObserveOk

\* NvmeMonitor's tracker is AlertTracker's: same operations, same effect.
LEMMA NvmeTracker ==
    /\ (UNCHANGED Nvme!vars <=> UNCHANGED vars) /\ (Nvme!Init <=> Init) /\ (Nvme!Tick <=> Tick)
    /\ \A op, f, sev : Nvme!Call(poller, op, f, sev) <=> Call(poller, op, f, sev)
    /\ (Nvme!ObserveNew(poller) <=> ObserveNew(poller))
    /\ (Nvme!ObserveAgain(poller) <=> ObserveAgain(poller))
    /\ (Nvme!ObserveOk(poller) <=> ObserveOk(poller))
  BY DEF Nvme!vars, vars, Nvme!Init, Init, Nvme!Tick, Tick, Nvme!Call, Call, Nvme!Put, Put,
         Nvme!Drop, Drop, Nvme!Since, Since, Nvme!Firing, Firing, Nvme!Resolved, Resolved,
         Nvme!Seen, Seen, Nvme!DueAgain, DueAgain, Nvme!ObserveNew, ObserveNew,
         Nvme!ObserveAgain, ObserveAgain, Nvme!ObserveOk, ObserveOk

\* So is ThermalMonitor's, of which only the calls it makes are needed.
LEMMA ThermalTracker ==
    /\ (UNCHANGED Thermal!vars <=> UNCHANGED vars) /\ (Thermal!Init <=> Init) /\ (Thermal!Tick <=> Tick)
    /\ \A op, f, sev : Thermal!Call(poller, op, f, sev) <=> Call(poller, op, f, sev)
    /\ (Thermal!ObserveNew(poller) <=> ObserveNew(poller))
    /\ (Thermal!ObserveAgain(poller) <=> ObserveAgain(poller))
  BY DEF Thermal!vars, vars, Thermal!Init, Init, Thermal!Tick, Tick, Thermal!Call, Call,
         Thermal!Put, Put, Thermal!Since, Since, Thermal!Firing, Firing, Thermal!Seen, Seen,
         Thermal!DueAgain, DueAgain, Thermal!ObserveNew, ObserveNew,
         Thermal!ObserveAgain, ObserveAgain

\* And HealthPollers', which never calls observe_ok.
LEMMA HealthTracker ==
    /\ (UNCHANGED Health!vars <=> UNCHANGED vars) /\ (Health!Init <=> Init) /\ (Health!Tick <=> Tick)
    /\ \A op, f, sev : Health!Call(poller, op, f, sev) <=> Call(poller, op, f, sev)
    /\ (Health!ObserveNew(poller) <=> ObserveNew(poller))
    /\ (Health!ObserveAgain(poller) <=> ObserveAgain(poller))
  BY DEF Health!vars, vars, Health!Init, Init, Health!Tick, Tick, Health!Call, Call,
         Health!Put, Put, Health!Since, Since, Health!Firing, Firing, Health!Seen, Seen,
         Health!DueAgain, DueAgain, Health!ObserveNew, ObserveNew,
         Health!ObserveAgain, ObserveAgain

\* The calls the loops make are steps of the tracker, and keep its invariant.
LEMMA PollerIInv ==
    ASSUME IInv,
           \/ Tick \/ UNCHANGED vars
           \/ ObserveNew(poller) \/ ObserveAgain(poller) \/ ObserveOk(poller)
           \/ \E op \in Operations, f \in Fingerprints, sev \in Severities \cup {None} :
                Call(poller, op, f, sev)
    PROVE  IInv'
  <1>1. [Next]_vars
    BY PollersAssumption DEF Next
  <1> QED
    BY <1>1, NextIInv

-----------------------------------------------------------------------------
(* PsiMonitor.                                                             *)

\* What the proofs below take from the assumptions on the constants.
LEMMA PollerFacts ==
    /\ poller \in Tasks /\ key \in Fingerprints
    /\ None \notin Nat /\ None \notin Severities /\ None \notin CallRecord
    /\ "warning" \in Severities /\ "critical" \in Severities /\ "info" \in Severities
    /\ ReNotify \in Nat /\ Recovery \in Nat /\ Sustain \in Nat
  BY TrackerAssumption, PollersAssumption

\* Before the first sample there is no run of high ones and no call.
LEMMA PsiInitInv == Psi!PsiInit => IInv /\ Psi!PsiInv
  <1> SUFFICES ASSUME Psi!PsiInit PROVE IInv /\ Psi!PsiInv
    OBVIOUS
  <1>1. Init /\ samples = <<>> /\ breach_since = None
    BY PsiTracker DEF Psi!PsiInit
  <1>2. call[poller] = None /\ entries = [fp \in {} |-> None]
    BY <1>1, PollerFacts DEF Init
  <1>3. <<>> \in Seq([at : Nat, high : BOOLEAN]) /\ Len(<<>>) = 0
    OBVIOUS
  <1>4. Psi!Count = 0 /\ samples \in Seq([at : Nat, high : BOOLEAN])
    BY <1>1, <1>3 DEF Psi!Count
  <1>5. 1 .. Psi!Count = {}
    BY <1>4
  <1> QED
    BY <1>1, <1>2, <1>4, <1>5, InitIInv
       DEF Psi!PsiInv, Psi!SamplesPast, Psi!BreachMarksRun, Psi!CallAboutLast,
           Psi!WindowCoversLows, Psi!ToldTheTruth

\* Reading one more sample: what runs of samples end with it.
LEMMA PsiSample ==
    ASSUME Psi!SamplesPast, now \in Nat, NEW h \in BOOLEAN, Psi!Sample(h), now' = now
    PROVE  /\ Psi!SamplesPast'
           /\ Psi!Count \in Nat /\ Psi!Count' = Psi!Count + 1
           /\ samples'[Psi!Count + 1].at = now /\ samples'[Psi!Count + 1].high = h
           /\ \A i \in 1 .. Psi!Count : samples'[i] = samples[i]
           /\ \A i \in 1 .. Psi!Count, b \in BOOLEAN :
                 Psi!FromOn(i, b)' <=> Psi!FromOn(i, b) /\ h = b
           /\ \A i \in {Psi!Count + 1}, b \in BOOLEAN : Psi!FromOn(i, b)' <=> h = b
  <1> DEFINE R == [at : Nat, high : BOOLEAN]
             r == [at |-> now, high |-> h]
             n == Psi!Count
  <1>1. samples \in Seq(R) /\ n = Len(samples) /\ r \in R
    BY DEF Psi!SamplesPast, Psi!Count
  <1>2. r.at = now /\ r.high = h
    OBVIOUS
  <1>3. samples' = Append(samples, r)
    BY DEF Psi!Sample
  <1> HIDE DEF r, R
  <1>4. /\ n \in Nat /\ samples' \in Seq(R) /\ Len(samples') = n + 1
        /\ samples'[n + 1] = r
        /\ \A i \in 1 .. n : samples'[i] = samples[i]
    BY <1>1, <1>3, AppendProperties, LenProperties
  <1>5. Psi!Count' = n + 1
    BY <1>4 DEF Psi!Count
  <1> HIDE DEF n
  <1>6. Psi!SamplesPast'
    <2>1. \A i \in 1 .. n + 1 : samples'[i].at =< now
      <3> SUFFICES ASSUME NEW i \in 1 .. n + 1 PROVE samples'[i].at =< now
        OBVIOUS
      <3>1. CASE i \in 1 .. n
        BY <1>4, <3>1 DEF Psi!SamplesPast, n
      <3>2. CASE i = n + 1
        BY <1>2, <1>4, <3>2
      <3> QED
        BY <1>4, <3>1, <3>2
    <2> QED
      BY <1>4, <1>5, <2>1 DEF Psi!SamplesPast, R
  <1>7. ASSUME NEW i \in 1 .. n, NEW b \in BOOLEAN
        PROVE  Psi!FromOn(i, b)' <=> Psi!FromOn(i, b) /\ h = b
    <2>1. Psi!FromOn(i, b)' <=> \A j \in i .. n + 1 : samples'[j].high = b
      BY <1>5 DEF Psi!FromOn
    <2>2. Psi!FromOn(i, b) <=> \A j \in i .. n : samples[j].high = b
      BY DEF Psi!FromOn, n
    <2>3. i .. n + 1 = (i .. n) \cup {n + 1} /\ i .. n \subseteq 1 .. n
      BY <1>4, <1>7
    <2>4. \A j \in i .. n : samples'[j].high = samples[j].high
      BY <1>4, <2>3
    <2>5. samples'[n + 1].high = h
      BY <1>2, <1>4
    <2>6. (\A j \in i .. n + 1 : samples'[j].high = b)
            <=> (\A j \in i .. n : samples'[j].high = b) /\ h = b
      BY <2>3, <2>5, Zenon
    <2>7. (\A j \in i .. n : samples'[j].high = b) <=> \A j \in i .. n : samples[j].high = b
      BY <2>4, Zenon
    <2> QED
      BY <2>1, <2>2, <2>6, <2>7, Zenon
  <1>8. ASSUME NEW i \in {n + 1}, NEW b \in BOOLEAN PROVE Psi!FromOn(i, b)' <=> h = b
    <2>1. Psi!FromOn(i, b)' <=> \A j \in i .. n + 1 : samples'[j].high = b
      BY <1>5 DEF Psi!FromOn
    <2>2. i .. n + 1 = {n + 1}
      BY <1>4, <1>8
    <2>3. samples'[n + 1].high = h
      BY <1>2, <1>4
    <2> QED
      BY <2>1, <2>2, <2>3, Zenon
  <1> QED
    BY <1>2, <1>4, <1>5, <1>6, <1>7, <1>8 DEF n

\* The last sample is high or low, not both.
LEMMA PsiOneRun ==
    ASSUME Psi!SamplesPast, NEW i \in 1 .. Psi!Count, Psi!FromOn(i, TRUE),
           NEW k \in 1 .. Psi!Count, Psi!FromOn(k, FALSE)
    PROVE  FALSE
  <1>1. Psi!Count \in Nat
    BY LenProperties DEF Psi!SamplesPast, Psi!Count
  <1>2. Psi!Count \in i .. Psi!Count /\ Psi!Count \in k .. Psi!Count
    BY <1>1
  <1> QED
    BY <1>2 DEF Psi!FromOn

\* Steps that neither read a sample nor make a call.
LEMMA PsiStill ==
    ASSUME Psi!PsiInv, now \in Nat, now' \in Nat, now =< now',
           UNCHANGED <<entries, call, told, breach_since, samples>>
    PROVE  Psi!PsiInv'
  <1>1. Psi!SamplesPast'
    <2> SUFFICES ASSUME NEW i \in 1 .. Psi!Count PROVE samples[i].at =< now'
      BY DEF Psi!PsiInv, Psi!SamplesPast, Psi!Count
    <2>1. samples \in Seq([at : Nat, high : BOOLEAN]) /\ i \in 1 .. Len(samples)
      BY DEF Psi!PsiInv, Psi!SamplesPast, Psi!Count
    <2>2. samples[i] \in [at : Nat, high : BOOLEAN]
      BY <2>1, ElementOfSeq
    <2>3. samples[i].at \in Nat /\ samples[i].at =< now
      BY <2>2 DEF Psi!PsiInv, Psi!SamplesPast
    <2> QED
      BY <2>3
  <1> QED
    BY <1>1 DEF Psi!PsiInv, Psi!BreachMarksRun, Psi!CallAboutLast, Psi!WindowCoversLows,
                Psi!ToldTheTruth, Psi!FromOn, Psi!Count

\* psi_loop reads pressure at or above the threshold.
LEMMA PsiHighInv ==
    ASSUME IInv, Psi!PsiInv, Psi!PollHigh
    PROVE  IInv' /\ Psi!PsiInv'
  <1> DEFINE n == Psi!Count
             t0 == Psi!SinceBreach
  <1>1. /\ call[poller] = None /\ now \in Nat /\ breach_since' = t0 /\ Psi!Sample(TRUE)
        /\ \/ Psi!Sustained(t0) /\ Call(poller, "observe", key, "warning")
           \/ ~Psi!Sustained(t0) /\ UNCHANGED vars
    <2>1. Psi!Call(poller, "observe", key, "warning") => Call(poller, "observe", key, "warning")
      BY PsiTracker, Zenon
    <2>2. UNCHANGED Psi!vars => UNCHANGED vars
      BY PsiTracker
    <2> QED
      BY <2>1, <2>2 DEF Psi!PollHigh, Psi!PollTick, IInv, TypeOK
  <1>2. now' = now /\ UNCHANGED <<entries, told>>
    BY <1>1 DEF Call, vars
  <1>3. IInv'
    BY <1>1, PollerFacts, PollerIInv DEF Operations
  <1>4. /\ Psi!SamplesPast' /\ n \in Nat /\ Psi!Count' = n + 1
        /\ samples'[n + 1].at = now
        /\ \A i \in 1 .. n : samples'[i] = samples[i]
        /\ \A i \in 1 .. n : /\ Psi!FromOn(i, TRUE)' <=> Psi!FromOn(i, TRUE)
                             /\ ~Psi!FromOn(i, FALSE)'
        /\ \A i \in {n + 1} : Psi!FromOn(i, TRUE)' /\ ~Psi!FromOn(i, FALSE)'
    <2>1. Psi!SamplesPast
      BY DEF Psi!PsiInv
    <2> QED
      BY <1>1, <1>2, <2>1, PsiSample
  <1>5. t0 \in Nat /\ t0 =< now /\ t0 # None
    <2>1. CASE breach_since = None
      BY <1>1, <2>1, PollerFacts DEF Psi!SinceBreach
    <2>2. CASE breach_since # None
      <3>1. PICK i \in 1 .. n : samples[i].at = breach_since
        BY <2>2 DEF Psi!PsiInv, Psi!BreachMarksRun
      <3>2. breach_since \in Nat /\ breach_since =< now
        BY <2>2, <3>1 DEF Psi!PsiInv, Psi!BreachMarksRun, Psi!SamplesPast
      <3> QED
        BY <2>2, <3>2 DEF Psi!SinceBreach
    <2> QED
      BY <2>1, <2>2
  <1>6. 1 .. n + 1 = (1 .. n) \cup {n + 1} /\ n + 1 > 0
    BY <1>4
  <1>7. \A i \in 1 .. n + 1 : ~Psi!FromOn(i, FALSE)'
    BY <1>4, <1>6
  <1>8. \A i \in 1 .. n + 1 : Psi!FromOn(i, TRUE)' => t0 =< samples'[i].at
    <2> SUFFICES ASSUME NEW i \in 1 .. n, Psi!FromOn(i, TRUE) PROVE t0 =< samples[i].at
      BY <1>4, <1>5, <1>6
    <2>1. breach_since # None /\ breach_since =< samples[i].at
      BY DEF Psi!PsiInv, Psi!BreachMarksRun
    <2> QED
      BY <2>1 DEF Psi!SinceBreach
  <1>9. \E i \in 1 .. n + 1 : Psi!FromOn(i, TRUE)' /\ samples'[i].at = t0
    <2>1. CASE breach_since = None
      <3>1. t0 = now
        BY <2>1 DEF Psi!SinceBreach
      <3> QED
        BY <1>4, <1>6, <3>1
    <2>2. CASE breach_since # None
      <3>1. PICK i \in 1 .. n : Psi!FromOn(i, TRUE) /\ samples[i].at = breach_since
        BY <2>2 DEF Psi!PsiInv, Psi!BreachMarksRun
      <3>2. t0 = breach_since
        BY <2>2 DEF Psi!SinceBreach
      <3>3. i \in 1 .. n + 1 /\ Psi!FromOn(i, TRUE)' /\ samples'[i].at = t0
        BY <1>4, <1>6, <3>1, <3>2
      <3> QED
        BY <3>3
    <2> QED
      BY <2>1, <2>2
  <1>10. Psi!Sustained(t0) <=> now - t0 >= Sustain
    BY <1>1, <1>5, PsiTracker DEF Psi!Sustained, Since
  <1> HIDE DEF n, t0
  <1>11. Psi!BreachMarksRun'
    BY <1>1, <1>4, <1>5, <1>8, <1>9 DEF Psi!BreachMarksRun
  <1>12. Psi!CallAboutLast'
    <2>1. CASE UNCHANGED vars
      BY <1>1, <2>1 DEF Psi!CallAboutLast, vars
    <2>2. CASE Psi!Sustained(t0) /\ Call(poller, "observe", key, "warning")
      <3>1. call'[poller] = [op |-> "observe", fp |-> key, severity |-> "warning", at |-> now]
        BY <2>2, PollerFacts DEF Call, IInv, TypeOK
      <3>2. call'[poller].op = "observe" /\ call'[poller].fp = key /\ call'[poller].at = now
        BY <3>1
      <3> QED
        BY <1>1, <1>4, <1>5, <1>6, <1>10, <2>2, <3>2 DEF Psi!CallAboutLast
    <2> QED
      BY <1>1, <2>1, <2>2
  <1>13. Psi!WindowCoversLows'
    BY <1>4, <1>7 DEF Psi!WindowCoversLows
  <1>14. Psi!ToldTheTruth'
    <2>1. CASE UNCHANGED vars /\ ~Psi!Sustained(t0)
      <3> SUFFICES ASSUME NEW i \in 1 .. n + 1, Psi!FromOn(i, TRUE)'
                   PROVE  ~(samples'[n + 1].at - samples'[i].at >= Sustain)
        BY <1>4, <1>7 DEF Psi!ToldTheTruth
      <3>1. samples' \in Seq([at : Nat, high : BOOLEAN]) /\ Len(samples') = n + 1
        BY <1>4 DEF Psi!SamplesPast, Psi!Count
      <3>2. samples'[i] \in [at : Nat, high : BOOLEAN]
        BY <3>1, ElementOfSeq
      <3>3. samples'[i].at \in Nat /\ t0 =< samples'[i].at
        BY <1>8, <3>2
      <3> QED
        BY <1>1, <1>4, <1>5, <1>10, <2>1, <3>3, PollerFacts
    <2>2. CASE Call(poller, "observe", key, "warning")
      <3>1. call'[poller] = [op |-> "observe", fp |-> key, severity |-> "warning", at |-> now]
        BY <2>2, PollerFacts DEF Call, IInv, TypeOK
      <3>2. call'[poller] # None
        BY <1>1, <3>1, PollerFacts DEF CallRecord
      <3> QED
        BY <3>2 DEF Psi!ToldTheTruth
    <2> QED
      BY <1>1, <2>1, <2>2
  <1> QED
    BY <1>3, <1>4, <1>11, <1>12, <1>13, <1>14 DEF Psi!PsiInv

\* psi_loop reads pressure below the threshold.
LEMMA PsiLowInv ==
    ASSUME IInv, Psi!PsiInv, Psi!PollLow
    PROVE  IInv' /\ Psi!PsiInv'
  <1> DEFINE n == Psi!Count
  <1>1. /\ call[poller] = None /\ now \in Nat /\ breach_since' = None /\ Psi!Sample(FALSE)
        /\ Call(poller, "observe_ok", key, None)
    <2>1. Psi!Call(poller, "observe_ok", key, None) => Call(poller, "observe_ok", key, None)
      BY PsiTracker, Zenon
    <2> QED
      BY <2>1 DEF Psi!PollLow, Psi!PollTick, IInv, TypeOK
  <1>2. now' = now /\ UNCHANGED <<entries, told>>
    BY <1>1 DEF Call
  <1>3. IInv'
    BY <1>1, PollerFacts, PollerIInv DEF Operations
  <1>4. /\ Psi!SamplesPast' /\ n \in Nat /\ Psi!Count' = n + 1
        /\ samples'[n + 1].at = now
        /\ \A i \in 1 .. n : samples'[i] = samples[i]
        /\ \A i \in 1 .. n : /\ Psi!FromOn(i, FALSE)' <=> Psi!FromOn(i, FALSE)
                             /\ ~Psi!FromOn(i, TRUE)'
        /\ \A i \in {n + 1} : ~Psi!FromOn(i, TRUE)'
    <2>1. Psi!SamplesPast
      BY DEF Psi!PsiInv
    <2> QED
      BY <1>1, <1>2, <2>1, PsiSample
  <1>5. 1 .. n + 1 = (1 .. n) \cup {n + 1} /\ n + 1 > 0
    BY <1>4
  <1>6. /\ call'[poller] # None /\ call'[poller].op = "observe_ok"
        /\ call'[poller].fp = key /\ call'[poller].at = now
    <2>1. call'[poller] = [op |-> "observe_ok", fp |-> key, severity |-> None, at |-> now]
      BY <1>1, PollerFacts DEF Call, IInv, TypeOK
    <2>2. [op |-> "observe_ok", fp |-> key, severity |-> None, at |-> now] \in CallRecord
      BY <1>1, PollerFacts DEF CallRecord, Operations
    <2> QED
      BY <2>1, <2>2, PollerFacts
  <1>7. \A i \in 1 .. n : Psi!FromOn(i, FALSE) /\ key \in DOMAIN entries =>
           entries[key].ok_since # None /\ entries[key].ok_since =< samples[i].at
    BY <1>1 DEF Psi!PsiInv, Psi!WindowCoversLows
  <1> HIDE DEF n
  <1>8. Psi!BreachMarksRun'
    BY <1>1, <1>4, <1>5 DEF Psi!BreachMarksRun
  <1>9. Psi!CallAboutLast'
    BY <1>1, <1>4, <1>5, <1>6 DEF Psi!CallAboutLast
  <1>10. Psi!WindowCoversLows'
    <2> SUFFICES ASSUME NEW i \in 1 .. n + 1, Psi!FromOn(i, FALSE)', i < n + 1,
                        key \in DOMAIN entries
                 PROVE  /\ entries[key].ok_since # None
                        /\ entries[key].ok_since =< samples'[i].at
      BY <1>2, <1>4, <1>6 DEF Psi!WindowCoversLows
    <2>1. i \in 1 .. n
      BY <1>4
    <2> QED
      BY <1>4, <1>7, <2>1
  <1>11. Psi!ToldTheTruth'
    BY <1>6 DEF Psi!ToldTheTruth
  <1> QED
    BY <1>3, <1>4, <1>8, <1>9, <1>10, <1>11 DEF Psi!PsiInv

\* The tracker's critical section, for the sample psi_loop has just read.
LEMMA PsiTrackerInv ==
    ASSUME IInv, Psi!PsiInv, Psi!TrackerStep
    PROVE  IInv' /\ Psi!PsiInv'
  <1> DEFINE n == Psi!Count
             c == call[poller]
  <1>1. /\ ObserveNew(poller) \/ ObserveAgain(poller) \/ ObserveOk(poller)
        /\ UNCHANGED <<breach_since, samples>>
    BY PsiTracker DEF Psi!TrackerStep, Psi!psiVars
  <1>2. IInv'
    BY <1>1, PollerIInv
  <1>3. c # None /\ call'[poller] = None /\ now' = now
    BY <1>1, PollerFacts, ObserveFacts, ObserveOkFacts DEF IInv, TypeOK
  <1>4. /\ n > 0 /\ c.fp = key /\ c.at = samples[n].at
        /\ \/ /\ c.op = "observe"
              /\ breach_since # None /\ c.at - breach_since >= Sustain
           \/ c.op = "observe_ok" /\ breach_since = None
    BY <1>3 DEF Psi!PsiInv, Psi!CallAboutLast
  <1>5. /\ Psi!Count' = n
        /\ \A i \in 1 .. n, b \in BOOLEAN : Psi!FromOn(i, b)' <=> Psi!FromOn(i, b)
    BY <1>1 DEF Psi!Count, Psi!FromOn
  <1>6. Psi!SamplesPast' /\ Psi!BreachMarksRun' /\ Psi!CallAboutLast'
    BY <1>1, <1>3
       DEF Psi!PsiInv, Psi!SamplesPast, Psi!BreachMarksRun, Psi!CallAboutLast, Psi!FromOn,
           Psi!Count
  <1>7. samples \in Seq([at : Nat, high : BOOLEAN]) /\ n \in Nat
    BY LenProperties DEF Psi!PsiInv, Psi!SamplesPast, Psi!Count
  <1>8. \A i \in 1 .. n : samples[i].at \in Nat
    <2> SUFFICES ASSUME NEW i \in 1 .. n PROVE samples[i].at \in Nat
      OBVIOUS
    <2>1. samples[i] \in [at : Nat, high : BOOLEAN]
      BY <1>7, ElementOfSeq DEF Psi!Count
    <2> QED
      BY <2>1
  <1>9. CASE ObserveNew(poller) \/ ObserveAgain(poller)
    <2>1. c.op = "observe" /\ told'[key].state = "firing"
      BY <1>4, <1>9, PollerFacts, ObserveFacts
    <2>2. PICK k \in 1 .. n : Psi!FromOn(k, TRUE)
      BY <1>4, <2>1 DEF Psi!PsiInv, Psi!BreachMarksRun
    <2>3. \A i \in 1 .. n : ~Psi!FromOn(i, FALSE)
      BY <2>2, PsiOneRun DEF Psi!PsiInv
    <2>4. Psi!WindowCoversLows' /\ Psi!ToldTheTruth'
      BY <1>1, <1>5, <2>1, <2>3 DEF Psi!WindowCoversLows, Psi!ToldTheTruth
    <2> QED
      BY <1>2, <1>6, <2>4 DEF Psi!PsiInv
  <1>10. CASE ObserveOk(poller)
    <2>1. c.op = "observe_ok" /\ c.at \in Nat
      BY <1>10, PollerFacts, ObserveOkFacts
    <2>2. \A i \in 1 .. n : ~Psi!FromOn(i, TRUE)
      BY <1>4, <2>1 DEF Psi!PsiInv, Psi!BreachMarksRun
    <2>3. \A i \in 1 .. n : Psi!FromOn(i, FALSE) /\ i < n /\ key \in DOMAIN entries =>
             entries[key].ok_since # None /\ entries[key].ok_since =< samples[i].at
      BY DEF Psi!PsiInv, Psi!WindowCoversLows
    <2> HIDE DEF n, c
    <2>4. \A i \in 1 .. n : i < n \/ i = n
      BY <1>7
    <2>5. Psi!WindowCoversLows' <=>
            (key \in DOMAIN entries' =>
               \A i \in 1 .. n : Psi!FromOn(i, FALSE) =>
                  entries'[key].ok_since # None /\ entries'[key].ok_since =< samples[i].at)
      BY <1>1, <1>3, <1>5 DEF Psi!WindowCoversLows
    <2>6. Psi!ToldTheTruth' <=>
            \A i \in 1 .. n :
               Psi!FromOn(i, FALSE) /\ i < n /\ samples[n].at - samples[i].at >= Recovery
                 => told'[key].state # "firing"
      BY <1>1, <1>3, <1>5, <2>2 DEF Psi!ToldTheTruth
    <2>7. CASE key \notin DOMAIN entries' /\ told'[key].state # "firing"
      BY <1>2, <1>6, <2>5, <2>6, <2>7 DEF Psi!PsiInv
    <2>8. CASE /\ key \in DOMAIN entries /\ entries[key].ok_since = None
               /\ entries'[key].ok_since = c.at
      <3>1. \A i \in 1 .. n : Psi!FromOn(i, FALSE) => i = n
        BY <2>3, <2>4, <2>8
      <3>2. Psi!ToldTheTruth'
        <4>1. \A i \in 1 .. n : ~(Psi!FromOn(i, FALSE) /\ i < n)
          <5>1. ~(n < n)
            BY <1>7
          <5> QED
            BY <3>1, <5>1, Zenon
        <4> QED
          BY <2>6, <4>1, Zenon
      <3>3. Psi!WindowCoversLows'
        <4>1. entries'[key].ok_since # None /\ entries'[key].ok_since =< samples[n].at
          BY <1>4, <2>1, <2>8, PollerFacts
        <4> QED
          BY <2>5, <3>1, <4>1, Zenon
      <3> QED
        BY <1>2, <1>6, <3>2, <3>3 DEF Psi!PsiInv
    <2>9. CASE /\ key \in DOMAIN entries /\ entries' = entries
               /\ entries[key].ok_since \in Nat /\ entries[key].ok_since =< c.at
               /\ c.at - entries[key].ok_since < Recovery
      <3>1. Psi!ToldTheTruth'
        <4> SUFFICES ASSUME NEW i \in 1 .. n, Psi!FromOn(i, FALSE), i < n
                     PROVE  ~(samples[n].at - samples[i].at >= Recovery)
          BY <2>6
        <4>1. entries[key].ok_since =< samples[i].at /\ samples[i].at \in Nat
          BY <1>8, <2>3, <2>9
        <4> QED
          BY <1>4, <2>1, <2>9, <4>1, PollerFacts
      <3>2. Psi!WindowCoversLows'
        <4> SUFFICES ASSUME NEW i \in 1 .. n, Psi!FromOn(i, FALSE)
                     PROVE  /\ entries[key].ok_since # None
                            /\ entries[key].ok_since =< samples[i].at
          BY <2>5, <2>9
        <4>1. CASE i < n
          BY <2>3, <2>9, <4>1
        <4>2. CASE i = n
          BY <1>4, <2>9, <4>2, PollerFacts
        <4> QED
          BY <2>4, <4>1, <4>2
      <3> QED
        BY <1>2, <1>6, <3>1, <3>2 DEF Psi!PsiInv
    <2> QED
      BY <1>4, <1>10, <2>7, <2>8, <2>9, PollerFacts, ObserveOkFacts DEF c
  <1> QED
    BY <1>1, <1>9, <1>10

\* Each step of psi_loop, of the reading or of the clock preserves PsiInv.
LEMMA PsiNextInv == IInv /\ Psi!PsiInv /\ Psi!PsiNext => IInv' /\ Psi!PsiInv'
  <1> SUFFICES ASSUME IInv, Psi!PsiInv, Psi!PsiNext PROVE IInv' /\ Psi!PsiInv'
    OBVIOUS
  <1>0. now \in Nat
    BY DEF IInv, TypeOK
  <1>1. CASE Psi!PressureChanges \/ Psi!PollFails
    <2>1. UNCHANGED vars /\ UNCHANGED <<breach_since, samples>>
      BY <1>1, PsiTracker DEF Psi!PressureChanges, Psi!PollFails
    <2>2. IInv'
      BY <2>1, PollerIInv
    <2> QED
      BY <1>0, <2>1, <2>2, PsiStill DEF vars
  <1>2. CASE Psi!Clock
    <2>1. Tick /\ UNCHANGED <<breach_since, samples>>
      BY <1>2, PsiTracker DEF Psi!Clock, Psi!psiVars
    <2>2. IInv'
      BY <2>1, PollerIInv
    <2>3. now' \in Nat /\ now =< now'
      BY <1>0, <2>1 DEF Tick
    <2> QED
      BY <1>0, <2>1, <2>2, <2>3, PsiStill DEF Tick
  <1> QED
    BY <1>1, <1>2, PsiHighInv, PsiLowInv, PsiTrackerInv DEF Psi!PsiNext

\* A psi_high alert is handed out for a sample that ends a sustained breach.
LEMMA PsiFiringSustained ==
    ASSUME IInv, Psi!PsiInv, Psi!PsiNext
    PROVE  Psi!FiringMeansSustained
  <1> SUFFICES ASSUME told'[key] # told[key], told'[key].state = "firing"
               PROVE  \E i \in 1 .. Psi!Count :
                         Psi!FromOn(i, TRUE) /\ told'[key].at - samples[i].at >= Sustain
    BY DEF Psi!FiringMeansSustained
  <1>1. ObserveNew(poller) \/ ObserveAgain(poller) \/ ObserveOk(poller)
    <2>1. Psi!TrackerStep
      BY PsiTracker
         DEF Psi!PsiNext, Psi!PressureChanges, Psi!PollFails, Psi!Clock, Psi!PollHigh,
             Psi!PollLow, Psi!vars, Psi!Tick, Psi!Call
    <2> QED
      BY <2>1, PsiTracker DEF Psi!TrackerStep
  <1>2. call[poller] # None
    BY <1>1, PollerFacts, ObserveFacts, ObserveOkFacts
  <1>3. call[poller].fp = key
    BY <1>2 DEF Psi!PsiInv, Psi!CallAboutLast
  <1>4. ObserveNew(poller) \/ ObserveAgain(poller)
    <2> SUFFICES ASSUME ObserveOk(poller) PROVE FALSE
      BY <1>1
    <2> QED
      BY <1>3, PollerFacts, ObserveOkFacts
  <1>5. call[poller].op = "observe" /\ told'[key].at = call[poller].at
    BY <1>3, <1>4, PollerFacts, ObserveFacts
  <1>6. breach_since # None /\ call[poller].at - breach_since >= Sustain
    BY <1>2, <1>5 DEF Psi!PsiInv, Psi!CallAboutLast
  <1>7. PICK i \in 1 .. Psi!Count : Psi!FromOn(i, TRUE) /\ samples[i].at = breach_since
    BY <1>6 DEF Psi!PsiInv, Psi!BreachMarksRun
  <1> QED
    BY <1>5, <1>6, <1>7

-----------------------------------------------------------------------------
(* NvmeMonitor.                                                            *)

\* Before the first poll nothing has been read, sampled or called.
LEMMA NvmeInitInv == Nvme!NvmeInit => IInv /\ Nvme!NvmeInv
  <1> SUFFICES ASSUME Nvme!NvmeInit PROVE IInv /\ Nvme!NvmeInv
    OBVIOUS
  <1>1. /\ Init /\ samples = <<>> /\ last_err_log = None /\ value \in Nvme!Values
        /\ ~observed
    BY NvmeTracker DEF Nvme!NvmeInit
  <1>2. call[poller] = None
    BY <1>1, PollerFacts DEF Init
  <1>3. <<>> \in Seq([at : Nat, value : Nvme!Values]) /\ Len(<<>>) = 0
    OBVIOUS
  <1>4. Nvme!Reads = 0 /\ samples \in Seq([at : Nat, value : Nvme!Values])
    BY <1>1, <1>3 DEF Nvme!Reads
  <1>5. 1 .. Nvme!Reads = {} /\ ~(Nvme!Reads > 1) /\ ~(Nvme!Reads > 0)
    BY <1>4
  <1>6. Nvme!ErrLogExact
    BY <1>1, <1>5 DEF Nvme!ErrLogExact
  <1>7. Nvme!ToldAsRead
    BY <1>1, PollerFacts DEF Init, Nvme!ToldAsRead
  <1> QED
    BY <1>1, <1>2, <1>4, <1>5, <1>6, <1>7, InitIInv
       DEF Nvme!NvmeInv, Nvme!SamplesPast, Nvme!ErrLogIsLast, Nvme!CallAboutLast,
           Nvme!WindowCoversZeros, Nvme!WarningBitsTold, Nvme!LevelsTold

\* Each value read is 0, 1 or 2, and was read by now.
LEMMA NvmeReads ==
    ASSUME Nvme!SamplesPast
    PROVE  /\ Nvme!Reads \in Nat /\ Nvme!Reads = Len(samples)
           /\ \A i \in 1 .. Nvme!Reads : samples[i].at \in Nat /\ samples[i].value \in Nat
  <1>1. samples \in Seq([at : Nat, value : Nvme!Values]) /\ Nvme!Reads = Len(samples)
    BY DEF Nvme!SamplesPast, Nvme!Reads
  <1>2. Nvme!Reads \in Nat
    BY <1>1, LenProperties
  <1>3. ASSUME NEW i \in 1 .. Nvme!Reads
        PROVE  samples[i].at \in Nat /\ samples[i].value \in Nat
    <2>1. samples[i] \in [at : Nat, value : Nvme!Values]
      BY <1>1, ElementOfSeq
    <2> QED
      BY <2>1 DEF Nvme!Values
  <1> QED
    BY <1>1, <1>2, <1>3

\* Steps of the drive and the clock, and polls that fail.
LEMMA NvmeStill ==
    ASSUME Nvme!NvmeInv, now \in Nat, now' \in Nat, now =< now', value' \in Nvme!Values,
           UNCHANGED <<entries, call, told, metric, last_err_log, samples, observed>>
    PROVE  Nvme!NvmeInv'
  <1>1. Nvme!SamplesPast'
    <2> SUFFICES ASSUME NEW i \in 1 .. Nvme!Reads PROVE samples[i].at =< now'
      BY DEF Nvme!NvmeInv, Nvme!SamplesPast, Nvme!Reads
    <2>1. samples[i].at \in Nat /\ samples[i].at =< now
      BY NvmeReads DEF Nvme!NvmeInv, Nvme!SamplesPast
    <2> QED
      BY <2>1
  <1> QED
    BY <1>1 DEF Nvme!NvmeInv, Nvme!ErrLogIsLast, Nvme!CallAboutLast, Nvme!WindowCoversZeros,
                Nvme!ErrLogExact, Nvme!WarningBitsTold, Nvme!LevelsTold, Nvme!ToldAsRead,
                Nvme!ClearedSince, Nvme!ZeroFrom, Nvme!Reads, Nvme!Quiet

\* poll_one compares what it has read and makes its call.
LEMMA NvmePollInv ==
    ASSUME IInv, Nvme!NvmeInv, Nvme!PollOk
    PROVE  IInv' /\ Nvme!NvmeInv'
  <1> DEFINE n == Nvme!Reads
             r == [at |-> now, value |-> value]
             R == [at : Nat, value : Nvme!Values]
             sev == Nvme!Severity
  <1>1. /\ call[poller] = None /\ now \in Nat /\ UNCHANGED <<metric, value>>
        /\ \/ Nvme!Bad /\ Call(poller, "observe", key, sev)
           \/ ~Nvme!Bad /\ Nvme!Recovers /\ Call(poller, "observe_ok", key, None)
           \/ ~Nvme!Bad /\ ~Nvme!Recovers /\ UNCHANGED vars
        /\ last_err_log' = value /\ samples' = Append(samples, r)
        /\ observed' = Nvme!Bad
    <2>1. /\ Nvme!Call(poller, "observe", key, sev) => Call(poller, "observe", key, sev)
          /\ Nvme!Call(poller, "observe_ok", key, None) => Call(poller, "observe_ok", key, None)
      BY NvmeTracker, Zenon
    <2>2. UNCHANGED Nvme!vars => UNCHANGED vars
      BY NvmeTracker
    <2> QED
      BY <2>1, <2>2 DEF Nvme!PollOk, Nvme!PollTick, IInv, TypeOK
  <1>2. now' = now /\ UNCHANGED <<entries, told>>
    BY <1>1 DEF Call, vars
  <1>3. sev \in Severities /\ sev = Nvme!SeverityOf(metric, value)
    BY PollerFacts DEF Nvme!Severity, Nvme!SeverityOf
  <1> HIDE DEF sev
  <1>4. IInv'
    BY <1>1, <1>3, PollerFacts, PollerIInv DEF Operations
  <1>5. samples \in Seq(R) /\ value \in Nvme!Values /\ value \in Nat /\ n = Len(samples)
    BY DEF Nvme!NvmeInv, Nvme!SamplesPast, Nvme!Reads, Nvme!Values
  <1>6. r \in R /\ r.at = now /\ r.value = value
    BY <1>1, <1>5
  <1> HIDE DEF r, R
  <1>7. /\ n \in Nat /\ samples' \in Seq(R) /\ Len(samples') = n + 1
        /\ samples'[n + 1] = r /\ \A i \in 1 .. n : samples'[i] = samples[i]
    BY <1>1, <1>5, <1>6, AppendProperties, LenProperties
  <1>8. Nvme!Reads' = n + 1
    BY <1>7 DEF Nvme!Reads
  <1>9. \A i \in 1 .. n : samples[i].at \in Nat /\ samples[i].at =< now /\ samples[i].value \in Nat
    BY NvmeReads DEF Nvme!NvmeInv, Nvme!SamplesPast
  <1>10. n > 0 => last_err_log = samples[n].value
    BY DEF Nvme!NvmeInv, Nvme!ErrLogIsLast
  <1>11. n = 0 => last_err_log = None
    BY DEF Nvme!NvmeInv, Nvme!ErrLogIsLast
  <1>12. metric = "critical_warning" /\ key \in DOMAIN entries =>
           \A i \in 1 .. n : Nvme!ZeroFrom(i) =>
              entries[key].ok_since # None /\ entries[key].ok_since =< samples[i].at
    BY <1>1 DEF Nvme!NvmeInv, Nvme!WindowCoversZeros, Nvme!Quiet
  <1>13. ASSUME NEW i \in 1 .. n, Nvme!ZeroFrom(i)' PROVE Nvme!ZeroFrom(i)
    <2> SUFFICES ASSUME NEW j \in i .. n PROVE samples[j].value = 0
      BY DEF Nvme!ZeroFrom
    <2>1. j \in i .. n + 1 /\ j \in 1 .. n
      BY <1>7, <1>13
    <2> QED
      BY <1>7, <1>8, <1>13, <2>1 DEF Nvme!ZeroFrom
  <1> HIDE DEF n
  <1>14. Nvme!SamplesPast'
    <2>1. ASSUME NEW i \in 1 .. n + 1 PROVE samples'[i].at =< now
      <3>1. CASE i \in 1 .. n
        BY <1>7, <1>9, <3>1
      <3>2. CASE i = n + 1
        BY <1>1, <1>6, <1>7, <3>2
      <3> QED
        BY <1>7, <3>1, <3>2
    <2> QED
      BY <1>1, <1>2, <1>5, <1>7, <1>8, <2>1 DEF Nvme!SamplesPast, R
  <1>15. Nvme!ErrLogIsLast'
    BY <1>1, <1>6, <1>7, <1>8 DEF Nvme!ErrLogIsLast
  <1>16. Nvme!ErrLogExact'
    <2> SUFFICES ASSUME metric = "err_log_entries"
                 PROVE  observed' <=> n + 1 > 1 /\ samples'[n + 1].value > samples'[n].value
      BY <1>1, <1>7, <1>8 DEF Nvme!ErrLogExact
    <2>1. observed' <=> value > Nvme!PrevErrLog
      BY <1>1 DEF Nvme!Bad
    <2>2. samples'[n + 1].value = value
      BY <1>6, <1>7
    <2>3. CASE n = 0
      <3>1. ~(value > Nvme!PrevErrLog) /\ ~(n + 1 > 1)
        BY <1>5, <1>11, <2>3 DEF Nvme!PrevErrLog
      <3> QED
        BY <2>1, <3>1
    <2>4. CASE n > 0
      <3>1. n \in 1 .. n /\ n + 1 > 1
        BY <1>7, <2>4
      <3>2. samples'[n].value = samples[n].value /\ samples[n].value \in Nat
        BY <1>7, <1>9, <3>1
      <3>3. Nvme!PrevErrLog = samples[n].value
        BY <1>10, <2>4, <3>2, PollerFacts DEF Nvme!PrevErrLog
      <3> QED
        BY <2>1, <2>2, <3>1, <3>2, <3>3
    <2> QED
      BY <1>7, <2>3, <2>4
  <1>17. ASSUME metric = "critical_warning" PROVE call'[poller] # None
    <2>1. Nvme!Recovers
      BY <1>17 DEF Nvme!Recovers
    <2>2. PICK a \in CallRecord : call' = [call EXCEPT ![poller] = a]
      BY <1>1, <1>3, <2>1, PollerFacts DEF Call, CallRecord, Operations
    <2> QED
      BY <2>2, PollerFacts DEF IInv, TypeOK
  <1>18. Nvme!CallAboutLast'
    <2> SUFFICES ASSUME call'[poller] # None
                 PROVE  /\ call'[poller].fp = key /\ call'[poller].at = samples'[n + 1].at
                        /\ \/ /\ call'[poller].op = "observe"
                              /\ metric # "err_log_entries" =>
                                   /\ samples'[n + 1].value # 0
                                   /\ call'[poller].severity
                                        = Nvme!SeverityOf(metric, samples'[n + 1].value)
                           \/ call'[poller].op = "observe_ok" /\ samples'[n + 1].value = 0
      BY <1>1, <1>7, <1>8 DEF Nvme!CallAboutLast
    <2>1. samples'[n + 1].value = value /\ samples'[n + 1].at = now
      BY <1>6, <1>7
    <2>2. CASE Nvme!Bad /\ Call(poller, "observe", key, sev)
      <3>1. call'[poller] = [op |-> "observe", fp |-> key, severity |-> sev, at |-> now]
        BY <2>2, PollerFacts DEF Call, IInv, TypeOK
      <3>2. /\ call'[poller].op = "observe" /\ call'[poller].fp = key
            /\ call'[poller].at = now /\ call'[poller].severity = sev
        BY <3>1
      <3>3. metric # "err_log_entries" => value # 0
        BY <2>2, <1>5 DEF Nvme!Bad
      <3> QED
        BY <1>3, <2>1, <3>2, <3>3
    <2>3. CASE ~Nvme!Bad /\ Nvme!Recovers /\ Call(poller, "observe_ok", key, None)
      <3>1. call'[poller] = [op |-> "observe_ok", fp |-> key, severity |-> None, at |-> now]
        BY <2>3, PollerFacts DEF Call, IInv, TypeOK
      <3>2. call'[poller].op = "observe_ok" /\ call'[poller].fp = key /\ call'[poller].at = now
        BY <3>1
      <3>3. value = 0
        BY <2>3, <1>5 DEF Nvme!Bad, Nvme!Recovers
      <3> QED
        BY <2>1, <3>2, <3>3
    <2>4. CASE UNCHANGED vars
      BY <1>1, <2>4 DEF vars
    <2> QED
      BY <1>1, <2>2, <2>3, <2>4
  <1>19. Nvme!WindowCoversZeros'
    <2> SUFFICES ASSUME metric = "critical_warning", key \in DOMAIN entries,
                        NEW i \in 1 .. n + 1, Nvme!ZeroFrom(i)', i < n + 1
                 PROVE  entries[key].ok_since # None /\ entries[key].ok_since =< samples'[i].at
      BY <1>1, <1>2, <1>8, <1>17 DEF Nvme!WindowCoversZeros, Nvme!Quiet
    <2>1. i \in 1 .. n
      BY <1>7
    <2> QED
      BY <1>7, <1>12, <1>13, <2>1
  <1>20. Nvme!WarningBitsTold'
    BY <1>1, <1>17 DEF Nvme!WarningBitsTold, Nvme!Quiet
  <1>21. Nvme!ToldAsRead'
    <2> SUFFICES ASSUME metric # "err_log_entries", told[key].state = "firing"
                 PROVE  \E i \in 1 .. n + 1 :
                           /\ samples'[i].at = told[key].at
                           /\ Nvme!SeverityOf(metric, samples'[i].value) = told[key].severity
      BY <1>1, <1>2, <1>8 DEF Nvme!ToldAsRead, Nvme!SeverityOf
    <2>1. PICK i \in 1 .. n : /\ samples[i].at = told[key].at
                              /\ Nvme!SeverityOf(metric, samples[i].value) = told[key].severity
      BY DEF n, Nvme!NvmeInv, Nvme!LevelsTold, Nvme!ToldAsRead
    <2>2. i \in 1 .. n + 1 /\ samples'[i] = samples[i]
      BY <1>7
    <2> QED
      BY <2>1, <2>2
  <1>22. Nvme!LevelsTold'
    <2> SUFFICES ASSUME metric # "err_log_entries", call'[poller] = None
                 PROVE  samples'[n + 1].value = 0
      BY <1>1, <1>8, <1>21 DEF Nvme!LevelsTold, Nvme!Quiet
    <2>1. ~Nvme!Bad
      <3> SUFFICES ASSUME Nvme!Bad PROVE FALSE
        OBVIOUS
      <3>1. call'[poller] = [op |-> "observe", fp |-> key, severity |-> sev, at |-> now]
        BY <1>1, PollerFacts DEF Call, IInv, TypeOK
      <3>2. call'[poller] \in CallRecord
        BY <1>1, <1>3, <3>1, PollerFacts DEF CallRecord, Operations
      <3> QED
        BY <3>2, PollerFacts
    <2> QED
      BY <1>5, <1>6, <1>7, <2>1 DEF Nvme!Bad
  <1> QED
    BY <1>4, <1>14, <1>15, <1>16, <1>18, <1>19, <1>20, <1>22 DEF Nvme!NvmeInv

\* The tracker's critical section, for the value poll_one has just read.
LEMMA NvmeTrackerInv ==
    ASSUME IInv, Nvme!NvmeInv, Nvme!TrackerStep
    PROVE  IInv' /\ Nvme!NvmeInv'
  <1> DEFINE n == Nvme!Reads
             c == call[poller]
  <1>1. /\ ObserveNew(poller) \/ ObserveAgain(poller) \/ ObserveOk(poller)
        /\ UNCHANGED <<metric, value, last_err_log, samples, observed>>
    BY NvmeTracker DEF Nvme!TrackerStep, Nvme!nvmeVars
  <1>2. IInv'
    BY <1>1, PollerIInv
  <1>3. c # None /\ call'[poller] = None /\ now' = now
    BY <1>1, PollerFacts, ObserveFacts, ObserveOkFacts DEF IInv, TypeOK
  <1>4. /\ n > 0 /\ c.fp = key /\ c.at = samples[n].at
        /\ \/ /\ c.op = "observe"
              /\ metric # "err_log_entries" =>
                   /\ samples[n].value # 0
                   /\ c.severity = Nvme!SeverityOf(metric, samples[n].value)
           \/ c.op = "observe_ok" /\ samples[n].value = 0
    BY <1>3 DEF Nvme!NvmeInv, Nvme!CallAboutLast
  <1>5. Nvme!Reads' = n /\ \A i \in 1 .. n : Nvme!ZeroFrom(i)' <=> Nvme!ZeroFrom(i)
    BY <1>1 DEF Nvme!Reads, Nvme!ZeroFrom
  <1>6. Nvme!SamplesPast' /\ Nvme!ErrLogIsLast' /\ Nvme!ErrLogExact' /\ Nvme!CallAboutLast'
    BY <1>1, <1>3
       DEF Nvme!NvmeInv, Nvme!SamplesPast, Nvme!ErrLogIsLast, Nvme!ErrLogExact,
           Nvme!CallAboutLast, Nvme!Reads
  <1>7. n \in Nat /\ \A i \in 1 .. n : samples[i].at \in Nat
    BY NvmeReads DEF Nvme!NvmeInv
  <1>8. \A i \in 1 .. n : Nvme!ZeroFrom(i) => samples[n].value = 0
    <2>1. \A i \in 1 .. n : n \in i .. n
      BY <1>7
    <2> QED
      BY <2>1 DEF Nvme!ZeroFrom
  <1>9. metric # "critical_warning" => Nvme!WindowCoversZeros' /\ Nvme!WarningBitsTold'
    BY <1>1 DEF Nvme!WindowCoversZeros, Nvme!WarningBitsTold
  <1>10. Nvme!WindowCoversZeros' <=>
           (metric = "critical_warning" /\ key \in DOMAIN entries' =>
              \A i \in 1 .. n : Nvme!ZeroFrom(i) =>
                 entries'[key].ok_since # None /\ entries'[key].ok_since =< samples[i].at)
    BY <1>1, <1>3, <1>5 DEF Nvme!WindowCoversZeros, Nvme!Quiet
  <1>11. Nvme!WarningBitsTold' <=>
           (metric = "critical_warning" =>
              /\ samples[n].value # 0 => told'[key].state = "firing"
              /\ \A i \in 1 .. n :
                   Nvme!ZeroFrom(i) /\ i < n /\ samples[n].at - samples[i].at >= Recovery
                      => told'[key].state # "firing")
    <2>1. \A i \in 1 .. n : Nvme!ClearedSince(i)' <=>
            Nvme!ZeroFrom(i) /\ i < n /\ samples[n].at - samples[i].at >= Recovery
      BY <1>1, <1>5 DEF Nvme!ClearedSince, Nvme!ZeroFrom, Nvme!Reads
    <2> QED
      BY <1>1, <1>3, <1>4, <1>5, <2>1 DEF Nvme!WarningBitsTold, Nvme!Quiet
  <1>12. CASE ObserveNew(poller) \/ ObserveAgain(poller)
    <2>1. /\ c.op = "observe" /\ told'[key].state = "firing"
          /\ \/ told'[key].severity = c.severity /\ told'[key].at = c.at
             \/ told' = told /\ c.at - told'[key].at < ReNotify
      BY <1>4, <1>12, PollerFacts, ObserveFacts
    <2>5. n \in 1 .. n
      BY <1>4, <1>7
    <2>6. Nvme!ToldAsRead'
      BY <1>1, <1>4, <1>5, <2>1, <2>5
         DEF Nvme!NvmeInv, Nvme!LevelsTold, Nvme!ToldAsRead, Nvme!SeverityOf
    <2>2. metric = "critical_warning" => \A i \in 1 .. n : ~Nvme!ZeroFrom(i)
      BY <1>4, <1>8, <2>1
    <2>3. Nvme!WindowCoversZeros' /\ Nvme!WarningBitsTold'
      BY <1>10, <1>11, <2>1, <2>2
    <2>4. Nvme!LevelsTold'
      BY <1>1, <1>4, <1>5, <2>1, <2>6 DEF Nvme!LevelsTold
    <2> QED
      BY <1>2, <1>6, <2>3, <2>4 DEF Nvme!NvmeInv
  <1>13. CASE ObserveOk(poller)
    <2>1. c.op = "observe_ok" /\ c.at \in Nat /\ samples[n].value = 0
      BY <1>4, <1>13, PollerFacts, ObserveOkFacts
    <2>2. metric = "critical_warning" /\ key \in DOMAIN entries =>
            \A i \in 1 .. n : Nvme!ZeroFrom(i) /\ i < n =>
               entries[key].ok_since # None /\ entries[key].ok_since =< samples[i].at
      BY DEF Nvme!NvmeInv, Nvme!WindowCoversZeros
    <2>8. told'[key].state # "firing" \/ told' = told
      BY <1>4, <1>13, PollerFacts, ObserveOkFacts
    <2>9. Nvme!ToldAsRead'
      BY <1>1, <1>5, <2>8 DEF Nvme!NvmeInv, Nvme!LevelsTold, Nvme!ToldAsRead, Nvme!SeverityOf
    <2>7. Nvme!LevelsTold'
      BY <1>1, <1>5, <2>1, <2>9 DEF Nvme!LevelsTold
    <2> HIDE DEF n, c
    <2>3. (\A i \in 1 .. n : i < n \/ i = n) /\ ~(n < n)
      BY <1>7
    <2> SUFFICES ASSUME metric = "critical_warning"
                 PROVE  Nvme!WindowCoversZeros' /\ Nvme!WarningBitsTold'
      BY <1>2, <1>6, <1>9, <2>7 DEF Nvme!NvmeInv
    <2>4. CASE key \notin DOMAIN entries' /\ told'[key].state # "firing"
      BY <1>10, <1>11, <2>1, <2>4
    <2>5. CASE /\ key \in DOMAIN entries /\ entries[key].ok_since = None
               /\ entries'[key].ok_since = c.at
      <3>1. \A i \in 1 .. n : Nvme!ZeroFrom(i) => i = n
        BY <2>2, <2>3, <2>5
      <3>2. entries'[key].ok_since # None /\ entries'[key].ok_since =< samples[n].at
        BY <1>4, <2>1, <2>5, PollerFacts
      <3>3. Nvme!WindowCoversZeros'
        BY <1>10, <3>1, <3>2, Zenon
      <3>4. \A i \in 1 .. n : ~(Nvme!ZeroFrom(i) /\ i < n)
        BY <2>3, <3>1, Zenon
      <3>5. Nvme!WarningBitsTold'
        BY <1>11, <2>1, <3>4
      <3> QED
        BY <3>3, <3>5
    <2>6. CASE /\ key \in DOMAIN entries /\ entries' = entries
               /\ entries[key].ok_since \in Nat /\ entries[key].ok_since =< c.at
               /\ c.at - entries[key].ok_since < Recovery
      <3>1. \A i \in 1 .. n : Nvme!ZeroFrom(i) =>
              entries[key].ok_since # None /\ entries[key].ok_since =< samples[i].at
        <4> SUFFICES ASSUME NEW i \in 1 .. n, Nvme!ZeroFrom(i)
                     PROVE  /\ entries[key].ok_since # None
                            /\ entries[key].ok_since =< samples[i].at
          OBVIOUS
        <4>1. CASE i < n
          BY <2>2, <2>6, <4>1
        <4>2. CASE i = n
          BY <1>4, <2>6, <4>2, PollerFacts
        <4> QED
          BY <2>3, <4>1, <4>2
      <3>2. ASSUME NEW i \in 1 .. n, Nvme!ZeroFrom(i)
            PROVE  ~(samples[n].at - samples[i].at >= Recovery)
        <4>1. entries[key].ok_since =< samples[i].at /\ samples[i].at \in Nat
          BY <1>7, <3>1, <3>2
        <4> QED
          BY <1>4, <2>1, <2>6, <4>1, PollerFacts
      <3>3. Nvme!WarningBitsTold'
        BY <1>11, <2>1, <3>2
      <3>4. Nvme!WindowCoversZeros'
        BY <1>10, <2>6, <3>1
      <3> QED
        BY <3>3, <3>4
    <2> QED
      BY <1>4, <1>13, <2>4, <2>5, <2>6, PollerFacts, ObserveOkFacts DEF c
  <1> QED
    BY <1>1, <1>12, <1>13

\* Each step of poll_one, of the drive or of the clock preserves NvmeInv.
LEMMA NvmeNextInv == IInv /\ Nvme!NvmeInv /\ Nvme!NvmeNext => IInv' /\ Nvme!NvmeInv'
  <1> SUFFICES ASSUME IInv, Nvme!NvmeInv, Nvme!NvmeNext PROVE IInv' /\ Nvme!NvmeInv'
    OBVIOUS
  <1>0. now \in Nat /\ value \in Nvme!Values
    BY DEF IInv, TypeOK, Nvme!NvmeInv, Nvme!SamplesPast
  <1>1. CASE (\E v \in Nvme!Values : Nvme!DriveChanges(v)) \/ Nvme!PollFails
    <2>1. /\ UNCHANGED vars /\ UNCHANGED <<metric, last_err_log, samples, observed>>
          /\ value' \in Nvme!Values
      BY <1>0, <1>1, NvmeTracker DEF Nvme!DriveChanges, Nvme!PollFails, Nvme!PollTick
    <2>2. IInv'
      BY <2>1, PollerIInv
    <2> QED
      BY <1>0, <2>1, <2>2, NvmeStill DEF vars
  <1>2. CASE Nvme!Clock
    <2>1. Tick /\ UNCHANGED <<metric, value, last_err_log, samples, observed>>
      BY <1>2, NvmeTracker DEF Nvme!Clock, Nvme!nvmeVars
    <2>2. IInv'
      BY <2>1, PollerIInv
    <2>3. now' \in Nat /\ now =< now'
      BY <1>0, <2>1 DEF Tick
    <2> QED
      BY <1>0, <2>1, <2>2, <2>3, NvmeStill DEF Tick
  <1> QED
    BY <1>1, <1>2, NvmePollInv, NvmeTrackerInv DEF Nvme!NvmeNext

-----------------------------------------------------------------------------
(* HealthPollers.                                                          *)

\* A reading is raised with a severity, or fine.
LEMMA HealthSeverity ==
    ASSUME NEW k, NEW r \in Health!Readings(k)
    PROVE  Health!SeverityOf(k, r) \in Severities \cup {None}
  <1>1. CASE k = "smart_attr"
    BY <1>1, PollerFacts DEF Health!SeverityOf, Health!AttrSeverity, Health!Readings, Health!Attrs
  <1>2. \A h : Health!RedfishSeverity(h) \in Severities \cup {None}
    BY PollerFacts DEF Health!RedfishSeverity
  <1>3. CASE k = "fan_unhealthy"
    BY <1>2, <1>3, PollerFacts DEF Health!SeverityOf, Health!FanSeverity
  <1>4. CASE k = "psu_unhealthy"
    BY <1>2, <1>4, PollerFacts DEF Health!SeverityOf, Health!PsuSeverity
  <1>5. CASE k \notin {"smart_attr", "fan_unhealthy", "psu_unhealthy"}
    <2>1. Health!SeverityOf(k, r) = IF r THEN Health!Fixed(k) ELSE None
      BY <1>5 DEF Health!SeverityOf
    <2>2. Health!Fixed(k) \in Severities
      BY PollerFacts DEF Health!Fixed
    <2> QED
      BY <2>1, <2>2
  <1> QED
    BY <1>1, <1>3, <1>4, <1>5

\* Before the first poll no check has a reading and nothing was told.
LEMMA HealthInitInv == Health!HealthInit => IInv /\ Health!HealthInv
  <1> SUFFICES ASSUME Health!HealthInit PROVE IInv /\ Health!HealthInv
    OBVIOUS
  <1>1. /\ Init /\ samples = <<>> /\ check \in Health!Checks
        /\ reading \in Health!Readings(check)
    BY HealthTracker DEF Health!HealthInit
  <1>2. call[poller] = None /\ told[key].state = "silent"
    BY <1>1, PollerFacts DEF Init
  <1> DEFINE R == [at : Nat, reading : Health!Readings(check)]
  <1> HIDE DEF R
  <1>3. <<>> \in Seq(R) /\ Len(<<>>) = 0
    OBVIOUS
  <1>4. Health!Reads = 0 /\ samples \in Seq(R)
    BY <1>1, <1>3 DEF Health!Reads
  <1>5. ~(Health!Reads > 0)
    BY <1>4
  <1> QED
    BY <1>1, <1>2, <1>4, <1>5, InitIInv
       DEF Health!HealthInv, Health!ReadingsTyped, Health!CallAboutLast,
           Health!EscalationTold, R

\* The checks take a reading and raise it, or find it fine.
LEMMA HealthPollInv ==
    ASSUME IInv, Health!HealthInv, Health!PollOk
    PROVE  IInv' /\ Health!HealthInv'
  <1> DEFINE n == Health!Reads
             sev == Health!SeverityOf(check, reading)
             r == [at |-> now, reading |-> reading]
             R == [at : Nat, reading : Health!Readings(check)]
  <1>1. /\ call[poller] = None /\ now \in Nat /\ UNCHANGED <<check, reading>>
        /\ IF sev = None THEN UNCHANGED vars ELSE Call(poller, "observe", key, sev)
        /\ samples' = Append(samples, r)
    <2>1. Health!Call(poller, "observe", key, sev) => Call(poller, "observe", key, sev)
      BY HealthTracker, Zenon
    <2>2. UNCHANGED Health!vars => UNCHANGED vars
      BY HealthTracker
    <2> QED
      BY <2>1, <2>2 DEF Health!PollOk, Health!PollTick, IInv, TypeOK
  <1>2. now' = now /\ told' = told
    BY <1>1 DEF Call, vars
  <1>3. sev \in Severities \cup {None}
    BY HealthSeverity DEF Health!HealthInv, Health!ReadingsTyped
  <1>4. /\ samples \in Seq(R) /\ n = Len(samples) /\ reading \in Health!Readings(check)
        /\ check \in Health!Checks
    BY DEF Health!HealthInv, Health!ReadingsTyped, Health!Reads
  <1>5. r \in R /\ r.at = now /\ r.reading = reading
    BY <1>1, <1>4
  <1> HIDE DEF r, R, sev
  <1>6. IInv'
    BY <1>1, <1>3, PollerFacts, PollerIInv DEF Operations
  <1>7. /\ n \in Nat /\ samples' \in Seq(R) /\ Len(samples') = n + 1
        /\ samples'[n + 1] = r /\ \A i \in 1 .. n : samples'[i] = samples[i]
    BY <1>1, <1>4, <1>5, AppendProperties, LenProperties
  <1>8. /\ Health!Reads' = n + 1 /\ n + 1 > 0 /\ 1 .. n \subseteq 1 .. n + 1
        /\ samples'[n + 1].at = now /\ samples'[n + 1].reading = reading
    BY <1>5, <1>7 DEF Health!Reads
  <1>9. told[key].state # "silent" =>
          /\ told[key].state = "firing"
          /\ \E i \in 1 .. n : /\ samples[i].at = told[key].at
                               /\ Health!SeverityOf(check, samples[i].reading) = told[key].severity
    BY DEF Health!HealthInv, Health!EscalationTold
  <1> HIDE DEF n
  <1>10. Health!ReadingsTyped'
    BY <1>1, <1>4, <1>7 DEF Health!ReadingsTyped, R
  <1>11. told'[key].state # "silent" =>
          /\ told'[key].state = "firing"
          /\ \E i \in 1 .. n + 1 :
                /\ samples'[i].at = told'[key].at
                /\ Health!SeverityOf(check', samples'[i].reading) = told'[key].severity
    <2> SUFFICES ASSUME told[key].state # "silent"
                 PROVE  /\ told[key].state = "firing"
                        /\ \E i \in 1 .. n + 1 :
                             /\ samples'[i].at = told[key].at
                             /\ Health!SeverityOf(check, samples'[i].reading) = told[key].severity
      BY <1>1, <1>2
    <2>1. PICK i \in 1 .. n :
             /\ samples[i].at = told[key].at
             /\ Health!SeverityOf(check, samples[i].reading) = told[key].severity
      BY <1>9
    <2> QED
      BY <1>7, <1>8, <1>9, <2>1
  <1>12. CASE sev = None
    <2>1. call' = call
      BY <1>1, <1>12 DEF vars
    <2>2. Health!CallAboutLast'
      BY <1>1, <2>1 DEF Health!CallAboutLast
    <2>3. Health!SeverityOf(check', samples'[n + 1].reading) = None
      BY <1>1, <1>8, <1>12 DEF sev
    <2>4. Health!EscalationTold'
      BY <1>8, <1>11, <2>3 DEF Health!EscalationTold
    <2> QED
      BY <1>6, <1>10, <2>2, <2>4 DEF Health!HealthInv
  <1>13. CASE sev # None
    <2>1. call'[poller] = [op |-> "observe", fp |-> key, severity |-> sev, at |-> now]
      BY <1>1, <1>13, PollerFacts DEF Call, IInv, TypeOK
    <2>2. call'[poller] \in CallRecord
      BY <1>1, <1>3, <1>13, <2>1, PollerFacts DEF CallRecord
    <2>3. /\ call'[poller].op = "observe" /\ call'[poller].fp = key
          /\ call'[poller].severity = sev /\ call'[poller].at = now
      BY <2>1
    <2>4. sev = Health!SeverityOf(check', samples'[n + 1].reading)
      BY <1>1, <1>8 DEF sev
    <2>5. Health!CallAboutLast'
      BY <1>8, <2>3, <2>4 DEF Health!CallAboutLast
    <2>6. Health!EscalationTold'
      BY <1>8, <1>11, <2>2, PollerFacts DEF Health!EscalationTold, Health!Quiet
    <2> QED
      BY <1>6, <1>10, <2>5, <2>6 DEF Health!HealthInv
  <1> QED
    BY <1>12, <1>13

\* The tracker's critical section, for the reading just raised.
LEMMA HealthTrackerInv ==
    ASSUME IInv, Health!HealthInv, Health!TrackerStep
    PROVE  IInv' /\ Health!HealthInv'
  <1> DEFINE n == Health!Reads
             c == call[poller]
             sev == Health!SeverityOf(check, samples[n].reading)
  <1>1. /\ ObserveNew(poller) \/ ObserveAgain(poller)
        /\ UNCHANGED <<check, reading, samples>>
    BY HealthTracker DEF Health!TrackerStep, Health!healthVars
  <1>2. IInv'
    BY <1>1, PollerIInv
  <1>3. /\ c # None /\ call'[poller] = None
        /\ told'[c.fp].state = "firing"
        /\ \/ told'[c.fp].at = c.at /\ told'[c.fp].severity = c.severity
           \/ told' = told /\ c.at - told[c.fp].at < ReNotify
    BY <1>1, PollerFacts, ObserveFacts DEF IInv, TypeOK
  <1>4. n > 0 /\ c.fp = key /\ c.at = samples[n].at /\ c.severity = sev
    BY <1>3 DEF Health!HealthInv, Health!CallAboutLast
  <1>5. n \in Nat /\ n \in 1 .. n
    <2>1. n = Len(samples) /\ samples \in Seq([at : Nat, reading : Health!Readings(check)])
      BY DEF Health!HealthInv, Health!ReadingsTyped, Health!Reads
    <2>2. n \in Nat
      BY <2>1, LenProperties
    <2> QED
      BY <1>4, <2>2
  <1>6. told[key].state # "silent" =>
          \E i \in 1 .. n : /\ samples[i].at = told[key].at
                            /\ Health!SeverityOf(check, samples[i].reading) = told[key].severity
    BY DEF Health!HealthInv, Health!EscalationTold
  <1>7. Health!ReadingsTyped' /\ Health!CallAboutLast' /\ Health!Reads' = n
    BY <1>1, <1>3 DEF Health!HealthInv, Health!ReadingsTyped, Health!CallAboutLast, Health!Reads
  <1> HIDE DEF n, c
  <1>8. \E i \in 1 .. n : /\ samples[i].at = told'[key].at
                          /\ Health!SeverityOf(check, samples[i].reading) = told'[key].severity
    <2>1. CASE told'[key].at = c.at /\ told'[key].severity = c.severity
      BY <1>4, <1>5, <2>1
    <2>2. CASE told' = told
      BY <1>3, <1>4, <1>6, <2>2
    <2> QED
      BY <1>3, <1>4, <2>1, <2>2
  <1>9. \/ told'[key].severity = sev /\ told'[key].state = "firing"
        \/ told'[key].state = "firing" /\ samples[n].at - told'[key].at < ReNotify
    BY <1>3, <1>4
  <1> HIDE DEF sev
  <1>10. sev = Health!SeverityOf(check', samples'[n].reading)
    BY <1>1 DEF sev
  <1>11. Health!EscalationTold'
    BY <1>1, <1>3, <1>4, <1>7, <1>8, <1>9, <1>10 DEF Health!EscalationTold
  <1> QED
    BY <1>2, <1>7, <1>11 DEF Health!HealthInv

\* Each step of a health poll, of the device or of the clock preserves HealthInv.
LEMMA HealthNextInv == IInv /\ Health!HealthInv /\ Health!HealthNext => IInv' /\ Health!HealthInv'
  <1> SUFFICES ASSUME IInv, Health!HealthInv, Health!HealthNext PROVE IInv' /\ Health!HealthInv'
    OBVIOUS
  <1>1. ASSUME UNCHANGED <<entries, call, told, check, samples>>,
               reading' \in Health!Readings(check)
        PROVE  Health!HealthInv'
    BY <1>1 DEF Health!HealthInv, Health!ReadingsTyped, Health!CallAboutLast,
                Health!EscalationTold, Health!Reads, Health!Quiet
  <1>2. CASE (\E r \in Health!Readings(check) : Health!DeviceChanges(r)) \/ Health!PollFails
    <2>1. /\ UNCHANGED vars /\ UNCHANGED <<check, samples>>
          /\ reading' \in Health!Readings(check)
      BY <1>2, HealthTracker
         DEF Health!DeviceChanges, Health!PollFails, Health!PollTick, Health!HealthInv,
             Health!ReadingsTyped
    <2>2. IInv'
      BY <2>1, PollerIInv
    <2> QED
      BY <1>1, <2>1, <2>2 DEF vars
  <1>3. CASE Health!Clock
    <2>1. Tick /\ UNCHANGED <<check, reading, samples>>
      BY <1>3, HealthTracker DEF Health!Clock, Health!healthVars
    <2>2. IInv'
      BY <2>1, PollerIInv
    <2> QED
      BY <1>1, <2>1, <2>2 DEF Tick, Health!HealthInv, Health!ReadingsTyped
  <1> QED
    BY <1>2, <1>3, HealthPollInv, HealthTrackerInv DEF Health!HealthNext

-----------------------------------------------------------------------------
(* ThermalMonitor.                                                         *)

\* A set of naturals that is not empty has a least element.
LEMMA LeastNat ==
    ASSUME NEW S \in SUBSET Nat, S # {}
    PROVE  \E x \in S : \A y \in S : x =< y
  <1> DEFINE Less == {p \in Nat \X Nat : p[1] < p[2]}
  <1>1. IsWellFoundedOn(Less, Nat)
    BY NatLessThanWellFounded DEF OpToRel
  <1>2. \A x, y \in Nat : x < y => <<x, y>> \in Less
    OBVIOUS
  <1> HIDE DEF Less
  <1>3. PICK x \in S : \A y \in S : ~(<<y, x>> \in Less)
    BY <1>1, WFMin
  <1>4. \A y \in S : ~(y < x)
    BY <1>2, <1>3
  <1> QED
    BY <1>4

\* The stable sort has a first row, of the highest priority.
LEMMA FirstRow ==
    ASSUME NEW S \in SUBSET Thermal!Rated, S # {}
    PROVE  Thermal!FirstSorted(S) \in S
  <1> DEFINE Levels == {1000, 900, 850, 300, 100}
             P == [i \in S |-> Thermal!Priority(Rows[i])]
  <1>1. S \subseteq Nat /\ P \in [S -> Levels]
    <2>1. ASSUME NEW i \in S
          PROVE  i \in 1 .. Len(Rows) /\ Thermal!Priority(Rows[i]) \in Levels
      <3>1. i \in 1 .. Len(Rows) /\ Rows[i] # "other"
        BY DEF Thermal!Rated, Thermal!Indices
      <3>2. Rows[i] \in {"ambient", "room", "inlet_temp", "inlet", "psu_inlet", "other"}
        BY <3>1, PollersAssumption, ElementOfSeq
      <3> QED
        BY <3>1, <3>2 DEF Thermal!Priority
    <2> QED
      BY <2>1
  <1> HIDE DEF P
  <1>2. PICK p \in Levels : (\E i \in S : P[i] = p) /\ \A j \in S : P[j] =< p
    <2>2. \A j \in S : \/ P[j] = 1000 \/ P[j] = 900 \/ P[j] = 850 \/ P[j] = 300 \/ P[j] = 100
      BY <1>1
    <2> QED
      BY <2>2
  <1> DEFINE T == {i \in S : P[i] = p}
  <1>3. T \in SUBSET Nat /\ T # {}
    <2>1. PICK i \in S : P[i] = p
      BY <1>2
    <2>2. T \subseteq S
      OBVIOUS
    <2>3. i \in T
      BY <2>1
    <2> HIDE DEF T
    <2> QED
      BY <1>1, <2>2, <2>3
  <1>4. PICK i \in T : \A j \in T : i =< j
    <2> HIDE DEF T
    <2> QED
      BY <1>3, LeastNat
  <1>5. i \in S /\ \A j \in S : P[i] > P[j] \/ (P[i] = P[j] /\ i =< j)
    BY <1>1, <1>2, <1>4
  <1>6. \A j \in S : Thermal!SortedBefore(i, j)
    BY <1>5 DEF Thermal!SortedBefore, P
  <1> QED
    BY <1>5, <1>6 DEF Thermal!FirstSorted

\* read_inlet_temp takes a row with a reading, and a PSU inlet only when there
\* is no other.
LEMMA InletRowFacts ==
    ASSUME Thermal!InletRow # None
    PROVE  /\ Thermal!InletRow \in Thermal!Rated
           /\ Rows[Thermal!InletRow] = "psu_inlet" =>
                 \A i \in Thermal!Rated : Rows[i] = "psu_inlet"
  <1> DEFINE k == Thermal!InletRow
  <1>1. Thermal!TakenInLoop \subseteq Thermal!Rated
    BY DEF Thermal!TakenInLoop
  <1>2. CASE Thermal!TakenInLoop # {}
    <2>1. k \in Thermal!TakenInLoop
      BY <1>1, <1>2, FirstRow DEF Thermal!InletRow
    <2>2. Rows[k] # "psu_inlet"
      BY <2>1 DEF Thermal!TakenInLoop, Thermal!Priority
    <2> QED
      BY <1>1, <2>1, <2>2
  <1>3. CASE Thermal!TakenInLoop = {}
    <2>1. Thermal!Rated # {} /\ k = Thermal!FirstSorted(Thermal!Rated)
      BY <1>3 DEF Thermal!InletRow
    <2>2. k \in Thermal!Rated
      BY <2>1, FirstRow
    <2>3. ASSUME NEW i \in Thermal!Rated PROVE Rows[i] = "psu_inlet"
      <3>1. i \in 1 .. Len(Rows) /\ Rows[i] # "other"
        BY DEF Thermal!Rated, Thermal!Indices
      <3>2. Rows[i] \in {"ambient", "room", "inlet_temp", "inlet", "psu_inlet", "other"}
        BY <3>1, PollersAssumption, ElementOfSeq
      <3>3. SUFFICES ASSUME Rows[i] \in {"ambient", "room", "inlet_temp", "inlet"} PROVE FALSE
        BY <3>1, <3>2
      <3>4. Thermal!Priority(Rows[i]) >= 300
        BY <3>3 DEF Thermal!Priority
      <3>5. i \in Thermal!TakenInLoop
        BY <3>3, <3>4 DEF Thermal!TakenInLoop
      <3> QED
        BY <1>3, <3>5
    <2> QED
      BY <2>2, <2>3
  <1> QED
    BY <1>2, <1>3

\* A tier has a fingerprint of the loop.
LEMMA TierFacts ==
    ASSUME NEW k \in 1 .. 3
    PROVE  /\ Thermal!Tier(k) \in Fingerprints /\ Thermal!SeverityOf(k) \in Severities
           /\ Thermal!Tier(k) # "cpu_throttle"
  <1>1. k = 1 \/ k = 2 \/ k = 3
    OBVIOUS
  <1>2. Thermal!Tier(k) \in ThermalMetrics /\ Thermal!Tier(k) # "cpu_throttle"
    BY <1>1 DEF Thermal!Tier, ThermalMetrics
  <1> QED
    BY <1>2, PollersAssumption, PollerFacts DEF Thermal!SeverityOf

\* Before the first poll no tier was read and no throttle counter known.
LEMMA ThermalInitInv == Thermal!ThermalInit => IInv /\ Thermal!ThermalInv
  <1> SUFFICES ASSUME Thermal!ThermalInit PROVE IInv /\ Thermal!ThermalInv
    OBVIOUS
  <1>1. /\ Init /\ temps \in [Thermal!Indices -> {0, 2}] /\ tier = 0 /\ read = None
        /\ throttles \in 0 .. 1 /\ last_throttle = None /\ delta = 0
        /\ reported = 0 /\ suppressed = 0 /\ base = None
    BY ThermalTracker DEF Thermal!ThermalInit
  <1>2. call[poller] = None
    BY <1>1, PollerFacts DEF Init
  <1>3. Thermal!ReadingsTyped
    BY <1>1 DEF Thermal!ReadingsTyped, Thermal!Tiers
  <1>4. told["cpu_throttle"].state = "silent"
    BY <1>1, PollersAssumption DEF Init, ThermalMetrics
  <1>5. Thermal!NoticedInAll
    BY <1>1, <1>4 DEF Thermal!NoticedInAll, Thermal!Gained
  <1> QED
    BY <1>1, <1>2, <1>3, <1>5, InitIInv
       DEF Thermal!ThermalInv, Thermal!CallAboutTier, Thermal!CountersOrdered, Thermal!TierTold

\* Nothing to decide on and nothing read: the loop's own facts stay.
LEMMA ThermalStill ==
    ASSUME Thermal!ThermalInv, UNCHANGED <<call, told, read, read_at, tier, alone>>,
           UNCHANGED <<last_throttle, delta, reported, suppressed, base>>
    PROVE  Thermal!CallAboutTier' /\ Thermal!NoticedInAll' /\ Thermal!TierTold'
  BY DEF Thermal!ThermalInv, Thermal!CallAboutTier, Thermal!NoticedInAll, Thermal!Gained,
         Thermal!TierTold

\* The counters once the tick has read the core's counter.
LEMMA ThrottleCheckFacts ==
    ASSUME Thermal!CountersOrdered, Thermal!NoticedInAll, delta = 0,
           last_throttle' = throttles,
           base' = IF last_throttle = None THEN throttles ELSE base,
           delta' = IF throttles > Thermal!PrevThrottle
                    THEN throttles - Thermal!PrevThrottle ELSE 0,
           UNCHANGED <<throttles, reported, suppressed>>
    PROVE  /\ Thermal!CountersOrdered'
           /\ reported' + suppressed' + delta' = Thermal!Gained'
  <1>1. throttles \in Nat /\ throttles # None /\ reported \in Nat /\ suppressed \in Nat
    BY PollerFacts DEF Thermal!CountersOrdered
  <1>2. CASE last_throttle = None
    <2>1. base' = throttles /\ delta' = 0 /\ reported + suppressed = 0
      BY <1>1, <1>2
         DEF Thermal!PrevThrottle, Thermal!CountersOrdered, Thermal!NoticedInAll, Thermal!Gained
    <2> QED
      BY <1>1, <2>1 DEF Thermal!CountersOrdered, Thermal!Gained
  <1>3. CASE last_throttle # None
    <2>1. /\ base # None /\ base \in Nat /\ last_throttle \in Nat /\ base =< last_throttle
          /\ last_throttle =< throttles /\ reported + suppressed = last_throttle - base
      BY <1>1, <1>3 DEF Thermal!CountersOrdered, Thermal!NoticedInAll, Thermal!Gained
    <2>2. base' = base /\ delta' = throttles - last_throttle
      BY <1>1, <1>3, <2>1 DEF Thermal!PrevThrottle
    <2> QED
      BY <1>1, <2>1, <2>2 DEF Thermal!CountersOrdered, Thermal!Gained
  <1> QED
    BY <1>2, <1>3

\* The tick: the throttle counter is read, or its file cannot be.
LEMMA ThermalThrottleInv ==
    ASSUME IInv, Thermal!ThermalInv, Thermal!PollThrottle
    PROVE  IInv' /\ Thermal!ThermalInv'
  <1>1. /\ call[poller] = None /\ now \in Nat /\ "cpu_throttle" \in Fingerprints
        /\ "warning" \in Severities
        /\ UNCHANGED <<temps, read, read_at, tier, alone, throttles, reported, suppressed>>
    BY PollersAssumption
       DEF Thermal!PollThrottle, Thermal!inletVars, IInv, TypeOK, ThermalMetrics
  <1>2. delta = 0 /\ delta \in Nat
    BY <1>1 DEF Thermal!ThermalInv, Thermal!CallAboutTier, Thermal!CountersOrdered
  <1>3. Thermal!ReadingsTyped'
    BY <1>1 DEF Thermal!ThermalInv, Thermal!ReadingsTyped
  <1>4. CASE UNCHANGED <<Thermal!vars, last_throttle, base, delta>>
    <2>1. UNCHANGED vars /\ UNCHANGED <<last_throttle, base, delta>>
      BY <1>4, ThermalTracker
    <2>2. IInv'
      BY <2>1, PollerIInv
    <2>3. Thermal!CountersOrdered'
      BY <1>1, <2>1 DEF Thermal!ThermalInv, Thermal!CountersOrdered
    <2>4. UNCHANGED <<call, told>>
      BY <2>1 DEF vars
    <2> QED
      BY <1>1, <1>3, <2>1, <2>2, <2>3, <2>4, ThermalStill DEF Thermal!ThermalInv
  <1>5. CASE Thermal!ThrottleCheck
    <2>1. /\ last_throttle' = throttles
          /\ base' = IF last_throttle = None THEN throttles ELSE base
          /\ delta' = IF throttles > Thermal!PrevThrottle
                      THEN throttles - Thermal!PrevThrottle ELSE 0
      BY <1>5 DEF Thermal!ThrottleCheck
    <2>2. IF delta' > 0 THEN Call(poller, "observe", "cpu_throttle", "warning")
          ELSE UNCHANGED vars
      <3>1. Thermal!Call(poller, "observe", "cpu_throttle", "warning")
              => Call(poller, "observe", "cpu_throttle", "warning")
        BY ThermalTracker, Zenon
      <3>2. UNCHANGED Thermal!vars => UNCHANGED vars
        BY ThermalTracker
      <3> QED
        BY <1>5, <3>1, <3>2 DEF Thermal!ThrottleCheck
    <2>3. Thermal!CountersOrdered' /\ reported' + suppressed' + delta' = Thermal!Gained'
      BY <1>1, <1>2, <2>1, ThrottleCheckFacts DEF Thermal!ThermalInv
    <2>4. IInv'
      <3>1. CASE delta' > 0
        BY <1>1, <2>2, <3>1, PollerIInv DEF Operations
      <3>2. CASE ~(delta' > 0)
        BY <2>2, <3>2, PollerIInv
      <3> QED
        BY <3>1, <3>2
    <2>5. UNCHANGED told
      BY <2>2 DEF Call, vars
    <2>6. Thermal!NoticedInAll'
      <3>1. told'["cpu_throttle"].state = "firing" <=> reported' > 0
        BY <1>1, <2>5 DEF Thermal!ThermalInv, Thermal!NoticedInAll
      <3>2. suppressed' > 0 => reported' > 0
        BY <1>1 DEF Thermal!ThermalInv, Thermal!NoticedInAll
      <3> QED
        BY <2>3, <3>1, <3>2 DEF Thermal!NoticedInAll
    <2>7. CASE delta' > 0
      <3>1. call'[poller] = [op |-> "observe", fp |-> "cpu_throttle", severity |-> "warning",
                             at |-> now]
        BY <2>2, <2>7, PollerFacts DEF Call, IInv, TypeOK
      <3>2. call'[poller] \in CallRecord
        BY <1>1, <3>1 DEF CallRecord
      <3>3. /\ call'[poller] # None
            /\ call'[poller].op = "observe" /\ call'[poller].fp = "cpu_throttle"
        BY <3>1, <3>2, PollerFacts
      <3>4. Thermal!CallAboutTier'
        BY <2>7, <3>3 DEF Thermal!CallAboutTier
      <3>5. Thermal!TierTold'
        BY <1>1, <2>5 DEF Thermal!ThermalInv, Thermal!TierTold
      <3> QED
        BY <1>3, <2>3, <2>4, <2>6, <3>4, <3>5 DEF Thermal!ThermalInv
    <2>8. CASE ~(delta' > 0)
      <3>1. call' = call
        BY <2>2, <2>8 DEF vars
      <3>2. Thermal!CallAboutTier'
        BY <1>1, <2>8, <3>1 DEF Thermal!CallAboutTier
      <3>3. Thermal!TierTold'
        BY <1>1, <2>5, <3>1 DEF Thermal!ThermalInv, Thermal!TierTold
      <3> QED
        BY <1>3, <2>3, <2>4, <2>6, <3>2, <3>3 DEF Thermal!ThermalInv
    <2> QED
      BY <2>7, <2>8
  <1> QED
    BY <1>4, <1>5 DEF Thermal!PollThrottle

\* A poll that finds an inlet reading.
LEMMA ThermalPollInv ==
    ASSUME IInv, Thermal!ThermalInv, Thermal!PollInlet
    PROVE  IInv' /\ Thermal!ThermalInv'
  <1> DEFINE k == temps[Thermal!InletRow]
             sev == Thermal!SeverityOf(k)
             f == Thermal!Tier(k)
  <1>1. /\ call[poller] = None /\ now \in Nat
        /\ UNCHANGED <<temps, throttles, last_throttle, delta, reported, suppressed, base>>
        /\ Thermal!InletRow # None /\ read' = Thermal!InletRow /\ read_at' = now /\ tier' = k
        /\ alone' = (\A i \in Thermal!Rated : Rows[i] = "psu_inlet")
    BY DEF Thermal!PollInlet, Thermal!InletTurn, Thermal!throttleVars, IInv, TypeOK
  <1>2. IF k > 0 THEN Call(poller, "observe", f, sev) ELSE UNCHANGED vars
    <2>1. Thermal!Call(poller, "observe", f, sev) => Call(poller, "observe", f, sev)
      BY ThermalTracker, Zenon
    <2>2. UNCHANGED Thermal!vars => UNCHANGED vars
      BY ThermalTracker
    <2> QED
      BY <1>1, <2>1, <2>2 DEF Thermal!PollInlet, Thermal!MetricOf
  <1>3. k \in 0 .. 3
    <2>1. Thermal!InletRow \in Thermal!Indices /\ k # None
      BY <1>1, InletRowFacts DEF Thermal!Rated
    <2> QED
      BY <2>1 DEF Thermal!ThermalInv, Thermal!ReadingsTyped, Thermal!Tiers
  <1>4. Rows[read'] = "psu_inlet" => alone'
    BY <1>1, InletRowFacts
  <1>5. k > 0 => f \in Fingerprints /\ sev \in Severities /\ f # "cpu_throttle"
    BY <1>3, TierFacts
  <1> HIDE DEF sev, f, k
  <1>6. IInv'
    <2>1. CASE k > 0
      BY <1>2, <1>5, <2>1, PollerIInv DEF Operations
    <2>2. CASE ~(k > 0)
      BY <1>2, <2>2, PollerIInv
    <2> QED
      BY <2>1, <2>2
  <1>7. Thermal!ReadingsTyped'
    BY <1>1, <1>3 DEF Thermal!ThermalInv, Thermal!ReadingsTyped, Thermal!Tiers
  <1>8. Thermal!CountersOrdered' /\ Thermal!NoticedInAll' /\ ~(delta' > 0)
    <2>1. UNCHANGED told
      BY <1>2 DEF Call, vars
    <2> QED
      BY <1>1, <2>1
         DEF Thermal!ThermalInv, Thermal!CountersOrdered, Thermal!NoticedInAll, Thermal!Gained,
             Thermal!CallAboutTier
  <1>9. CASE k > 0
    <2>1. call'[poller] = [op |-> "observe", fp |-> f, severity |-> sev, at |-> now]
      BY <1>2, <1>9, PollerFacts DEF Call, IInv, TypeOK
    <2>2. call'[poller] \in CallRecord
      BY <1>1, <1>5, <1>9, <2>1 DEF CallRecord
    <2>3. /\ call'[poller].op = "observe" /\ call'[poller].fp = Thermal!Tier(tier')
          /\ call'[poller].at = read_at' /\ call'[poller].fp # "cpu_throttle"
      BY <1>1, <1>5, <1>9, <2>1 DEF f
    <2>4. Thermal!CallAboutTier'
      BY <1>1, <1>8, <1>9, <2>3 DEF Thermal!CallAboutTier
    <2>5. Thermal!TierTold'
      BY <1>4, <2>2, <2>3, PollerFacts DEF Thermal!TierTold
    <2> QED
      BY <1>6, <1>7, <1>8, <2>4, <2>5 DEF Thermal!ThermalInv
  <1>10. CASE ~(k > 0)
    <2>1. call'[poller] = None /\ ~(tier' > 0)
      BY <1>1, <1>2, <1>10 DEF vars
    <2>2. Thermal!CallAboutTier' /\ Thermal!TierTold'
      BY <1>4, <1>8, <2>1 DEF Thermal!CallAboutTier, Thermal!TierTold
    <2> QED
      BY <1>6, <1>7, <1>8, <2>2 DEF Thermal!ThermalInv
  <1> QED
    BY <1>9, <1>10

\* The tracker decides on the call in progress, about throttling or about a tier.
LEMMA ThermalTrackerInv ==
    ASSUME IInv, Thermal!ThermalInv, Thermal!TrackerStep
    PROVE  IInv' /\ Thermal!ThermalInv'
  <1> DEFINE c == call[poller]
             cpu == "cpu_throttle"
  <1>1. /\ ObserveNew(poller) \/ ObserveAgain(poller)
        /\ delta' = 0
        /\ reported' = reported + IF told' # told THEN delta ELSE 0
        /\ suppressed' = suppressed + IF told' # told THEN 0 ELSE delta
        /\ UNCHANGED <<temps, read, read_at, tier, alone, throttles, last_throttle, base>>
    BY ThermalTracker DEF Thermal!TrackerStep, Thermal!inletVars
  <1>2. IInv'
    BY <1>1, PollerIInv
  <1>3. /\ c # None /\ c.fp \in Fingerprints /\ c.at \in Nat
        /\ call'[poller] = None
        /\ told'[c.fp].state = "firing"
        /\ \A g \in Fingerprints : g # c.fp => told'[g] = told[g]
        /\ \/ told'[c.fp].at = c.at
           \/ told' = told /\ c.at - told[c.fp].at < ReNotify
    BY <1>1, PollerFacts, ObserveFacts DEF IInv, TypeOK
  <1>4. /\ cpu \in Fingerprints /\ delta \in Nat /\ reported \in Nat /\ suppressed \in Nat
        /\ reported + suppressed + delta = Thermal!Gained
        /\ told[cpu].state = "firing" <=> reported > 0
        /\ suppressed > 0 => reported > 0
        /\ tier \in 0 .. 3
    BY PollersAssumption
       DEF Thermal!ThermalInv, Thermal!CountersOrdered, Thermal!NoticedInAll, ThermalMetrics,
           Thermal!ReadingsTyped, Thermal!Tiers
  <1>5. Thermal!ReadingsTyped'
    BY <1>1 DEF Thermal!ThermalInv, Thermal!ReadingsTyped
  <1>6. Thermal!CountersOrdered'
    BY <1>1, <1>4 DEF Thermal!ThermalInv, Thermal!CountersOrdered
  <1>7. Thermal!CallAboutTier'
    BY <1>1, <1>3 DEF Thermal!CallAboutTier
  <1>8. Thermal!Gained' = Thermal!Gained /\ reported' + suppressed' + delta' = Thermal!Gained
    <2>1. Thermal!Gained' = Thermal!Gained
      BY <1>1 DEF Thermal!Gained
    <2>2. CASE told' # told
      BY <1>1, <1>4, <2>1, <2>2
    <2>3. CASE told' = told
      BY <1>1, <1>4, <2>1, <2>3
    <2> QED
      BY <2>2, <2>3
  <1>9. read' # None /\ Rows[read'] = "psu_inlet" => alone'
    BY <1>1 DEF Thermal!ThermalInv, Thermal!TierTold
  <1>10. CASE delta > 0
    <2>1. c.fp = cpu
      BY <1>10 DEF Thermal!ThermalInv, Thermal!CallAboutTier
    <2>2. told'[cpu].state = "firing" /\ reported' > 0
      <3>1. CASE told' # told
        BY <1>1, <1>3, <1>4, <1>10, <2>1, <3>1
      <3>2. CASE told' = told
        BY <1>1, <1>3, <1>4, <2>1, <3>2
      <3> QED
        BY <3>1, <3>2
    <2>3. Thermal!NoticedInAll'
      BY <1>8, <2>2 DEF Thermal!NoticedInAll
    <2>4. tier > 0 => told'[Thermal!Tier(tier)] = told[Thermal!Tier(tier)]
      BY <1>3, <1>4, <2>1, TierFacts
    <2>5. Thermal!TierTold'
      BY <1>1, <1>9, <2>1, <2>4 DEF Thermal!ThermalInv, Thermal!TierTold
    <2> QED
      BY <1>2, <1>5, <1>6, <1>7, <2>3, <2>5 DEF Thermal!ThermalInv
  <1>11. CASE ~(delta > 0)
    <2>1. tier > 0 /\ c.fp = Thermal!Tier(tier) /\ c.at = read_at
      BY <1>3, <1>11 DEF Thermal!ThermalInv, Thermal!CallAboutTier
    <2>2. c.fp # cpu
      BY <1>4, <2>1, TierFacts
    <2>3. told'[cpu] = told[cpu] /\ reported' = reported /\ suppressed' = suppressed
      BY <1>1, <1>3, <1>4, <1>11, <2>2
    <2>4. Thermal!NoticedInAll'
      BY <1>4, <1>8, <2>3 DEF Thermal!NoticedInAll
    <2>5. Thermal!TierTold'
      BY <1>1, <1>3, <1>9, <2>1 DEF Thermal!TierTold
    <2> QED
      BY <1>2, <1>5, <1>6, <1>7, <2>4, <2>5 DEF Thermal!ThermalInv
  <1> QED
    BY <1>10, <1>11

\* Each step of the thermal loop, of a sensor or of the clock preserves ThermalInv.
LEMMA ThermalNextInv ==
    IInv /\ Thermal!ThermalInv /\ Thermal!ThermalNext => IInv' /\ Thermal!ThermalInv'
  <1> SUFFICES ASSUME IInv, Thermal!ThermalInv, Thermal!ThermalNext
               PROVE  IInv' /\ Thermal!ThermalInv'
    OBVIOUS
  <1>1. ASSUME IInv', UNCHANGED <<call, told, read, read_at, tier, alone>>,
               UNCHANGED <<last_throttle, delta, reported, suppressed, base>>,
               Thermal!ReadingsTyped', throttles' \in {throttles, throttles + 1}
        PROVE  IInv' /\ Thermal!ThermalInv'
    <2>1. Thermal!CountersOrdered'
      BY <1>1 DEF Thermal!ThermalInv, Thermal!CountersOrdered
    <2>2. Thermal!CallAboutTier' /\ Thermal!NoticedInAll' /\ Thermal!TierTold'
      BY <1>1, ThermalStill
    <2> QED
      BY <1>1, <2>1, <2>2 DEF Thermal!ThermalInv
  <1>2. ASSUME NEW i \in Thermal!Indices, NEW t \in Thermal!Tiers \cup {None},
               Thermal!TempChanges(i, t)
        PROVE  IInv' /\ Thermal!ThermalInv'
    <2>1. /\ UNCHANGED vars /\ temps' = [temps EXCEPT ![i] = t]
          /\ UNCHANGED <<read, read_at, tier, alone, throttles>>
          /\ UNCHANGED <<last_throttle, delta, reported, suppressed, base>>
      BY <1>2, ThermalTracker DEF Thermal!TempChanges, Thermal!inletVars, Thermal!throttleVars
    <2>2. IInv' /\ UNCHANGED <<call, told>>
      BY <2>1, PollerIInv DEF vars
    <2>3. Thermal!ReadingsTyped'
      BY <1>2, <2>1 DEF Thermal!ThermalInv, Thermal!ReadingsTyped
    <2> QED
      BY <1>1, <2>1, <2>2, <2>3
  <1>3. CASE Thermal!Throttle
    <2>1. /\ UNCHANGED vars /\ throttles' = throttles + 1 /\ UNCHANGED temps
          /\ UNCHANGED <<read, read_at, tier, alone>>
          /\ UNCHANGED <<last_throttle, delta, reported, suppressed, base>>
      BY <1>3, ThermalTracker DEF Thermal!Throttle, Thermal!inletVars, Thermal!throttleVars
    <2>2. IInv' /\ UNCHANGED <<call, told>>
      BY <2>1, PollerIInv DEF vars
    <2>3. Thermal!ReadingsTyped'
      BY <2>1 DEF Thermal!ThermalInv, Thermal!ReadingsTyped
    <2> QED
      BY <1>1, <2>1, <2>2, <2>3
  <1>4. CASE Thermal!Clock
    <2>1. /\ Tick /\ UNCHANGED <<temps, throttles>>
          /\ UNCHANGED <<read, read_at, tier, alone>>
          /\ UNCHANGED <<last_throttle, delta, reported, suppressed, base>>
      BY <1>4, ThermalTracker
         DEF Thermal!Clock, Thermal!thermalVars, Thermal!inletVars, Thermal!throttleVars
    <2>2. IInv' /\ UNCHANGED <<call, told>>
      BY <2>1, PollerIInv DEF Tick
    <2>3. Thermal!ReadingsTyped'
      BY <2>1 DEF Thermal!ThermalInv, Thermal!ReadingsTyped
    <2> QED
      BY <1>1, <2>1, <2>2, <2>3
  <1>5. CASE Thermal!PollNoInlet
    <2>1. /\ UNCHANGED vars /\ UNCHANGED <<temps, throttles>>
          /\ UNCHANGED <<read, read_at, tier, alone>>
          /\ UNCHANGED <<last_throttle, delta, reported, suppressed, base>>
      BY <1>5, ThermalTracker
         DEF Thermal!PollNoInlet, Thermal!InletTurn, Thermal!inletVars, Thermal!throttleVars
    <2>2. IInv' /\ UNCHANGED <<call, told>>
      BY <2>1, PollerIInv DEF vars
    <2>3. Thermal!ReadingsTyped'
      BY <2>1 DEF Thermal!ThermalInv, Thermal!ReadingsTyped
    <2> QED
      BY <1>1, <2>1, <2>2, <2>3
  <1> QED
    BY <1>2, <1>3, <1>4, <1>5, ThermalThrottleInv, ThermalPollInv, ThermalTrackerInv
       DEF Thermal!ThermalNext

\* What the counters owe: nothing is lost, and what was suppressed was fresh.
LEMMA ThrottlesFollow ==
    ASSUME IInv, Thermal!ThermalInv
    PROVE  Thermal!ThrottlesExact
  <1> SUFFICES ASSUME delta = 0 PROVE Thermal!ThrottlesExact
    BY DEF Thermal!ThrottlesExact
  <1>1. /\ "cpu_throttle" \in Fingerprints /\ reported \in Nat /\ suppressed \in Nat
        /\ reported + suppressed = Thermal!Gained
        /\ told["cpu_throttle"].state = "firing" <=> reported > 0
        /\ suppressed > 0 => reported > 0
    BY PollersAssumption
       DEF Thermal!ThermalInv, Thermal!CountersOrdered, Thermal!NoticedInAll, ThermalMetrics
  <1>2. Thermal!Gained > 0 => reported > 0 /\ told["cpu_throttle"].state = "firing"
    BY <1>1
  <1> QED
    BY <1>1, <1>2 DEF Thermal!ThrottlesExact, IInv, NeverSilentTooLong

-----------------------------------------------------------------------------
(* BmcEventlog.                                                            *)

\* A set of naturals that is not empty and has a bound has a greatest element.
LEMMA GreatestNat ==
    ASSUME NEW b \in Nat, NEW S \in SUBSET (0 .. b), S # {}
    PROVE  \E x \in S : \A y \in S : y =< x
  <1> DEFINE T == {b - x : x \in S}
  <1>1. T \in SUBSET Nat /\ T # {}
    <2>1. \A x \in S : b - x \in Nat
      OBVIOUS
    <2>2. T \subseteq Nat
      BY <2>1, Zenon
    <2>3. PICK x \in S : TRUE
      OBVIOUS
    <2> QED
      BY <2>2, <2>3
  <1>2. \A y \in S : b - y \in T
    OBVIOUS
  <1>3. \A z \in T : \E x \in S : z = b - x
    OBVIOUS
  <1> HIDE DEF T
  <1>4. PICK z \in T : \A y \in T : z =< y
    BY <1>1, LeastNat
  <1>5. PICK x \in S : z = b - x
    BY <1>3
  <1>6. ASSUME NEW y \in S PROVE y =< x
    <2>1. b - x =< b - y
      BY <1>2, <1>4, <1>5
    <2>2. x \in Nat /\ y \in Nat
      OBVIOUS
    <2> QED
      BY <2>1, <2>2
  <1> QED
    BY <1>6

\* Every id there can be has its place, after that of the empty string.
LEMMA RankFacts ==
    ASSUME NEW n \in Eventlog!Ids
    PROVE  Rank[n] \in Nat \ {0} /\ Rank[n] =< FirstId + MaxEntries
  <1>1. Rank[n] \in Eventlog!Ids /\ FirstId \in Nat /\ MaxEntries \in Nat
    BY PollersAssumption
  <1> QED
    BY <1>1 DEF Eventlog!Ids

\* The entries of a log, one by one.
LEMMA MemberFacts ==
    ASSUME Eventlog!EntriesTyped, Eventlog!IdsBounded, NEW l \in Eventlog!LogNames,
           NEW m \in Eventlog!MembersOf(l)
    PROVE  /\ m.id \in Eventlog!Ids /\ m.n \in 1 .. written
           /\ Rank[m.id] \in Nat \ {0}
           /\ Rank[m.id] =< FirstId + MaxEntries
  <1> DEFINE R == [id : Nat \ {0}, sev : Eventlog!EntrySeverities, n : Nat \ {0}]
  <1>1. logs[l] \in Seq(R)
    BY DEF Eventlog!EntriesTyped
  <1>2. PICK i \in DOMAIN logs[l] : m = logs[l][i]
    BY DEF Eventlog!MembersOf
  <1>3. m \in R
    <2> HIDE DEF R
    <2>1. DOMAIN logs[l] = 1 .. Len(logs[l])
      BY <1>1
    <2> QED
      BY <1>1, <1>2, <2>1, ElementOfSeq
  <1>4. m.id \in Nat \ {0} /\ m.n \in Nat \ {0}
    BY <1>3
  <1>5. m.id =< FirstId + written /\ m.n =< written /\ written \in 0 .. MaxEntries
    BY DEF Eventlog!IdsBounded, Eventlog!EntriesTyped
  <1>6. FirstId \in Nat /\ MaxEntries \in Nat
    BY PollersAssumption
  <1>7. m.id \in Eventlog!Ids /\ m.n \in 1 .. written
    BY <1>4, <1>5, <1>6 DEF Eventlog!Ids
  <1> QED
    BY <1>7, RankFacts

\* The newest id of a poll: none that was read lies above it.
LEMMA NewestFacts ==
    ASSUME Eventlog!EventlogInv, NEW l \in Eventlog!LogNames
    PROVE  /\ Eventlog!Newest(l) \in Nat
           /\ Eventlog!Newest(l) =< FirstId + MaxEntries
           /\ last_seen[l] =< Eventlog!Newest(l)
           /\ \A m \in Eventlog!MembersOf(l) : Rank[m.id] =< Eventlog!Newest(l)
           /\ \/ Eventlog!Newest(l) = last_seen[l]
              \/ \E m \in Eventlog!MembersOf(l) : Eventlog!Newest(l) = Rank[m.id]
  <1> DEFINE B == FirstId + MaxEntries
             S == {Rank[m.id] : m \in Eventlog!Above(l)} \cup {last_seen[l]}
             r == Eventlog!Newest(l)
  <1>1. Eventlog!EntriesTyped /\ Eventlog!IdsBounded
    BY DEF Eventlog!EventlogInv
  <1>2. MaxEntries \in Nat /\ FirstId \in Nat /\ last_seen[l] \in Nat /\ last_seen[l] =< B
    BY <1>1, PollersAssumption DEF Eventlog!EntriesTyped, Eventlog!IdsBounded
  <1>3. B \in Nat
    BY <1>2
  <1>4. \A m \in Eventlog!MembersOf(l) : Rank[m.id] \in Nat /\ Rank[m.id] =< B
    BY <1>1, MemberFacts
  <1>5. \A m \in Eventlog!Above(l) : m \in Eventlog!MembersOf(l)
    BY DEF Eventlog!Above
  <1> HIDE DEF B
  <1>6. S \in SUBSET (0 .. B) /\ S # {}
    BY <1>2, <1>3, <1>4, <1>5
  <1>7. /\ last_seen[l] \in S
        /\ \A m \in Eventlog!Above(l) : Rank[m.id] \in S
        /\ \A s \in S : s = last_seen[l] \/ \E m \in Eventlog!Above(l) : s = Rank[m.id]
    BY Zenon
  <1>8. r = CHOOSE x \in S : \A s \in S : s =< x
    BY DEF Eventlog!Newest
  <1> HIDE DEF S, r
  <1>9. r \in S /\ \A s \in S : s =< r
    <2>1. \E x \in S : \A s \in S : s =< x
      BY <1>3, <1>6, GreatestNat
    <2> QED
      BY <1>8, <2>1
  <1>10. r \in Nat /\ r =< B /\ last_seen[l] =< r
    <2>1. r \in 0 .. B
      BY <1>6, <1>9, Zenon
    <2>2. last_seen[l] =< r
      BY <1>7, <1>9, Zenon
    <2> QED
      BY <1>3, <2>1, <2>2
  <1>11. ASSUME NEW m \in Eventlog!MembersOf(l) PROVE Rank[m.id] =< r
    <2>1. CASE m \in Eventlog!Above(l)
      BY <1>7, <1>9, <2>1
    <2>2. CASE m \notin Eventlog!Above(l)
      <3>1. ~(Rank[m.id] > last_seen[l])
        BY <2>2 DEF Eventlog!Above
      <3>2. Rank[m.id] \in Nat
        BY <1>4
      <3> QED
        BY <1>2, <1>10, <3>1, <3>2
    <2> QED
      BY <2>1, <2>2
  <1>12. r = last_seen[l] \/ \E m \in Eventlog!MembersOf(l) : r = Rank[m.id]
    BY <1>5, <1>7, <1>9
  <1> QED
    BY <1>10, <1>11, <1>12 DEF r, B

\* Before the first poll no log was read and every last_seen is below any id.
LEMMA EventlogInitInv == Eventlog!EventlogInit => Eventlog!EventlogInv
  <1> SUFFICES ASSUME Eventlog!EventlogInit PROVE Eventlog!EventlogInv
    OBVIOUS
  <1> DEFINE R == [id : Nat \ {0}, sev : Eventlog!EntrySeverities, n : Nat \ {0}]
  <1>1. <<>> \in Seq(R) /\ DOMAIN <<>> = {}
    <2> HIDE DEF R
    <2> QED
      OBVIOUS
  <1>2. FirstId \in Nat \ {0} /\ 1 \in DOMAIN Logs
    <2>1. Logs \in Seq({Logs[i] : i \in DOMAIN Logs}) /\ Logs # <<>> /\ FirstId \in Nat \ {0}
      BY PollersAssumption
    <2> QED
      BY <2>1, EmptySeq
  <1>3. /\ written = 0 /\ listed = {} /\ turn = 1
        /\ logs = [l \in Eventlog!LogNames |-> <<>>]
        /\ nextId = [l \in Eventlog!LogNames |-> FirstId]
        /\ last_seen = [l \in Eventlog!LogNames |-> 0]
        /\ known = [l \in Eventlog!LogNames |-> {}]
    BY DEF Eventlog!EventlogInit
  <1>4. Eventlog!EntriesTyped
    <2>1. logs \in [Eventlog!LogNames -> Seq(R)]
      <3> HIDE DEF R
      <3> QED
        BY <1>1, <1>3
    <2>2. MaxEntries \in Nat
      BY PollersAssumption
    <2> QED
      BY <1>2, <1>3, <2>1, <2>2 DEF Eventlog!EntriesTyped
  <1>5. \A l \in Eventlog!LogNames : Eventlog!MembersOf(l) = {}
    BY <1>1, <1>3 DEF Eventlog!MembersOf
  <1>6. Eventlog!IdsBounded
    BY <1>2, <1>3, <1>5, PollersAssumption DEF Eventlog!IdsBounded
  <1> QED
    BY <1>3, <1>4, <1>5, <1>6
       DEF Eventlog!EventlogInv, Eventlog!NumbersDiffer, Eventlog!LastSeenIsHighest,
           Eventlog!ReadNotAbove

\* The log polled next is one of the logs, and so is the one after it.
LEMMA TurnFacts ==
    ASSUME Eventlog!EventlogInv
    PROVE  /\ turn \in DOMAIN Logs /\ Logs[turn] \in Eventlog!LogNames
           /\ (turn % Len(Logs)) + 1 \in DOMAIN Logs
  <1>1. turn \in DOMAIN Logs /\ Logs[turn] \in Eventlog!LogNames
    BY DEF Eventlog!EventlogInv, Eventlog!EntriesTyped, Eventlog!LogNames
  <1>2. DOMAIN Logs = 1 .. Len(Logs) /\ Len(Logs) \in Nat
    <2> DEFINE N == {Logs[i] : i \in DOMAIN Logs}
    <2> HIDE DEF N
    <2>1. Logs \in Seq(N)
      BY PollersAssumption DEF N
    <2> QED
      BY <2>1, LenProperties
  <1>3. \A a \in Nat, b \in Nat \ {0} : a % b \in 0 .. b - 1
    OBVIOUS
  <1>4. Len(Logs) \in Nat \ {0} /\ turn \in Nat
    BY <1>1, <1>2
  <1>5. turn % Len(Logs) \in 0 .. Len(Logs) - 1
    BY <1>3, <1>4
  <1> QED
    BY <1>1, <1>2, <1>4, <1>5

\* poll reads the next log, and the numbers it observes are new.
LEMMA PollLogInv ==
    ASSUME Eventlog!EventlogInv, Eventlog!PollLog
    PROVE  Eventlog!EventlogInv' /\ Eventlog!EntriesOnce
  <1> DEFINE l == Logs[turn]
             r == Eventlog!Newest(l)
             ids == {m.id : m \in Eventlog!MembersOf(l)}
             F == {m.n : m \in Eventlog!Alerting(l)}
             N == {m.n : m \in Eventlog!MembersOf(l)}
             B == FirstId + MaxEntries
  <1>0. /\ Eventlog!EntriesTyped /\ Eventlog!IdsBounded /\ Eventlog!NumbersDiffer
        /\ Eventlog!LastSeenIsHighest /\ Eventlog!ReadNotAbove
    BY DEF Eventlog!EventlogInv
  <1>1. l \in Eventlog!LogNames /\ (turn % Len(Logs)) + 1 \in DOMAIN Logs
    BY TurnFacts
  <1>2. /\ turn' = (turn % Len(Logs)) + 1 /\ fresh' = F
        /\ last_seen' = [last_seen EXCEPT ![l] = r]
        /\ known' = [known EXCEPT ![l] = @ \cup ids]
        /\ listed' = listed \cup N
        /\ UNCHANGED <<logs, nextId, written>>
    BY DEF Eventlog!PollLog, Eventlog!NextLog, Eventlog!bmc
  <1>3. \A k : Eventlog!MembersOf(k)' = Eventlog!MembersOf(k)
    BY <1>2 DEF Eventlog!MembersOf
  <1>4. /\ r \in Nat /\ r =< B /\ last_seen[l] =< r
        /\ \A m \in Eventlog!MembersOf(l) : Rank[m.id] =< r
        /\ r = last_seen[l] \/ \E m \in Eventlog!MembersOf(l) : r = Rank[m.id]
    BY <1>1, NewestFacts
  <1>5. /\ last_seen \in [Eventlog!LogNames -> Nat]
        /\ known \in [Eventlog!LogNames -> SUBSET Eventlog!Ids]
        /\ written \in 0 .. MaxEntries /\ listed \subseteq 1 .. written
    BY <1>0 DEF Eventlog!EntriesTyped
  <1>6. /\ \A m \in Eventlog!Alerting(l) : m \in Eventlog!MembersOf(l)
        /\ \A m \in Eventlog!Alerting(l) : Rank[m.id] > last_seen[l]
    BY DEF Eventlog!Alerting, Eventlog!Above
  <1>7. N \subseteq 1 .. written /\ ids \subseteq Eventlog!Ids
    <2>1. \A m \in Eventlog!MembersOf(l) : m.n \in 1 .. written /\ m.id \in Eventlog!Ids
      BY <1>0, <1>1, MemberFacts
    <2> QED
      BY <2>1
  <1>8. /\ \A n \in F : \E m \in Eventlog!Alerting(l) : n = m.n
        /\ \A n \in N : \E m \in Eventlog!MembersOf(l) : n = m.n
    OBVIOUS
  <1>9. /\ \A m \in Eventlog!MembersOf(l) : m.id \in ids
        /\ \A i \in ids : \E m \in Eventlog!MembersOf(l) : i = m.id
    OBVIOUS
  <1>10. \A m \in Eventlog!MembersOf(l) : Rank[m.id] \in Nat \ {0}
    BY <1>0, <1>1, MemberFacts
  <1>11. Eventlog!EntriesOnce
    <2>1. ASSUME NEW e \in Eventlog!MembersOf(l), Eventlog!Alerts(e),
                 \A i \in known[l] : Rank[i] < Rank[e.id]
          PROVE  e.n \in F
      <3>1. Rank[e.id] \in Nat \ {0} /\ last_seen[l] \in Nat
        BY <1>1, <1>5, <1>10
      <3>2. last_seen[l] = 0 \/ \E i \in known[l] : Rank[i] = last_seen[l]
        BY <1>0, <1>1 DEF Eventlog!LastSeenIsHighest
      <3>3. Rank[e.id] > last_seen[l]
        BY <2>1, <3>1, <3>2
      <3> QED
        BY <2>1, <3>3 DEF Eventlog!Alerting, Eventlog!Above
    <2>2. F \subseteq {m.n : m \in {e \in Eventlog!MembersOf(l) : Eventlog!Alerts(e)}}
      BY DEF Eventlog!Alerting, Eventlog!Above
    <2>3. F \cap listed = {}
      <3> SUFFICES ASSUME NEW n \in F, n \in listed PROVE FALSE
        OBVIOUS
      <3>1. PICK m \in Eventlog!Alerting(l) : n = m.n
        BY <1>8
      <3>2. m \in Eventlog!MembersOf(l) /\ Rank[m.id] > last_seen[l]
        BY <1>6
      <3>3. Rank[m.id] =< last_seen[l]
        BY <1>0, <1>1, <3>1, <3>2 DEF Eventlog!ReadNotAbove
      <3>4. Rank[m.id] \in Nat /\ last_seen[l] \in Nat
        BY <1>1, <1>5, <1>10, <3>2
      <3> QED
        BY <3>2, <3>3, <3>4
    <2> QED
      BY <1>2, <2>1, <2>2, <2>3 DEF Eventlog!EntriesOnce
  <1> HIDE DEF r, ids, F, N, B, l
  <1>12. Eventlog!EntriesTyped'
    <2>1. last_seen' \in [Eventlog!LogNames -> Nat]
      BY <1>2, <1>4, <1>5
    <2>2. known' \in [Eventlog!LogNames -> SUBSET Eventlog!Ids]
      BY <1>1, <1>2, <1>5, <1>7
    <2>3. listed' \subseteq 1 .. written
      BY <1>2, <1>5, <1>7
    <2> QED
      BY <1>0, <1>1, <1>2, <2>1, <2>2, <2>3 DEF Eventlog!EntriesTyped
  <1>13. \A k \in Eventlog!LogNames : last_seen[k] =< last_seen'[k] /\ last_seen'[k] =< B
    <2> SUFFICES ASSUME NEW k \in Eventlog!LogNames
                 PROVE  last_seen[k] =< last_seen'[k] /\ last_seen'[k] =< B
      OBVIOUS
    <2>1. CASE k = l
      BY <1>2, <1>4, <1>5, <2>1
    <2>2. CASE k # l
      <3>1. last_seen'[k] = last_seen[k] /\ last_seen[k] \in Nat
        BY <1>2, <1>5, <2>2
      <3>2. last_seen[k] =< B
        BY <1>0 DEF Eventlog!IdsBounded, B
      <3> QED
        BY <3>1, <3>2
    <2> QED
      BY <2>1, <2>2
  <1>14. Eventlog!IdsBounded' /\ Eventlog!NumbersDiffer'
    BY <1>0, <1>2, <1>3, <1>13 DEF Eventlog!IdsBounded, Eventlog!NumbersDiffer, B
  <1>15. Eventlog!LastSeenIsHighest'
    <2> SUFFICES ASSUME NEW k \in Eventlog!LogNames
                 PROVE  /\ \A i \in known'[k] : Rank[i] =< last_seen'[k]
                        /\ \/ last_seen'[k] = 0
                           \/ \E i \in known'[k] : Rank[i] = last_seen'[k]
      BY DEF Eventlog!LastSeenIsHighest
    <2>1. /\ \A i \in known[k] : Rank[i] =< last_seen[k]
          /\ last_seen[k] = 0 \/ \E i \in known[k] : Rank[i] = last_seen[k]
      BY <1>0 DEF Eventlog!LastSeenIsHighest
    <2>2. CASE k # l
      <3>1. known'[k] = known[k] /\ last_seen'[k] = last_seen[k]
        BY <1>2, <1>5, <2>2
      <3> QED
        BY <2>1, <3>1
    <2>3. CASE k = l
      <3>1. known'[k] = known[k] \cup ids /\ last_seen'[k] = r
        BY <1>2, <1>5, <2>3
      <3>2. ASSUME NEW i \in known[k] PROVE Rank[i] =< r
        <4>1. Rank[i] \in Nat /\ last_seen[k] \in Nat /\ Rank[i] =< last_seen[k]
          BY <1>5, <2>1, RankFacts
        <4> QED
          BY <1>4, <2>3, <4>1
      <3>3. \A i \in ids : Rank[i] =< r
        BY <1>4, <1>9
      <3>4. r = 0 \/ \E i \in known[k] \cup ids : Rank[i] = r
        <4>1. CASE r = last_seen[l]
          BY <2>1, <2>3, <4>1
        <4>2. CASE \E m \in Eventlog!MembersOf(l) : r = Rank[m.id]
          BY <1>9, <4>2
        <4> QED
          BY <1>4, <4>1, <4>2
      <3> QED
        BY <3>1, <3>2, <3>3, <3>4
    <2> QED
      BY <2>2, <2>3
  <1>16. Eventlog!ReadNotAbove'
    <2> SUFFICES ASSUME NEW k \in Eventlog!LogNames, NEW m \in Eventlog!MembersOf(k),
                        m.n \in listed \cup N
                 PROVE  Rank[m.id] =< last_seen'[k]
      BY <1>2, <1>3 DEF Eventlog!ReadNotAbove
    <2>1. CASE m.n \in listed
      <3>1. Rank[m.id] =< last_seen[k] /\ last_seen[k] =< last_seen'[k]
        BY <1>0, <1>13, <2>1 DEF Eventlog!ReadNotAbove
      <3>2. Rank[m.id] \in Nat /\ last_seen[k] \in Nat /\ last_seen'[k] \in Nat
        <4>1. Rank[m.id] \in Nat
          BY <1>0, MemberFacts
        <4> QED
          BY <1>5, <1>12, <4>1 DEF Eventlog!EntriesTyped
      <3> QED
        BY <3>1, <3>2
    <2>2. CASE m.n \in N
      <3>1. PICK e \in Eventlog!MembersOf(l) : m.n = e.n
        BY <1>8, <2>2
      <3>2. k = l
        BY <1>0, <1>1, <3>1 DEF Eventlog!NumbersDiffer
      <3>3. last_seen'[k] = r
        BY <1>2, <1>5, <3>2
      <3> QED
        BY <1>4, <3>2, <3>3
    <2> QED
      BY <2>1, <2>2
  <1> QED
    BY <1>11, <1>12, <1>14, <1>15, <1>16 DEF Eventlog!EventlogInv

\* The BMC writes an entry, with the next id of the log and a number of its own.
LEMMA BmcLogsInv ==
    ASSUME Eventlog!EventlogInv, NEW l \in Eventlog!LogNames, NEW sev \in Eventlog!EntrySeverities,
           Eventlog!BmcLogs(l, sev)
    PROVE  Eventlog!EventlogInv'
  <1> DEFINE R == [id : Nat \ {0}, sev : Eventlog!EntrySeverities, n : Nat \ {0}]
             x == [id |-> nextId[l], sev |-> sev, n |-> written + 1]
  <1>0. /\ Eventlog!EntriesTyped /\ Eventlog!IdsBounded /\ Eventlog!NumbersDiffer
        /\ Eventlog!LastSeenIsHighest /\ Eventlog!ReadNotAbove
    BY DEF Eventlog!EventlogInv
  <1>1. /\ written' = written + 1 /\ written < MaxEntries
        /\ logs' = [logs EXCEPT ![l] = Append(logs[l], x)]
        /\ nextId' = [nextId EXCEPT ![l] = nextId[l] + 1]
        /\ UNCHANGED <<last_seen, turn, known, listed>>
    BY DEF Eventlog!BmcLogs
  <1>2. /\ written \in 0 .. MaxEntries /\ listed \subseteq 1 .. written
        /\ nextId \in [Eventlog!LogNames -> Nat \ {0}]
        /\ logs \in [Eventlog!LogNames -> Seq(R)]
        /\ turn \in DOMAIN Logs /\ last_seen \in [Eventlog!LogNames -> Nat]
        /\ known \in [Eventlog!LogNames -> SUBSET Eventlog!Ids]
    BY <1>0 DEF Eventlog!EntriesTyped
  <1>4. FirstId \in Nat /\ MaxEntries \in Nat /\ written \in Nat
    BY <1>2, PollersAssumption
  <1>3. x \in R /\ x.id = nextId[l] /\ x.n = written + 1
    BY <1>2, <1>4
  <1> HIDE DEF x, R
  <1>5. /\ Append(logs[l], x) \in Seq(R)
        /\ logs'[l] = Append(logs[l], x)
        /\ \A k \in Eventlog!LogNames : k # l => logs'[k] = logs[k]
        /\ logs' \in [Eventlog!LogNames -> Seq(R)]
    <2>1. Append(logs[l], x) \in Seq(R)
      BY <1>2, <1>3, AppendProperties
    <2> QED
      BY <1>1, <1>2, <2>1
  <1>6. Eventlog!MembersOf(l)' = Eventlog!MembersOf(l) \cup {x}
    <2> DEFINE s == logs[l]
    <2>1. s \in Seq(R)
      BY <1>2
    <2> HIDE DEF s
    <2>2. /\ Len(s) \in Nat /\ DOMAIN s = 1 .. Len(s)
          /\ Append(s, x) \in Seq(R) /\ Len(Append(s, x)) = Len(s) + 1
          /\ \A i \in 1 .. Len(s) : Append(s, x)[i] = s[i]
          /\ Append(s, x)[Len(s) + 1] = x
      BY <1>3, <2>1, AppendProperties, LenProperties
    <2>3. DOMAIN Append(s, x) = 1 .. Len(s) + 1
      BY <2>2, LenProperties
    <2>4. 1 .. Len(s) + 1 = (1 .. Len(s)) \cup {Len(s) + 1}
      BY <2>2
    <2>5. {Append(s, x)[i] : i \in DOMAIN Append(s, x)} = {s[i] : i \in DOMAIN s} \cup {x}
      BY <2>2, <2>3, <2>4
    <2>6. logs'[l] = Append(s, x)
      BY <1>5 DEF s
    <2> QED
      BY <2>5, <2>6 DEF Eventlog!MembersOf, s
  <1>7. \A k \in Eventlog!LogNames : k # l => Eventlog!MembersOf(k)' = Eventlog!MembersOf(k)
    BY <1>5 DEF Eventlog!MembersOf
  <1>8. \A k \in Eventlog!LogNames : \A m \in Eventlog!MembersOf(k)' :
           m \in Eventlog!MembersOf(k) \/ (k = l /\ m = x)
    BY <1>6, <1>7
  <1>9. \A k \in Eventlog!LogNames : \A m \in Eventlog!MembersOf(k) :
           m.id \in Nat /\ m.id =< FirstId + written /\ m.n \in 1 .. written
    BY <1>0, MemberFacts DEF Eventlog!IdsBounded, Eventlog!Ids
  <1>10. \A k \in Eventlog!LogNames :
           nextId[k] \in Nat /\ nextId[k] =< FirstId + written
    BY <1>0, <1>2 DEF Eventlog!IdsBounded
  <1>11. Eventlog!EntriesTyped'
    <2>1. nextId' \in [Eventlog!LogNames -> Nat \ {0}]
      BY <1>1, <1>2
    <2>2. written' \in 0 .. MaxEntries /\ listed' \subseteq 1 .. written'
      BY <1>1, <1>2, <1>4
    <2>3. logs' \in [Eventlog!LogNames
                        -> Seq([id : Nat \ {0}, sev : Eventlog!EntrySeverities, n : Nat \ {0}])]
      BY <1>5 DEF R
    <2>4. /\ turn' \in DOMAIN Logs /\ last_seen' \in [Eventlog!LogNames -> Nat]
          /\ known' \in [Eventlog!LogNames -> SUBSET Eventlog!Ids]
      BY <1>1, <1>2
    <2> QED
      BY <2>1, <2>2, <2>3, <2>4 DEF Eventlog!EntriesTyped
  <1>12. Eventlog!IdsBounded'
    <2> SUFFICES ASSUME NEW k \in Eventlog!LogNames
                 PROVE  /\ nextId'[k] =< FirstId + (written + 1)
                        /\ last_seen[k] =< FirstId + MaxEntries
                        /\ \A m \in Eventlog!MembersOf(k)' :
                              m.id =< FirstId + (written + 1) /\ m.n =< written + 1
      BY <1>1 DEF Eventlog!IdsBounded
    <2>1. nextId'[k] =< FirstId + (written + 1)
      <3>1. nextId'[k] = nextId[k] \/ nextId'[k] = nextId[k] + 1
        BY <1>1, <1>2
      <3> QED
        BY <1>2, <1>4, <1>10, <3>1
    <2>2. last_seen[k] =< FirstId + MaxEntries
      BY <1>0 DEF Eventlog!IdsBounded
    <2>3. ASSUME NEW m \in Eventlog!MembersOf(k)'
          PROVE  m.id =< FirstId + (written + 1) /\ m.n =< written + 1
      <3>1. CASE m \in Eventlog!MembersOf(k)
        <4>1. m.id \in Nat /\ m.id =< FirstId + written /\ m.n \in 1 .. written
          BY <1>9, <3>1
        <4> QED
          BY <1>2, <1>4, <4>1
      <3>2. CASE m = x
        <4>1. nextId[l] \in Nat /\ nextId[l] =< FirstId + written
          BY <1>10
        <4> QED
          BY <1>2, <1>3, <1>4, <3>2, <4>1
      <3> QED
        BY <1>8, <3>1, <3>2
    <2> QED
      BY <2>1, <2>2, <2>3
  <1>13. \A k \in Eventlog!LogNames : \A m \in Eventlog!MembersOf(k) : m.n # x.n
    <2>1. \A n \in 1 .. written : n # written + 1
      BY <1>2
    <2> QED
      BY <1>3, <1>9, <2>1
  <1>14. Eventlog!NumbersDiffer'
    <2> SUFFICES ASSUME NEW j \in Eventlog!LogNames, NEW k \in Eventlog!LogNames,
                        NEW m \in Eventlog!MembersOf(j)', NEW e \in Eventlog!MembersOf(k)',
                        m.n = e.n
                 PROVE  j = k /\ m = e
      BY DEF Eventlog!NumbersDiffer
    <2>1. CASE m \in Eventlog!MembersOf(j) /\ e \in Eventlog!MembersOf(k)
      BY <1>0, <2>1 DEF Eventlog!NumbersDiffer
    <2> QED
      BY <1>8, <1>13, <2>1
  <1>15. Eventlog!LastSeenIsHighest'
    BY <1>0, <1>1 DEF Eventlog!LastSeenIsHighest
  <1>16. Eventlog!ReadNotAbove'
    <2>1. x.n \notin listed
      <3>1. written + 1 \notin 1 .. written
        BY <1>2
      <3> QED
        BY <1>2, <1>3, <3>1
    <2> QED
      BY <1>0, <1>1, <1>8, <2>1 DEF Eventlog!ReadNotAbove
  <1> QED
    BY <1>11, <1>12, <1>14, <1>15, <1>16 DEF Eventlog!EventlogInv

\* A log is cleared: its entries are gone, what was read of it is remembered.
LEMMA BmcClearsInv ==
    ASSUME Eventlog!EventlogInv, NEW l \in Eventlog!LogNames, Eventlog!BmcClears(l)
    PROVE  Eventlog!EventlogInv'
  <1> DEFINE R == [id : Nat \ {0}, sev : Eventlog!EntrySeverities, n : Nat \ {0}]
  <1> HIDE DEF R
  <1>0. /\ Eventlog!EntriesTyped /\ Eventlog!IdsBounded /\ Eventlog!NumbersDiffer
        /\ Eventlog!LastSeenIsHighest /\ Eventlog!ReadNotAbove
    BY DEF Eventlog!EventlogInv
  <1>1. /\ logs' = [logs EXCEPT ![l] = <<>>] /\ nextId' = [nextId EXCEPT ![l] = 1]
        /\ UNCHANGED <<written, last_seen, turn, known, listed>>
    BY DEF Eventlog!BmcClears
  <1>2. <<>> \in Seq(R) /\ DOMAIN <<>> = {}
    OBVIOUS
  <1>3. /\ written \in 0 .. MaxEntries /\ nextId \in [Eventlog!LogNames -> Nat \ {0}]
        /\ logs \in [Eventlog!LogNames -> Seq(R)]
    BY <1>0 DEF Eventlog!EntriesTyped, R
  <1>4. \A k \in Eventlog!LogNames :
           /\ Eventlog!MembersOf(k)' \subseteq Eventlog!MembersOf(k)
           /\ nextId'[k] = nextId[k] \/ nextId'[k] = 1
    <2> SUFFICES ASSUME NEW k \in Eventlog!LogNames
                 PROVE  /\ Eventlog!MembersOf(k)' \subseteq Eventlog!MembersOf(k)
                        /\ nextId'[k] = nextId[k] \/ nextId'[k] = 1
      OBVIOUS
    <2>1. logs'[k] = logs[k] \/ logs'[k] = <<>>
      BY <1>1, <1>3
    <2>2. nextId'[k] = nextId[k] \/ nextId'[k] = 1
      BY <1>1, <1>3
    <2> QED
      BY <1>2, <2>1, <2>2 DEF Eventlog!MembersOf
  <1>5. Eventlog!EntriesTyped'
    <2>1. logs' \in [Eventlog!LogNames -> Seq(R)] /\ nextId' \in [Eventlog!LogNames -> Nat \ {0}]
      BY <1>1, <1>2, <1>3
    <2> QED
      BY <1>0, <1>1, <2>1 DEF Eventlog!EntriesTyped, R
  <1>6. Eventlog!IdsBounded'
    <2>1. 1 =< FirstId + written
      BY <1>3, PollersAssumption
    <2> QED
      BY <1>0, <1>1, <1>4, <2>1 DEF Eventlog!IdsBounded
  <1>7. Eventlog!NumbersDiffer'
    BY <1>0, <1>4 DEF Eventlog!NumbersDiffer
  <1>8. Eventlog!LastSeenIsHighest' /\ Eventlog!ReadNotAbove'
    BY <1>0, <1>1, <1>4 DEF Eventlog!LastSeenIsHighest, Eventlog!ReadNotAbove
  <1> QED
    BY <1>5, <1>6, <1>7, <1>8 DEF Eventlog!EventlogInv

\* The loop fails, waits or goes on to the next log.
LEMMA EventlogStill ==
    ASSUME Eventlog!EventlogInv, turn' \in DOMAIN Logs,
           UNCHANGED <<logs, nextId, written, last_seen, known, listed>>
    PROVE  Eventlog!EventlogInv'
  <1>1. Eventlog!EntriesTyped'
    BY DEF Eventlog!EventlogInv, Eventlog!EntriesTyped
  <1>2. \A l : Eventlog!MembersOf(l)' = Eventlog!MembersOf(l)
    BY DEF Eventlog!MembersOf
  <1>3. Eventlog!IdsBounded' /\ Eventlog!NumbersDiffer'
    BY <1>2 DEF Eventlog!EventlogInv, Eventlog!IdsBounded, Eventlog!NumbersDiffer
  <1>4. Eventlog!LastSeenIsHighest' /\ Eventlog!ReadNotAbove'
    BY <1>2 DEF Eventlog!EventlogInv, Eventlog!LastSeenIsHighest, Eventlog!ReadNotAbove
  <1> QED
    BY <1>1, <1>3, <1>4 DEF Eventlog!EventlogInv

\* Each step of the event log poll preserves EventlogInv, and observes an entry
\* only as EntriesOnce allows: the action property comes from the same invariant.
LEMMA EventlogNextInv ==
    Eventlog!EventlogInv /\ Eventlog!EventlogNext => Eventlog!EventlogInv' /\ Eventlog!EntriesOnce
  <1> SUFFICES ASSUME Eventlog!EventlogInv, Eventlog!EventlogNext
               PROVE  Eventlog!EventlogInv' /\ Eventlog!EntriesOnce
    OBVIOUS
  <1>1. ASSUME UNCHANGED known, fresh' = {} PROVE Eventlog!EntriesOnce
    BY <1>1 DEF Eventlog!EntriesOnce
  <1>2. CASE Eventlog!Clock \/ Eventlog!PollLogFails \/ Eventlog!PollIpmi
    <2>1. /\ UNCHANGED <<logs, nextId, written, last_seen, known, listed>>
          /\ fresh' = {} /\ turn' \in {turn, (turn % Len(Logs)) + 1}
      BY <1>2
         DEF Eventlog!Clock, Eventlog!PollLogFails, Eventlog!PollIpmi, Eventlog!NextLog,
             Eventlog!Silent, Eventlog!bmc
    <2>2. turn' \in DOMAIN Logs
      BY <2>1, TurnFacts
    <2>3. Eventlog!EventlogInv'
      BY <2>1, <2>2, EventlogStill
    <2> QED
      BY <1>1, <2>1, <2>3
  <1>3. ASSUME NEW l \in Eventlog!LogNames, Eventlog!BmcClears(l)
        PROVE  Eventlog!EventlogInv' /\ Eventlog!EntriesOnce
    BY <1>1, <1>3, BmcClearsInv DEF Eventlog!BmcClears, Eventlog!Silent
  <1>4. ASSUME NEW l \in Eventlog!LogNames, NEW sev \in Eventlog!EntrySeverities,
               Eventlog!BmcLogs(l, sev)
        PROVE  Eventlog!EventlogInv' /\ Eventlog!EntriesOnce
    BY <1>1, <1>4, BmcLogsInv DEF Eventlog!BmcLogs, Eventlog!Silent
  <1> QED
    BY <1>2, <1>3, <1>4, PollLogInv DEF Eventlog!EventlogNext

-----------------------------------------------------------------------------
(* Whichever monitor a behaviour of PollersSpec follows.                   *)

\* The monitor chosen initially starts in its own invariant.
LEMMA PollersInitInv == PollersInit => PollersInv
  BY InitIInv, PsiInitInv, NvmeInitInv, ThermalInitInv, HealthInitInv, EventlogInitInv
     DEF PollersInit, PollersInv

\* A step is one of the monitor followed, which keeps its own invariant.
LEMMA PollersNextInv == PollersInv /\ PollersNext => PollersInv'
  <1> SUFFICES ASSUME PollersInv, PollersNext PROVE PollersInv'
    OBVIOUS
  <1>1. CASE monitor = "psi" /\ Psi!PsiNext /\ monitor' = monitor
    BY <1>1, PsiNextInv DEF PollersInv
  <1>2. CASE monitor = "nvme" /\ Nvme!NvmeNext /\ monitor' = monitor
    BY <1>2, NvmeNextInv DEF PollersInv
  <1>3. CASE monitor = "thermal" /\ Thermal!ThermalNext /\ monitor' = monitor
    BY <1>3, ThermalNextInv DEF PollersInv
  <1>4. CASE monitor = "health" /\ Health!HealthNext /\ monitor' = monitor
    BY <1>4, HealthNextInv DEF PollersInv
  <1>5. CASE monitor = "eventlog" /\ Eventlog!EventlogNext /\ monitor' = monitor
    BY <1>5, EventlogNextInv DEF PollersInv
  <1>6. CASE monitor = "tracker" /\ Next /\ monitor' = monitor
    BY <1>6, NextIInv DEF PollersInv
  <1> QED
    BY <1>1, <1>2, <1>3, <1>4, <1>5, <1>6 DEF PollersNext, TrackerNext

\* Nothing moves.
LEMMA PollersStutter == PollersInv /\ UNCHANGED pollerVars => PollersInv'
  <1> SUFFICES ASSUME PollersInv, UNCHANGED pollerVars PROVE PollersInv'
    OBVIOUS
  <1>1. UNCHANGED <<monitor, now, polled, samples, changes>> /\ UNCHANGED vars
    BY DEF pollerVars, tracker, vars
  <1>2. IInv => IInv'
    <2>1. ASSUME IInv PROVE IInv'
      BY <1>1, <2>1, NextIInv
    <2> QED
      BY <2>1
  <1>3. Psi!PsiInv => Psi!PsiInv'
    BY <1>1
       DEF pollerVars, psiOnly, vars, Psi!PsiInv, Psi!SamplesPast, Psi!BreachMarksRun,
           Psi!CallAboutLast, Psi!WindowCoversLows, Psi!ToldTheTruth, Psi!FromOn, Psi!Count
  <1>4. Nvme!NvmeInv => Nvme!NvmeInv'
    BY <1>1
       DEF pollerVars, nvmeOnly, vars, Nvme!NvmeInv, Nvme!SamplesPast, Nvme!ErrLogIsLast,
           Nvme!CallAboutLast, Nvme!WindowCoversZeros, Nvme!ErrLogExact,
           Nvme!WarningBitsTold, Nvme!LevelsTold, Nvme!ToldAsRead, Nvme!ClearedSince,
           Nvme!ZeroFrom, Nvme!Reads, Nvme!Quiet
  <1>5. Thermal!ThermalInv => Thermal!ThermalInv'
    BY <1>1
       DEF pollerVars, thermalOnly, vars, Thermal!ThermalInv, Thermal!ReadingsTyped,
           Thermal!CallAboutTier, Thermal!CountersOrdered, Thermal!TierTold,
           Thermal!NoticedInAll, Thermal!Gained
  <1>6. Health!HealthInv => Health!HealthInv'
    BY <1>1
       DEF pollerVars, healthOnly, vars, Health!HealthInv, Health!ReadingsTyped,
           Health!CallAboutLast, Health!EscalationTold, Health!Reads, Health!Quiet
  <1>7. Eventlog!EventlogInv => Eventlog!EventlogInv'
    <2> SUFFICES ASSUME Eventlog!EventlogInv PROVE Eventlog!EventlogInv'
      OBVIOUS
    <2>1. UNCHANGED <<logs, nextId, written, last_seen, turn, known, listed>>
      BY DEF pollerVars, eventlogOnly
    <2>2. turn' \in DOMAIN Logs
      BY <2>1 DEF Eventlog!EventlogInv, Eventlog!EntriesTyped
    <2> QED
      BY <2>1, <2>2, EventlogStill
  <1> QED
    BY <1>1, <1>2, <1>3, <1>4, <1>5, <1>6, <1>7 DEF PollersInv

\* PollersInv holds throughout.
LEMMA PollersInvariance == PollersSpec => []PollersInv
  <1>1. PollersInv /\ [PollersNext]_pollerVars => PollersInv'
    BY PollersNextInv, PollersStutter
  <1> QED
    BY <1>1, PollersInitInv, PTL DEF PollersSpec

(***************************************************************************)
(* mempressure.rs, nvme.rs, thermal.rs: a reading that lasted as long as   *)
(* the loop asks for has been told; pressure and warning bits that stayed  *)
(* good for the recovery window are not left firing; no thermal tier hides *)
(* another, its alert is less than re_notify old, and the PSU inlet        *)
(* decides only when it is alone.                                          *)
(***************************************************************************)
THEOREM ReadingsAreTold == PollersSpec => []ReadingsTold
  <1>1. PollersInv => ReadingsTold
    BY DEF PollersInv, ReadingsTold, Psi!PsiInv, Nvme!NvmeInv, Thermal!ThermalInv
  <1> QED
    BY <1>1, PollersInvariance, PTL

(***************************************************************************)
(* disk_smart.rs, bmc_redfish.rs, gpu_nvidia.rs, gpu_amd.rs, nvme.rs: an   *)
(* escalation is told by the first poll that is not within re_notify of    *)
(* the last alert, and what the first four told was read.                  *)
(***************************************************************************)
THEOREM EscalationsAreTold == PollersSpec => []EscalationTold
  <1>1. PollersInv => EscalationTold
    BY DEF PollersInv, EscalationTold, Health!HealthInv, Nvme!NvmeInv
  <1> QED
    BY <1>1, PollersInvariance, PTL

(***************************************************************************)
(* nvme.rs, thermal.rs: what the loops observe of a growing counter is     *)
(* what it grew between the polls that could read it; of the throttle      *)
(* events some are told, and the tracker suppresses the others only less   *)
(* than re_notify after an alert.                                          *)
(***************************************************************************)
THEOREM CountersAreExact == PollersSpec => []CountersExact
  <1>1. PollersInv => CountersExact
    BY ThrottlesFollow DEF PollersInv, CountersExact, Nvme!NvmeInv
  <1> QED
    BY <1>1, PollersInvariance, PTL

(***************************************************************************)
(* mempressure.rs psi_loop: psi_high is handed out only at the end of an   *)
(* unbroken run of high samples that spans sustain_s.                      *)
(***************************************************************************)
THEOREM FiringIsSustained == PollersSpec => FiringMeansSustained
  <1> DEFINE A == monitor = "psi" => Psi!FiringMeansSustained
  <1>1. PollersInv /\ [PollersNext]_pollerVars => [A]_pollerVars
    <2> SUFFICES ASSUME PollersInv, PollersNext, monitor = "psi"
                 PROVE  Psi!FiringMeansSustained
      OBVIOUS
    <2>1. IInv /\ Psi!PsiInv /\ Psi!PsiNext
      BY DEF PollersInv, PollersNext
    <2> QED
      BY <2>1, PsiFiringSustained
  <1> HIDE DEF A
  <1>2. PollersSpec => [][A]_pollerVars
    BY <1>1, PollersInvariance, PTL DEF PollersSpec
  <1> QED
    BY <1>2 DEF FiringMeansSustained, A

(***************************************************************************)
(* bmc_eventlog.rs poll, however ids are ordered: an entry is observed     *)
(* only by the first read that lists it, and surely then when its id sorts *)
(* above every id read of its log before.                                  *)
(***************************************************************************)
THEOREM EntriesObservedOnce == PollersSpec => EntriesOnce
  <1> DEFINE A == monitor = "eventlog" => Eventlog!EntriesOnce
  <1>1. PollersInv /\ [PollersNext]_pollerVars => [A]_pollerVars
    <2> SUFFICES ASSUME PollersInv, PollersNext, monitor = "eventlog"
                 PROVE  Eventlog!EntriesOnce
      OBVIOUS
    <2>1. Eventlog!EventlogInv /\ Eventlog!EventlogNext
      BY DEF PollersInv, PollersNext
    <2> QED
      BY <2>1, EventlogNextInv
  <1> HIDE DEF A
  <1>2. PollersSpec => [][A]_pollerVars
    BY <1>1, PollersInvariance, PTL DEF PollersSpec
  <1> QED
    BY <1>2 DEF EntriesOnce, A
=============================================================================
