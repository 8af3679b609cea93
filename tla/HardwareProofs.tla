--------------------------- MODULE HardwareProofs ---------------------------
(***************************************************************************)
(* Proofs about the monitors of MCHardware that compare what they read     *)
(* with what they read before, count events in a window, or follow lines:  *)
(* StorageIo, Controllers, NicCounters, EccMonitor, NicLink, OomStorm,     *)
(* PcieAer and JournalRules.  They share nothing but the names of some     *)
(* variables.  A behaviour of HardwareSpec follows one of them, and the    *)
(* theorems hold for every set of disks, units, controllers and DIMMs,     *)
(* every capacity and every bound.                                         *)
(***************************************************************************)
EXTENDS MCHardware, SequenceTheorems, FiniteSetTheorems, WellFoundedInduction, TLAPS

-----------------------------------------------------------------------------
(* The sliding windows.                                                    *)

\* A set of naturals that is not empty has a least element.
LEMMA MinOfNats ==
    ASSUME NEW S \in SUBSET Nat, S # {}
    PROVE  Min(S) \in S /\ \A x \in S : Min(S) <= x
  <1> DEFINE Less == {p \in Nat \X Nat : p[1] < p[2]}
  <1>1. IsWellFoundedOn(Less, Nat)
    BY NatLessThanWellFounded DEF OpToRel
  <1> HIDE DEF Less
  <1>2. PICK x \in S : \A y \in S : ~(<<y, x>> \in Less)
    BY <1>1, WFMin
  <1>3. \A y \in S : x <= y
    <2> SUFFICES ASSUME NEW y \in S, y < x PROVE FALSE
      OBVIOUS
    <2>1. <<y, x>> \in Nat \X Nat /\ <<y, x>>[1] < <<y, x>>[2]
      OBVIOUS
    <2> QED
      BY <1>2, <2>1 DEF Less
  <1> QED
    BY <1>3 DEF Min

\* What a sliding window keeps of a list is its end; every entry before that lies
\* more than the span back, and the first it keeps does not.
LEMMA RecentFacts ==
    ASSUME NEW w \in Seq(Nat), NEW t \in Nat, NEW span \in Nat
    PROVE  LET r == Recent(w, t, span)
               gone == Len(w) - Len(r)
           IN  /\ r \in Seq(Nat)
               /\ gone \in Nat /\ Len(r) <= Len(w)
               /\ \A i \in 1 .. Len(r) : gone + i \in 1 .. Len(w) /\ r[i] = w[gone + i]
               /\ \A i \in 1 .. gone : i \in 1 .. Len(w) /\ t - w[i] > span
               /\ Len(r) > 0 => t - r[1] <= span
  <1> DEFINE recent == {i \in DOMAIN w : t - w[i] <= span}
             r == Recent(w, t, span)
             gone == Len(w) - Len(r)
  <1>1. /\ Len(w) \in Nat /\ DOMAIN w = 1 .. Len(w)
        /\ \A i \in 1 .. Len(w) : w[i] \in Nat
    BY ElementOfSeq
  <1>2. CASE recent = {}
    <2>1. r = <<>>
      BY <1>2 DEF Recent
    <2>2. \A i \in 1 .. Len(w) : t - w[i] > span
      <3> SUFFICES ASSUME NEW i \in 1 .. Len(w) PROVE t - w[i] > span
        OBVIOUS
      <3>1. w[i] \in Nat /\ ~(t - w[i] <= span)
        BY <1>1, <1>2, Zenon
      <3> QED
        BY <3>1
    <2>3. r \in Seq(Nat) /\ Len(r) = 0 /\ gone = Len(w)
      BY <1>1, <2>1
    <2> QED
      BY <1>1, <2>2, <2>3
  <1>3. CASE recent # {}
    <2>1. recent \in SUBSET Nat
      BY <1>1
    <2> DEFINE m == Min(recent)
    <2>2. m \in recent /\ \A i \in recent : m <= i
      BY <1>3, <2>1, MinOfNats
    <2>3. r = SubSeq(w, m, Len(w))
      BY <1>3 DEF Recent
    <2> HIDE DEF m
    <2>4. m \in 1 .. Len(w) /\ t - w[m] <= span
      BY <1>1, <2>2
    <2>5. /\ r \in Seq(Nat) /\ Len(r) = Len(w) - m + 1
          /\ \A i \in 1 .. Len(w) - m + 1 : r[i] = w[m + i - 1]
      BY <1>1, <2>3, <2>4, SubSeqProperties
    <2> HIDE DEF r
    <2>6. gone = m - 1
      BY <1>1, <2>4, <2>5
    <2>7. \A i \in 1 .. gone : i \in 1 .. Len(w) /\ t - w[i] > span
      <3> SUFFICES ASSUME NEW i \in 1 .. gone
                   PROVE  i \in 1 .. Len(w) /\ t - w[i] > span
        OBVIOUS
      <3>1. i \in 1 .. Len(w) /\ i < m
        BY <1>1, <2>4, <2>6
      <3>2. i \notin recent
        BY <2>2, <2>4, <3>1
      <3> QED
        BY <1>1, <3>1, <3>2
    <2>8. \A i \in 1 .. Len(r) : gone + i \in 1 .. Len(w) /\ r[i] = w[gone + i]
      BY <1>1, <2>4, <2>5, <2>6
    <2>9. r[1] = w[m]
      <3>1. 1 \in 1 .. Len(w) - m + 1 /\ m + 1 - 1 = m
        BY <1>1, <2>4
      <3> QED
        BY <2>5, <3>1
    <2> QED
      BY <1>1, <2>4, <2>5, <2>6, <2>7, <2>8, <2>9 DEF r
  <1> QED
    BY <1>2, <1>3

\* The length of what a sliding window keeps, from the number of entries at the
\* front that are too old.
LEMMA RecentLen ==
    ASSUME NEW w \in Seq(Nat), NEW t \in Nat, NEW span \in Nat, NEW g \in 0 .. Len(w),
           \A i \in 1 .. g : t - w[i] > span,
           g < Len(w) => t - w[g + 1] <= span
    PROVE  Len(Recent(w, t, span)) = Len(w) - g
  <1> DEFINE r == Recent(w, t, span)
             gone == Len(w) - Len(r)
  <1>1. /\ r \in Seq(Nat) /\ gone \in Nat
        /\ \A i \in 1 .. Len(r) : r[i] = w[gone + i]
        /\ \A i \in 1 .. gone : t - w[i] > span
        /\ Len(r) > 0 => t - r[1] <= span
    BY RecentFacts
  <1>2. Len(w) \in Nat /\ Len(r) \in Nat /\ \A i \in 1 .. Len(w) : w[i] \in Nat
    BY <1>1, ElementOfSeq, LenProperties
  <1> HIDE DEF r
  <1>3. CASE gone > g
    <2>1. g + 1 \in 1 .. gone /\ g < Len(w) /\ g + 1 \in 1 .. Len(w)
      BY <1>1, <1>2, <1>3
    <2>2. w[g + 1] \in Nat /\ t - w[g + 1] > span /\ t - w[g + 1] <= span
      BY <1>1, <1>2, <2>1, Zenon
    <2> QED
      BY <2>2
  <1>4. CASE gone < g
    <2>1. gone + 1 \in 1 .. g /\ 1 \in 1 .. Len(r) /\ Len(r) > 0 /\ gone + 1 \in 1 .. Len(w)
      BY <1>1, <1>2, <1>4
    <2>2. /\ r[1] = w[gone + 1] /\ t - r[1] <= span /\ w[gone + 1] \in Nat
          /\ t - w[gone + 1] > span
      BY <1>1, <1>2, <2>1, Zenon
    <2> QED
      BY <2>2
  <1>5. CASE gone = g
    BY <1>2, <1>5 DEF r
  <1> QED
    BY <1>1, <1>2, <1>3, <1>4, <1>5

\* The loop of all the windows: an instant is appended and the front is trimmed.  At
\* any later time the new window counts what the old one would, and the instant
\* itself as long as it lies within the span.
LEMMA WindowStep ==
    ASSUME NEW w \in Seq(Nat), NEW n \in Nat, NEW span \in Nat,
           \A i \in 1 .. Len(w) : w[i] <= n
    PROVE  LET r == Recent(Append(w, n), n, span)
           IN  /\ r \in Seq(Nat) /\ \A i \in 1 .. Len(r) : r[i] <= n
               /\ \A t \in Nat : n <= t =>
                     Len(Recent(r, t, span)) =
                       Len(Recent(w, t, span)) + (IF t - n <= span THEN 1 ELSE 0)
  <1> DEFINE v == Append(w, n)
             r == Recent(v, n, span)
             a == Len(v) - Len(r)
  <1>1. /\ v \in Seq(Nat) /\ Len(v) = Len(w) + 1 /\ Len(w) \in Nat
        /\ \A i \in 1 .. Len(w) : v[i] = w[i] /\ w[i] \in Nat
        /\ v[Len(w) + 1] = n
    BY AppendProperties, ElementOfSeq, LenProperties
  <1> HIDE DEF v
  <1>2. /\ r \in Seq(Nat) /\ a \in Nat /\ Len(r) \in Nat
        /\ \A i \in 1 .. Len(r) : a + i \in 1 .. Len(v) /\ r[i] = v[a + i]
        /\ \A i \in 1 .. a : i \in 1 .. Len(v) /\ n - v[i] > span
    <2>1. v \in Seq(Nat)
      BY <1>1
    <2>2. /\ r \in Seq(Nat) /\ a \in Nat
          /\ \A i \in 1 .. Len(r) : a + i \in 1 .. Len(v) /\ r[i] = v[a + i]
          /\ \A i \in 1 .. a : i \in 1 .. Len(v) /\ n - v[i] > span
      BY <2>1, RecentFacts
    <2> HIDE DEF r
    <2>3. Len(r) \in Nat
      BY <2>2, LenProperties
    <2> QED
      BY <2>2, <2>3
  <1>3. \A i \in 1 .. Len(v) : v[i] \in Nat /\ v[i] <= n
    <2> SUFFICES ASSUME NEW i \in 1 .. Len(v) PROVE v[i] \in Nat /\ v[i] <= n
      OBVIOUS
    <2>1. i \in 1 .. Len(w) \/ i = Len(w) + 1
      BY <1>1
    <2> QED
      BY <1>1, <2>1
  <1>4. \A i \in 1 .. Len(r) : r[i] <= n
    BY <1>2, <1>3
  <1> HIDE DEF r
  <1>5. ASSUME NEW t \in Nat, n <= t, t - n > span
        PROVE  Len(Recent(r, t, span)) = 0 /\ Len(Recent(w, t, span)) = 0
    <2>1. \A i \in 1 .. Len(r) : t - r[i] > span
      <3> SUFFICES ASSUME NEW i \in 1 .. Len(r) PROVE t - r[i] > span
        OBVIOUS
      <3>1. r[i] <= n /\ r[i] \in Nat
        BY <1>2, <1>3, <1>4
      <3> QED
        BY <1>5, <3>1
    <2>2. \A i \in 1 .. Len(w) : t - w[i] > span
      <3> SUFFICES ASSUME NEW i \in 1 .. Len(w) PROVE t - w[i] > span
        OBVIOUS
      <3>1. w[i] <= n /\ w[i] \in Nat
        BY <1>1
      <3> QED
        BY <1>5, <3>1
    <2>3. /\ Len(r) \in 0 .. Len(r) /\ ~(Len(r) < Len(r))
          /\ Len(w) \in 0 .. Len(w) /\ ~(Len(w) < Len(w))
      BY <1>1, <1>2
    <2>4. Len(Recent(r, t, span)) = Len(r) - Len(r)
      BY <1>2, <2>1, <2>3, RecentLen, ZenonT(60)
    <2>5. Len(Recent(w, t, span)) = Len(w) - Len(w)
      BY <2>2, <2>3, RecentLen, ZenonT(60)
    <2> QED
      BY <1>1, <1>2, <2>4, <2>5
  <1>6. ASSUME NEW t \in Nat, n <= t, t - n <= span
        PROVE  Len(Recent(r, t, span)) = Len(Recent(w, t, span)) + 1
    <2> DEFINE q == Recent(w, t, span)
               g == Len(w) - Len(q)
    <2>1. /\ q \in Seq(Nat) /\ g \in Nat /\ Len(q) \in Nat
          /\ \A i \in 1 .. Len(q) : g + i \in 1 .. Len(w) /\ q[i] = w[g + i]
          /\ \A i \in 1 .. g : i \in 1 .. Len(w) /\ t - w[i] > span
          /\ Len(q) > 0 => t - q[1] <= span
      BY RecentFacts, LenProperties
    <2> HIDE DEF q
    <2>2. g + 1 \in 1 .. Len(v) /\ t - v[g + 1] <= span
      <3>1. CASE Len(q) > 0
        <4>1. 1 \in 1 .. Len(q) /\ g + 1 \in 1 .. Len(w)
          BY <2>1, <3>1
        <4>2. q[1] = w[g + 1] /\ v[g + 1] = w[g + 1]
          BY <1>1, <2>1, <4>1
        <4> QED
          BY <1>1, <2>1, <3>1, <4>1, <4>2
      <3>2. CASE Len(q) = 0
        <4>1. g = Len(w)
          BY <1>1, <2>1, <3>2
        <4> QED
          BY <1>1, <1>6, <4>1
      <3> QED
        BY <2>1, <3>1, <3>2
    <2>3. a <= g
      <3> SUFFICES ASSUME a > g PROVE FALSE
        BY <1>2, <2>1
      <3>1. g + 1 \in 1 .. a
        BY <1>2, <2>1
      <3>2. n - v[g + 1] > span /\ v[g + 1] \in Nat
        BY <1>2, <1>3, <2>2, <3>1
      <3> QED
        BY <1>6, <2>2, <3>2
    <2> DEFINE k == g - a
    <2>0. /\ a \in Nat /\ g \in Nat /\ Len(r) \in Nat /\ Len(v) \in Nat
          /\ g + 1 <= Len(v) /\ a + Len(r) = Len(v)
      BY <1>1, <1>2, <2>1, <2>2
    <2> HIDE DEF a, g
    <2>4. k \in 0 .. Len(r) /\ k < Len(r) /\ a + k = g
      BY <2>3, <2>0
    <2>5. \A i \in 1 .. k : t - r[i] > span
      <3> SUFFICES ASSUME NEW i \in 1 .. k PROVE t - r[i] > span
        OBVIOUS
      <3>1. i \in 1 .. Len(r) /\ a + i \in 1 .. g
        BY <2>0, <2>4
      <3>2. r[i] = v[a + i] /\ a + i \in 1 .. Len(w) /\ t - w[a + i] > span
        BY <1>2, <2>1, <3>1
      <3> QED
        BY <1>1, <3>2
    <2>6. t - r[k + 1] <= span
      <3>1. k + 1 \in 1 .. Len(r) /\ a + (k + 1) = g + 1
        BY <2>0, <2>4
      <3>2. r[k + 1] = v[a + (k + 1)]
        BY <1>2, <3>1, Zenon
      <3> QED
        BY <2>2, <3>1, <3>2
    <2> HIDE DEF k
    <2>7. Len(Recent(r, t, span)) = Len(r) - k
      BY <1>2, <2>4, <2>5, <2>6, RecentLen
    <2>8. Len(r) - k = Len(q) + 1
      <3>1. Len(q) \in Nat /\ Len(v) = Len(w) + 1 /\ Len(w) \in Nat
        BY <1>1, <2>1
      <3>2. g = Len(w) - Len(q)
        BY DEF g
      <3> QED
        BY <2>0, <2>4, <3>1, <3>2
    <2> QED
      BY <2>7, <2>8 DEF q
  <1>7. ASSUME NEW t \in Nat, n <= t
        PROVE  Len(Recent(r, t, span)) =
                 Len(Recent(w, t, span)) + (IF t - n <= span THEN 1 ELSE 0)
    BY <1>5, <1>6, <1>7
  <1> QED
    BY <1>2, <1>4, <1>7 DEF r, v

-----------------------------------------------------------------------------
(* storage_io.rs.                                                          *)

\* Each tick of block_device_loop and ceph_osd_watch raises exactly what the
\* observer notes, because what was never missed is still remembered.
LEMMA StorageStep ==
    ASSUME Storage!IInv, [Storage!Next]_Storage!vars
    PROVE  Storage!IInv'
  <1>1. /\ lost = missed /\ osd_down = stopped
        /\ last \subseteq seen /\ seen \ missed \subseteq last
        /\ Storage!Active \subseteq ran /\ ran \ stopped \subseteq Storage!Active
    BY DEF Storage!IInv, Storage!LossIffMissed, Storage!DisksCompared, Storage!UnitsCompared
  <1>2. ASSUME lost' = missed', osd_down' = stopped', last' \subseteq seen',
               seen' \ missed' \subseteq last', Storage!Active' \subseteq ran',
               ran' \ stopped' \subseteq Storage!Active'
        PROVE  Storage!IInv'
    BY <1>2 DEF Storage!IInv, Storage!LossIffMissed, Storage!DisksCompared, Storage!UnitsCompared
  <1>3. CASE UNCHANGED <<Storage!blocks, Storage!osds>>
    <2>1. UNCHANGED <<last, lost, seen, missed, last_active, osd_down, ran, stopped>>
      BY <1>3 DEF Storage!blocks, Storage!osds
    <2>2. Storage!Active' = Storage!Active
      BY <2>1 DEF Storage!Active
    <2> QED
      BY <1>1, <1>2, <2>1, <2>2
  <1>4. ASSUME NEW read, Storage!BlockTick(read)
        PROVE  Storage!IInv'
    <2>1. /\ lost' = IF last = {} THEN lost ELSE lost \cup (last \ read)
          /\ last' = read
          /\ seen' = seen \cup read /\ missed' = missed \cup (seen \ read)
      BY <1>4 DEF Storage!BlockTick
    <2>2. UNCHANGED <<last_active, osd_down, ran, stopped>>
      BY <1>4 DEF Storage!BlockTick, Storage!osds
    <2>3. lost' = missed'
      BY <1>1, <2>1
    <2>4. Storage!Active' = Storage!Active
      BY <2>2 DEF Storage!Active
    <2> QED
      BY <1>1, <1>2, <2>1, <2>2, <2>3, <2>4
  <1>5. CASE Storage!CephTick
    <2> DEFINE Up == {o \in Storage!Listed : units[o] = "active"}
    <2>1. /\ last_active' = [o \in Storage!Listed \cup DOMAIN last_active |->
                               IF o \in Storage!Listed THEN units[o] ELSE last_active[o]]
          /\ osd_down' = osd_down \cup {o \in Storage!Listed \cap DOMAIN last_active :
                                          last_active[o] = "active" /\ units[o] # "active"}
          /\ ran' = ran \cup Up
          /\ stopped' = stopped \cup {o \in Storage!Listed \cap ran : units[o] # "active"}
          /\ UNCHANGED <<last, lost, seen, missed>>
      BY <1>5 DEF Storage!CephTick, Storage!blocks
    <2>2. Storage!Active' = Up \cup (Storage!Active \ Storage!Listed)
      BY <2>1 DEF Storage!Active
    <2>3. osd_down' = stopped'
      BY <1>1, <2>1 DEF Storage!Active
    <2>4. Storage!Active' \subseteq ran'
      BY <1>1, <2>1, <2>2
    <2>5. ran' \ stopped' \subseteq Storage!Active'
      BY <1>1, <2>1, <2>2
    <2> QED
      BY <1>1, <1>2, <2>1, <2>3, <2>4, <2>5
  <1> QED
    BY <1>3, <1>4, <1>5 DEF Storage!Next, Storage!vars, Storage!DiskChanges,
       Storage!UnitChanges, Storage!KmsgIoError, Storage!CephTickFails

\* Before the first tick nothing has been seen, and nothing is remembered.
LEMMA StorageInit == Storage!Init => Storage!IInv
  BY DEF Storage!Init, Storage!IInv, Storage!LossIffMissed, Storage!DisksCompared,
         Storage!UnitsCompared, Storage!Active

-----------------------------------------------------------------------------
(* storage_controller.rs.                                                  *)

\* Before the first enumeration no controller has been listed.
LEMMA RaidInit == Raid!Init => Raid!IInv
  BY DEF Raid!Init, Raid!IInv, Raid!LockupIffMissed

\* poll_loop compares with the last enumeration that listed anything, so whatever
\* was never missed is still in it.
LEMMA RaidStep ==
    ASSUME Raid!IInv, [Raid!Next]_Raid!vars
    PROVE  Raid!IInv'
  <1>1. CASE UNCHANGED <<last, lockup, seen, missed>>
    BY <1>1 DEF Raid!IInv, Raid!LockupIffMissed
  <1>2. ASSUME NEW listed, Raid!PollView(listed)
        PROVE  Raid!IInv'
    <2>1. /\ last' = [s \in listed |-> health[s]]
          /\ lockup' = lockup \cup (DOMAIN last \ DOMAIN last')
          /\ seen' = seen \cup listed /\ missed' = missed \cup (seen \ listed)
      BY <1>2 DEF Raid!PollView, Raid!Disappeared
    <2>2. DOMAIN last' = listed
      BY <2>1
    <2> QED
      BY <2>1, <2>2 DEF Raid!IInv, Raid!LockupIffMissed
  <1> QED
    BY <1>1, <1>2 DEF Raid!Next, Raid!vars, Raid!HardwareChanges, Raid!KmsgLockup, Raid!PollEmpty

-----------------------------------------------------------------------------
(* network_nic.rs, counter_loop.                                           *)

\* While every poll since the last baseline was good, last is the counter at the
\* last poll and the counter has only grown since.
LEMMA CountersStep ==
    ASSUME Counters!IInv, [Counters!Next]_Counters!vars
    PROVE  Counters!IInv'
  BY DEF Counters!IInv, Counters!Next, Counters!vars, Counters!CrcError,
     Counters!DriverReset, Counters!PollOk, Counters!PollFails, Counters!PollUnsupported,
     Counters!Polled, Counters!CheckDelta

\* counter_loop, check_delta: so a good poll raises exactly the difference.
LEMMA CountersExact ==
    ASSUME Counters!IInv, Counters!Next
    PROVE  Counters!DeltaExact
  <1> SUFFICES ASSUME polls' # polls, good, good' PROVE crc_d' = crc - atPoll
    BY DEF Counters!DeltaExact
  <1>1. Counters!PollOk
    BY DEF Counters!Next, Counters!CrcError, Counters!DriverReset, Counters!PollFails,
       Counters!PollUnsupported
  <1>2. crc_d' = IF crc > last THEN crc - last ELSE 0
    BY <1>1 DEF Counters!PollOk, Counters!CheckDelta, Counters!SaturatingSub
  <1> QED
    BY <1>2 DEF Counters!IInv

-----------------------------------------------------------------------------
(* network_nic.rs, run_rtnetlink.                                          *)

\* run_rtnetlink handles the messages in their order, so the last one on the
\* socket, or else the last one handled, is the state of the link.
LEMMA WireStep ==
    ASSUME Link!DownInv, [Link!Next]_Link!vars
    PROVE  /\ link' \in Link!OperStates
           /\ wire' \in Seq(Link!OperStates) /\ sessions' \in Nat \ {0}
           /\ session' = 0 => wire' = <<>> /\ last_state' = None
           /\ Link!WireTells'
  <1>1. /\ link \in Link!OperStates
        /\ wire \in Seq(Link!OperStates) /\ sessions \in Nat \ {0}
        /\ session = 0 => wire = <<>> /\ last_state = None
        /\ session # 0 => /\ wire # <<>> => wire[Len(wire)] = link
                          /\ wire = <<>> /\ last_state # None => last_state = link
    BY DEF Link!DownInv, Link!WireTells
  <1>2. CASE UNCHANGED <<wire, link, last_state, session, sessions>>
    BY <1>1, <1>2 DEF Link!WireTells
  <1>3. ASSUME NEW s \in Link!OperStates, link' = s, Link!Tell(s),
               UNCHANGED <<last_state, session, sessions>>
        PROVE  /\ link' \in Link!OperStates
               /\ wire' \in Seq(Link!OperStates) /\ sessions' \in Nat \ {0}
               /\ session' = 0 => wire' = <<>> /\ last_state' = None
               /\ Link!WireTells'
    <2>1. CASE session = 0
      BY <1>1, <1>3, <2>1 DEF Link!Tell, Link!WireTells
    <2>2. CASE session # 0
      <3>1. wire' = Append(wire, s)
        BY <1>3, <2>2 DEF Link!Tell
      <3>2. /\ wire' \in Seq(Link!OperStates) /\ wire' # <<>> /\ Len(wire') = Len(wire) + 1
            /\ wire'[Len(wire) + 1] = s
        BY <1>1, <3>1, AppendProperties
      <3> QED
        BY <1>1, <1>3, <2>2, <3>2 DEF Link!WireTells
    <2> QED
      BY <2>1, <2>2
  <1>4. CASE Link!Handle
    <2>1. /\ session # 0 /\ wire # <<>> /\ wire' = Tail(wire) /\ last_state' = Head(wire)
          /\ UNCHANGED <<link, session, sessions>>
      BY <1>4 DEF Link!Handle
    <2>2. /\ wire' \in Seq(Link!OperStates) /\ Head(wire) = wire[1]
          /\ Len(wire) \in Nat /\ Len(wire') = Len(wire) - 1
          /\ \A i \in 1 .. Len(wire') : wire'[i] = wire[i + 1]
      BY <1>1, <2>1, HeadTailProperties, LenProperties
    <2>3. wire[Len(wire)] = link
      BY <1>1, <2>1
    <2>4. wire' = <<>> => last_state' = link
      <3>1. wire' = <<>> => Len(wire) = 1
        <4>1. Len(<<>>) = 0
          OBVIOUS
        <4> QED
          BY <2>2, <4>1
      <3> QED
        BY <2>1, <2>2, <2>3, <3>1
    <2>5. wire' # <<>> => wire'[Len(wire')] = link
      <3>1. wire' # <<>> => Len(wire') \in 1 .. Len(wire') /\ Len(wire') + 1 = Len(wire)
        BY <2>2, EmptySeq, LenProperties
      <3> QED
        BY <2>2, <2>3, <3>1
    <2> QED
      BY <1>1, <2>1, <2>2, <2>4, <2>5 DEF Link!WireTells
  <1>5. CASE Link!Crash
    <2>1. /\ session' = 0 /\ wire' = <<>> /\ last_state' = None
          /\ UNCHANGED <<link, sessions>>
      BY <1>5 DEF Link!Crash
    <2>2. <<>> \in Seq(Link!OperStates)
      OBVIOUS
    <2> QED
      BY <1>1, <2>1, <2>2 DEF Link!WireTells
  <1>6. CASE Link!Listen
    <2>1. /\ session = 0 /\ session' = sessions + 1 /\ sessions' = sessions + 1
          /\ UNCHANGED <<link, wire, last_state>>
      BY <1>6 DEF Link!Listen
    <2>2. sessions + 1 \in Nat \ {0}
      BY <1>1
    <2> QED
      BY <1>1, <2>1, <2>2 DEF Link!WireTells
  <1>7. ASSUME NEW s \in Link!OperStates, Link!LinkChange(s)
        PROVE  link' = s /\ Link!Tell(s) /\ UNCHANGED <<last_state, session, sessions>>
    BY <1>7 DEF Link!LinkChange
  <1>8. CASE Link!AttrChange
    <2>1. Link!Tell(link) /\ link' = link /\ UNCHANGED <<last_state, session, sessions>>
      BY <1>8 DEF Link!AttrChange
    <2> QED
      BY <1>1, <1>3, <2>1
  <1>9. CASE Link!Tick \/ UNCHANGED Link!vars
    <2>1. UNCHANGED <<wire, link, last_state, session, sessions>>
      BY <1>9 DEF Link!Tick, Link!vars
    <2> QED
      BY <1>2, <2>1
  <1> QED
    BY <1>3, <1>4, <1>5, <1>6, <1>7, <1>8, <1>9 DEF Link!Next

\* run_rtnetlink: what was handled is told, a link that comes up is resolved unless
\* its state is the first one seen, and only an earlier connection leaves more.
LEMMA DownStep ==
    ASSUME None \notin Link!OperStates, Link!DownInv, [Link!Next]_Link!vars
    PROVE  Link!DownTells'
  <1>1. /\ last_state \notin {None, "up"} => down
        /\ sessions = 1 /\ session # 0 /\ last_state \in {None, "up"} => ~down
        /\ sessions \in Nat \ {0}
    BY DEF Link!DownInv, Link!DownTells
  <1>2. CASE UNCHANGED <<down, last_state, session, sessions>>
    BY <1>1, <1>2 DEF Link!DownTells
  <1>3. CASE Link!Handle
    <2> DEFINE s == Head(wire)
    <2>1. /\ session # 0 /\ last_state' = s /\ UNCHANGED <<session, sessions>>
          /\ \/ last_state = s /\ down' = down
             \/ /\ last_state # s
                /\ down' = IF s # "up" THEN TRUE ELSE IF last_state # None THEN FALSE ELSE down
      BY <1>3 DEF Link!Handle
    <2>0. s # None
      <3>1. wire \in Seq(Link!OperStates) /\ wire # <<>>
        BY <1>3 DEF Link!Handle, Link!DownInv
      <3> QED
        BY <3>1, HeadTailProperties
    <2> HIDE DEF s
    <2>2. CASE last_state = s /\ down' = down
      BY <1>1, <2>1, <2>2 DEF Link!DownTells
    <2>3. CASE last_state # s /\ s # "up"
      <3>1. down'
        BY <2>1, <2>3
      <3> QED
        BY <2>0, <2>1, <2>3, <3>1 DEF Link!DownTells
    <2>4. CASE last_state # s /\ s = "up" /\ last_state # None
      <3>1. ~down'
        BY <2>1, <2>4
      <3> QED
        BY <2>1, <2>4, <3>1 DEF Link!DownTells
    <2>5. CASE last_state # s /\ s = "up" /\ last_state = None
      <3>1. down' = down
        BY <2>1, <2>5
      <3> QED
        BY <1>1, <2>1, <2>5, <3>1 DEF Link!DownTells
    <2> QED
      BY <2>1, <2>2, <2>3, <2>4, <2>5
  <1>4. CASE Link!Crash
    BY <1>4 DEF Link!Crash, Link!DownTells
  <1>5. CASE Link!Listen
    <2>1. sessions' = sessions + 1 /\ UNCHANGED <<down, last_state>>
      BY <1>5 DEF Link!Listen
    <2>2. sessions' # 1
      BY <1>1, <2>1
    <2> QED
      BY <1>1, <2>1, <2>2 DEF Link!DownTells
  <1> QED
    BY <1>2, <1>3, <1>4, <1>5 DEF Link!Next, Link!vars, Link!LinkChange, Link!AttrChange,
       Link!Tick

\* The first connection has nothing to read, and nothing is told.
LEMMA DownInit == Link!Init => Link!DownInv
  <1> SUFFICES ASSUME Link!Init PROVE Link!DownInv
    OBVIOUS
  <1>1. wire \in Seq(Link!OperStates) /\ sessions \in Nat \ {0}
    BY DEF Link!Init
  <1> QED
    BY <1>1 DEF Link!Init, Link!DownInv, Link!WireTells, Link!DownTells

\* The window of the flap detector is the general one.
LEMMA LinkOperators == \A w, t, span : Link!Recent(w, t, span) = Recent(w, t, span)
  <1> SUFFICES ASSUME NEW w, NEW t, NEW span PROVE Link!Recent(w, t, span) = Recent(w, t, span)
    OBVIOUS
  <1> QED
    BY DEF Link!Recent, Recent, Link!Min, Min

\* What the steps below use of the invariant, with the types of the entries.
LEMMA FlapFacts ==
    ASSUME Link!FlapInv
    PROVE  /\ now \in Nat /\ sessions \in Nat \ {0} /\ session \in Nat /\ session <= sessions
           /\ win \in Seq(Nat) /\ Len(win) \in Nat
           /\ \A i \in 1 .. Len(win) : win[i] \in Nat
           /\ log \in Seq([at : Nat, session : Nat]) /\ Len(log) \in Nat
           /\ DOMAIN log = 1 .. Len(log)
           /\ \A i \in 1 .. Len(log) :
                 /\ log[i].at \in Nat /\ log[i].at <= now
                 /\ log[i].session \in 1 .. sessions
           /\ \A i, j \in 1 .. Len(log) : i <= j => log[i].at <= log[j].at
  <1>1. /\ win \in Seq(Nat) /\ log \in Seq([at : Nat, session : Nat])
        /\ now \in Nat /\ sessions \in Nat \ {0} /\ session \in Nat /\ session <= sessions
    BY DEF Link!FlapInv
  <1>2. /\ Len(win) \in Nat /\ Len(log) \in Nat /\ DOMAIN log = 1 .. Len(log)
        /\ \A i \in 1 .. Len(win) : win[i] \in Nat
        /\ \A i \in 1 .. Len(log) : log[i] \in [at : Nat, session : Nat]
    BY <1>1, ElementOfSeq, LenProperties
  <1>3. ASSUME NEW i \in 1 .. Len(log)
        PROVE  /\ log[i].at \in Nat /\ log[i].at <= now
               /\ log[i].session \in 1 .. sessions
    <2>1. log[i].at \in Nat /\ log[i].session \in Nat
      BY <1>2
    <2>2. log[i].at <= now /\ log[i].session \in 1 .. sessions
      BY DEF Link!FlapInv, Link!LogInOrder
    <2> QED
      BY <1>1, <2>1, <2>2
  <1>4. \A i, j \in 1 .. Len(log) : i <= j => log[i].at <= log[j].at
    BY DEF Link!FlapInv, Link!LogInOrder
  <1> QED
    BY <1>1, <1>2, <1>3, <1>4

\* Ages: an instant is older than the span or not, and a later one no older.
LEMMA Ages ==
    \A t, p, q, span \in Nat :
        /\ ~(t - p > span /\ t - p <= span)
        /\ p <= q /\ t - p <= span => t - q <= span
  OBVIOUS

\* A transition: the window stays the end of the log, and reaches the threshold exactly
\* when the log ends in that many transitions of this connection within the window.
LEMMA FlapHandled ==
    ASSUME FlapWindow \in Nat, FlapThreshold \in Nat \ {0}, Link!FlapInv, session # 0,
           UNCHANGED <<now, session, sessions>>,
           win' = Link!Trim(Append(win, now)),
           flap' = (flap \/ Len(win') >= FlapThreshold),
           log' = Append(log, [at |-> now, session |-> session])
    PROVE  Link!FlapInv'
  <1> /\ now \in Nat /\ sessions \in Nat \ {0} /\ session \in Nat /\ session <= sessions
      /\ win \in Seq(Nat) /\ Len(win) \in Nat
      /\ log \in Seq([at : Nat, session : Nat]) /\ Len(log) \in Nat /\ DOMAIN log = 1 .. Len(log)
    BY FlapFacts
  <1>0. /\ \A i \in 1 .. Len(log) :
              /\ log[i].at \in Nat /\ log[i].at <= now
              /\ log[i].session \in 1 .. sessions
        /\ \A i, j \in 1 .. Len(log) : i <= j => log[i].at <= log[j].at
    BY FlapFacts
  <1> DEFINE v == Append(win, now)
             x == [at |-> now, session |-> session]
             g == Len(log) - Len(win)
             a == Len(v) - Len(win')
             n == Len(log) + 1
             k == g + a
  <1>1. /\ v \in Seq(Nat) /\ Len(v) = Len(win) + 1
        /\ \A i \in 1 .. Len(win) : v[i] = win[i]
        /\ v[Len(win) + 1] = now
    BY AppendProperties
  <1>2. /\ log' \in Seq([at : Nat, session : Nat]) /\ Len(log') = n /\ DOMAIN log' = 1 .. n
        /\ \A i \in 1 .. Len(log) : log'[i] = log[i]
        /\ log'[n] = x
    <2>1. x \in [at : Nat, session : Nat]
      OBVIOUS
    <2> HIDE DEF x
    <2> QED
      BY <2>1, AppendProperties, LenProperties DEF x
  <1>3. win' = Recent(v, now, FlapWindow)
    BY LinkOperators DEF Link!Trim
  <1> HIDE DEF v
  <1>4. /\ win' \in Seq(Nat) /\ Len(win') \in Nat /\ a \in Nat
        /\ \A i \in 1 .. Len(win') : a + i \in 1 .. Len(v) /\ win'[i] = v[a + i]
        /\ \A i \in 1 .. a : i \in 1 .. Len(v) /\ now - v[i] > FlapWindow
        /\ Len(win') > 0 => now - win'[1] <= FlapWindow
    <2>1. v \in Seq(Nat)
      BY <1>1
    <2> DEFINE q == Recent(v, now, FlapWindow)
    <2>2. /\ q \in Seq(Nat) /\ Len(v) - Len(q) \in Nat
          /\ \A i \in 1 .. Len(q) :
                (Len(v) - Len(q)) + i \in 1 .. Len(v) /\ q[i] = v[(Len(v) - Len(q)) + i]
          /\ \A i \in 1 .. Len(v) - Len(q) : i \in 1 .. Len(v) /\ now - v[i] > FlapWindow
          /\ Len(q) > 0 => now - q[1] <= FlapWindow
      BY <2>1, RecentFacts, ZenonT(60)
    <2> HIDE DEF q
    <2>3. Len(q) \in Nat
      BY <2>2, LenProperties
    <2> QED
      BY <1>3, <2>2, <2>3 DEF q
  <1>5. /\ g \in Nat
        /\ \A i \in 1 .. Len(win) : win[i] = log[g + i].at /\ log[g + i].session = session
        /\ \A i \in 1 .. g : log[i].session # session \/ now - log[i].at > FlapWindow
    <2>1. g >= 0 /\ g \in Int
      BY DEF Link!FlapInv, Link!WinIsSuffix
    <2> QED
      BY <2>1 DEF Link!FlapInv, Link!WinIsSuffix
  <1>6. x.at = now /\ x.session = session
    OBVIOUS
  <1>7. /\ Len(log') - Len(win') = k /\ k \in Nat /\ n \in Nat /\ g + Len(v) = n
        /\ k + Len(win') = n /\ k = g + a /\ g \in Nat /\ a \in Nat
        /\ Len(log) = g + Len(win) /\ Len(v) = Len(win) + 1 /\ n = Len(log) + 1
        /\ Len(win') \in Nat
    BY <1>1, <1>2, <1>4, <1>5
  <1> HIDE DEF x, a, g, k, n
  <1>8. \A i \in 1 .. Len(v) :
            /\ g + i \in 1 .. n /\ v[i] = log'[g + i].at /\ log'[g + i].session = session
    <2> SUFFICES ASSUME NEW i \in 1 .. Len(v)
                 PROVE  g + i \in 1 .. n /\ v[i] = log'[g + i].at /\ log'[g + i].session = session
      OBVIOUS
    <2>1. g + i \in 1 .. n
      BY <1>1, <1>5, <1>7
    <2>2. CASE i = Len(win) + 1
      <3>1. g + i = n
        BY <1>1, <1>7, <2>2
      <3> QED
        BY <1>1, <1>2, <1>6, <2>1, <2>2, <3>1
    <2>3. CASE i # Len(win) + 1
      <3>1. i \in 1 .. Len(win)
        BY <1>1, <2>3
      <3>2. g + i \in 1 .. Len(log)
        BY <1>7, <3>1
      <3> QED
        BY <1>1, <1>2, <1>5, <2>1, <3>1, <3>2
    <2> QED
      BY <2>2, <2>3
  <1>9. \A i \in 1 .. Len(win') : win'[i] = log'[k + i].at /\ log'[k + i].session = session
    <2> SUFFICES ASSUME NEW i \in 1 .. Len(win')
                 PROVE  win'[i] = log'[k + i].at /\ log'[k + i].session = session
      OBVIOUS
    <2>1. a + i \in 1 .. Len(v) /\ win'[i] = v[a + i]
      BY <1>4
    <2>2. g + (a + i) = k + i
      BY <1>4, <1>5 DEF k
    <2> QED
      BY <1>8, <2>1, <2>2
  <1>10. \A i \in 1 .. k : log'[i].session # session \/ now - log'[i].at > FlapWindow
    <2> SUFFICES ASSUME NEW i \in 1 .. k
                 PROVE  log'[i].session # session \/ now - log'[i].at > FlapWindow
      OBVIOUS
    <2>1. CASE i <= g
      <3>1. i \in 1 .. g /\ i \in 1 .. Len(log)
        BY <1>7, <2>1
      <3> QED
        BY <1>2, <1>5, <3>1
    <2>2. CASE i > g
      <3>1. i - g \in 1 .. a /\ g + (i - g) = i
        BY <1>7, <2>2
      <3>2. i - g \in 1 .. Len(v) /\ now - v[i - g] > FlapWindow
        BY <1>4, <3>1
      <3>3. v[i - g] = log'[i].at
        BY <1>8, <3>1, <3>2
      <3> QED
        BY <3>2, <3>3
    <2>3. i <= g \/ i > g
      BY <1>7
    <2> QED
      BY <2>1, <2>2, <2>3
  <1>11. Link!WinIsSuffix'
    <2>1. Len(log') - Len(win') >= 0 /\ session' = session /\ now' = now
      BY <1>7
    <2> QED
      BY <1>7, <1>9, <1>10, <2>1, Zenon DEF Link!WinIsSuffix
  <1>12. \A i \in 1 .. n : i \in 1 .. Len(log) \/ i = n
    BY <1>7 DEF n
  <1>13. Link!LogInOrder'
    <2>1. ASSUME NEW i \in 1 .. n
          PROVE  /\ log'[i].at \in Nat /\ log'[i].at <= now
                 /\ log'[i].session \in 1 .. sessions
      <3>1. CASE i = n
        BY <1>2, <1>6, <3>1
      <3>2. CASE i \in 1 .. Len(log)
        <4>1. /\ log'[i] = log[i] /\ log[i].at \in Nat /\ log[i].at <= now
              /\ log[i].session \in 1 .. sessions
          BY <1>0, <1>2, <3>2, Zenon
        <4> QED
          BY <4>1, Zenon
      <3> QED
        BY <1>12, <3>1, <3>2
    <2>2. ASSUME NEW i \in 1 .. n, NEW j \in 1 .. n, i <= j
          PROVE  log'[i].at <= log'[j].at
      <3>1. CASE j = n
        BY <1>2, <1>6, <2>1, <3>1
      <3>2. CASE j \in 1 .. Len(log)
        <4>1. i \in 1 .. Len(log)
          BY <2>2, <3>2
        <4> QED
          BY <1>0, <1>2, <2>2, <3>2, <4>1
      <3> QED
        BY <1>12, <3>1, <3>2
    <2> QED
      BY <1>2, <2>1, <2>2 DEF Link!LogInOrder
  <1> DEFINE Dense(l, m, i) ==
               /\ i + FlapThreshold - 1 \in 1 .. m
               /\ l[i + FlapThreshold - 1].session = l[i].session
               /\ l[i + FlapThreshold - 1].at - l[i].at <= FlapWindow
  <1>14. flap <=> \E i \in 1 .. Len(log) : Dense(log, Len(log), i)
    BY DEF Link!FlapInv, Link!FlapIffDense
  <1>15. ASSUME NEW i \in 1 .. n, i + FlapThreshold - 1 \in 1 .. Len(log)
         PROVE  /\ i \in 1 .. Len(log)
                /\ Dense(log', n, i) <=> Dense(log, Len(log), i)
    <2>0. n = Len(log) + 1 /\ n \in Nat
      BY <1>7
    <2>1. i \in 1 .. Len(log)
      BY <1>15, <2>0
    <2>2. i + FlapThreshold - 1 \in 1 .. n
      BY <1>15, <2>0
    <2> QED
      BY <1>2, <1>15, <2>1, <2>2
  <1>16. ASSUME NEW i \in 1 .. n, i + FlapThreshold - 1 = n
         PROVE  Dense(log', n, i) <=> Len(win') >= FlapThreshold
    <2>1. /\ log'[n].session = session /\ log'[n].at = now /\ n \in 1 .. n
      BY <1>2, <1>6, <1>7, <1>16
    <2>2. Dense(log', n, i) <=> log'[i].session = session /\ now - log'[i].at <= FlapWindow
      BY <1>16, <2>1
    <2> HIDE DEF Dense
    <2>0. log'[i].at \in Nat
      <3>1. log'[i] \in [at : Nat, session : Nat]
        BY <1>2, ElementOfSeq
      <3> QED
        BY <3>1
    <2>3. CASE i <= k
      <3>1. i \in 1 .. k
        BY <1>7, <2>3
      <3>2. ~(Len(win') >= FlapThreshold)
        BY <1>4, <1>7, <1>16, <2>3
      <3>3. log'[i].session # session \/ now - log'[i].at > FlapWindow
        BY <1>10, <3>1
      <3>4. ~(now - log'[i].at > FlapWindow /\ now - log'[i].at <= FlapWindow)
        BY <2>0, Ages, Zenon
      <3> QED
        BY <2>2, <3>2, <3>3, <3>4, Zenon
    <2>4. CASE i > k
      <3>1. i - k \in 1 .. Len(win') /\ k + (i - k) = i /\ 1 \in 1 .. Len(win') /\ Len(win') > 0
        BY <1>4, <1>7, <1>16, <2>4
      <3>2. Len(win') >= FlapThreshold
        BY <1>4, <1>7, <1>16, <2>4
      <3>3. log'[i].session = session /\ win'[1] = log'[k + 1].at
        BY <1>9, <3>1
      <3>4. k + 1 \in 1 .. n /\ k + 1 <= i
        BY <1>7, <2>4
      <3>5. log'[k + 1].at <= log'[i].at /\ log'[k + 1].at \in Nat /\ log'[i].at \in Nat
        <4>1. log'[k + 1].at <= log'[i].at
          BY <1>2, <1>13, <3>4 DEF Link!LogInOrder
        <4>2. log'[k + 1] \in [at : Nat, session : Nat] /\ log'[i] \in [at : Nat, session : Nat]
          BY <1>2, <3>4, ElementOfSeq
        <4> QED
          BY <4>1, <4>2
      <3>6. now - log'[i].at <= FlapWindow
        <4>1. now - log'[k + 1].at <= FlapWindow
          BY <1>4, <3>1, <3>3, Zenon
        <4> QED
          BY <3>5, <4>1, Ages, Zenon
      <3> QED
        BY <2>2, <3>2, <3>3, <3>6
    <2>5. i <= k \/ i > k
      BY <1>7
    <2> QED
      BY <2>3, <2>4, <2>5
  <1> HIDE DEF Dense
  <1>17. flap' <=> \E i \in 1 .. n : Dense(log', n, i)
    <2>1. ASSUME flap' PROVE \E i \in 1 .. n : Dense(log', n, i)
      <3>1. CASE flap
        <4>1. PICK i \in 1 .. Len(log) : Dense(log, Len(log), i)
          BY <1>14, <3>1
        <4>2. i \in 1 .. n /\ i + FlapThreshold - 1 \in 1 .. Len(log)
          BY <4>1 DEF Dense, n
        <4> QED
          BY <1>15, <4>1, <4>2
      <3>2. CASE Len(win') >= FlapThreshold
        <4> DEFINE i == n - FlapThreshold + 1
        <4>1. i \in 1 .. n /\ i + FlapThreshold - 1 = n
          BY <1>7, <3>2
        <4> HIDE DEF i
        <4> QED
          BY <1>16, <3>2, <4>1
      <3> QED
        BY <2>1, <3>1, <3>2
    <2>2. ASSUME NEW i \in 1 .. n, Dense(log', n, i) PROVE flap'
      <3>1. i + FlapThreshold - 1 \in 1 .. n
        BY <2>2 DEF Dense
      <3>2. i + FlapThreshold - 1 \in 1 .. Len(log) \/ i + FlapThreshold - 1 = n
        BY <1>12, <3>1
      <3>3. CASE i + FlapThreshold - 1 \in 1 .. Len(log)
        BY <1>14, <1>15, <2>2, <3>3
      <3>4. CASE i + FlapThreshold - 1 = n
        BY <1>16, <2>2, <3>4
      <3> QED
        BY <3>2, <3>3, <3>4
    <2> QED
      BY <2>1, <2>2
  <1>18. Link!FlapIffDense'
    BY <1>2, <1>17 DEF Link!FlapIffDense, Dense
  <1>19. flap' \in BOOLEAN
    BY DEF Link!FlapInv
  <1> QED
    BY <1>2, <1>4, <1>11, <1>13, <1>18, <1>19 DEF Link!FlapInv

\* run_rtnetlink: every other message, the clock and a restart of the loop keep the window
\* the end of the log of this connection.
LEMMA FlapStep ==
    ASSUME FlapWindow \in Nat, FlapThreshold \in Nat \ {0}, Link!FlapInv, [Link!Next]_Link!vars
    PROVE  Link!FlapInv'
  <1>1. CASE UNCHANGED <<now, session, sessions, win, log, flap>>
    BY <1>1 DEF Link!FlapInv, Link!LogInOrder, Link!WinIsSuffix, Link!FlapIffDense
  <1>2. CASE Link!Handle
    <2>1. CASE last_state = Head(wire)
      <3>1. UNCHANGED <<now, session, sessions, win, log, flap>>
        BY <1>2, <2>1 DEF Link!Handle
      <3> QED
        BY <1>1, <3>1
    <2>2. CASE last_state # Head(wire)
      <3>1. /\ session # 0 /\ UNCHANGED <<now, session, sessions>>
            /\ win' = Link!Trim(Append(win, now))
            /\ flap' = (flap \/ Len(win') >= FlapThreshold)
            /\ log' = Append(log, [at |-> now, session |-> session])
        BY <1>2, <2>2 DEF Link!Handle
      <3> QED
        BY <3>1, FlapHandled
    <2> QED
      BY <2>1, <2>2
  <1>3. ASSUME UNCHANGED <<log, flap>>,
               now' \in Nat, now <= now', sessions' \in Nat \ {0}, sessions <= sessions',
               session' \in 0 .. sessions', win' \in Seq(Nat), session' = 0 => win' = <<>>,
               Link!WinIsSuffix'
        PROVE  Link!FlapInv'
    <2>1. Link!LogInOrder'
      <3>1. ASSUME NEW i \in 1 .. Len(log)
            PROVE  log[i].at <= now' /\ log[i].session \in 1 .. sessions'
        <4>1. /\ log[i].at \in Nat /\ log[i].at <= now /\ now \in Nat /\ sessions \in Nat
              /\ log[i].session \in 1 .. sessions
          BY FlapFacts
        <4> QED
          BY <1>3, <4>1
      <3> QED
        BY <1>3, <3>1, Zenon DEF Link!FlapInv, Link!LogInOrder
    <2>2. Link!FlapIffDense'
      BY <1>3 DEF Link!FlapInv, Link!FlapIffDense
    <2> QED
      BY <1>3, <2>1, <2>2 DEF Link!FlapInv
  <1>4. CASE Link!Tick
    <2>1. now' = now + 1 /\ UNCHANGED <<session, sessions, win, log, flap>>
      BY <1>4 DEF Link!Tick
    <2>2. now \in Nat /\ now' \in Nat /\ now <= now' /\ sessions \in Nat \ {0}
      BY <2>1 DEF Link!FlapInv
    <2>3. ASSUME NEW i \in 1 .. Len(log), now - log[i].at > FlapWindow
          PROVE  now' - log[i].at > FlapWindow
      <3>1. log[i].at \in Nat
        BY FlapFacts
      <3> QED
        BY <2>1, <2>2, <2>3, <3>1
    <2>4. ASSUME NEW i \in 1 .. Len(log) - Len(win)
          PROVE  log[i].session # session \/ now' - log[i].at > FlapWindow
      <3>1. i \in 1 .. Len(log)
        <4>1. Len(log) \in Nat /\ Len(win) \in Nat
          BY FlapFacts
        <4> QED
          BY <4>1
      <3>2. log[i].session # session \/ now - log[i].at > FlapWindow
        BY DEF Link!FlapInv, Link!WinIsSuffix
      <3> QED
        BY <2>3, <3>1, <3>2
    <2>5. Link!WinIsSuffix'
      BY <2>1, <2>4, Zenon DEF Link!FlapInv, Link!WinIsSuffix
    <2>6. sessions <= sessions' /\ session' \in 0 .. sessions' /\ win' \in Seq(Nat)
          /\ (session' = 0 => win' = <<>>) /\ sessions' \in Nat \ {0}
      BY <2>1, <2>2 DEF Link!FlapInv
    <2> QED
      BY <1>3, <2>1, <2>2, <2>5, <2>6
  <1>5. ASSUME UNCHANGED <<log, now>>, win' = <<>>, \A i \in 1 .. Len(log) : log[i].session # session'
        PROVE  Link!WinIsSuffix'
    <2>1. Len(<<>>) = 0 /\ 1 .. 0 = {} /\ Len(log) \in Nat
      BY FlapFacts
    <2>2. Len(log') - Len(win') = Len(log) /\ Len(log) >= 0 /\ 1 .. Len(win') = {}
      BY <1>5, <2>1
    <2> QED
      BY <1>5, <2>2, Zenon DEF Link!WinIsSuffix
  <1>6. CASE Link!Crash
    <2>1. session' = 0 /\ win' = <<>> /\ UNCHANGED <<now, log, flap, sessions>>
      BY <1>6 DEF Link!Crash
    <2>2. \A i \in 1 .. Len(log) : log[i].session # session'
      BY <2>1, FlapFacts
    <2>3. Link!WinIsSuffix'
      BY <1>5, <2>1, <2>2
    <2>4. /\ now' \in Nat /\ now <= now' /\ sessions' \in Nat \ {0} /\ sessions <= sessions'
          /\ session' \in 0 .. sessions'
      BY <2>1 DEF Link!FlapInv
    <2>5. win' \in Seq(Nat)
      BY <2>1
    <2> QED
      BY <1>3, <2>1, <2>3, <2>4, <2>5
  <1>7. CASE Link!Listen
    <2>1. /\ session = 0 /\ session' = sessions + 1 /\ sessions' = sessions + 1
          /\ UNCHANGED <<now, win, log, flap>>
      BY <1>7 DEF Link!Listen
    <2>2. \A i \in 1 .. Len(log) : log[i].session # session'
      <3> SUFFICES ASSUME NEW i \in 1 .. Len(log) PROVE log[i].session # session'
        OBVIOUS
      <3>1. log[i].session \in 1 .. sessions /\ sessions \in Nat
        BY FlapFacts
      <3> QED
        BY <2>1, <3>1
    <2>3. win' = <<>> /\ win' \in Seq(Nat)
      BY <2>1 DEF Link!FlapInv
    <2>4. Link!WinIsSuffix'
      BY <1>5, <2>1, <2>2, <2>3
    <2>5. /\ now' \in Nat /\ now <= now' /\ sessions' \in Nat \ {0} /\ sessions <= sessions'
          /\ session' \in 0 .. sessions'
      BY <2>1 DEF Link!FlapInv
    <2> QED
      BY <1>3, <2>1, <2>3, <2>4, <2>5
  <1>8. CASE (\E s \in Link!OperStates : Link!LinkChange(s)) \/ Link!AttrChange \/ UNCHANGED Link!vars
    <2>1. UNCHANGED <<now, session, sessions, win, log, flap>>
      BY <1>8 DEF Link!LinkChange, Link!AttrChange, Link!vars
    <2> QED
      BY <1>1, <2>1
  <1> QED
    BY <1>2, <1>4, <1>6, <1>7, <1>8 DEF Link!Next

\* Before the first message there is no transition.
LEMMA FlapInit == Link!Init => Link!FlapInv
  <1> SUFFICES ASSUME Link!Init PROVE Link!FlapInv
    OBVIOUS
  <1>1. /\ now = 0 /\ session = 1 /\ sessions = 1 /\ win = <<>> /\ log = <<>> /\ flap = FALSE
    BY DEF Link!Init
  <1>2. \A S : <<>> \in Seq(S)
    OBVIOUS
  <1>3. Len(<<>>) = 0 /\ 1 .. 0 = {} /\ DOMAIN <<>> = {} /\ 0 - 0 = 0 /\ 0 >= 0
    OBVIOUS
  <1>4. Link!LogInOrder
    BY <1>1, <1>3, Zenon DEF Link!LogInOrder
  <1>5. Link!WinIsSuffix
    BY <1>1, <1>3, Zenon DEF Link!WinIsSuffix
  <1>6. Link!FlapIffDense
    BY <1>1, <1>3, Zenon DEF Link!FlapIffDense
  <1>7. /\ now \in Nat /\ sessions \in Nat \ {0} /\ session \in 0 .. sessions /\ session # 0
    BY <1>1
  <1>8. win \in Seq(Nat) /\ log \in Seq([at : Nat, session : Nat]) /\ flap \in BOOLEAN
    BY <1>1, <1>2, Zenon
  <1> QED
    BY <1>4, <1>5, <1>6, <1>7, <1>8, Zenon DEF Link!FlapInv

-----------------------------------------------------------------------------
(* mempressure.rs, oom_loop.                                               *)

\* The events within a span are counted by a set of indices of their list: one
\* more event counts as long as it lies within the span.
LEMMA OneMore ==
    ASSUME NEW n \in Nat, NEW S \in SUBSET (1 .. n), NEW b \in BOOLEAN
    PROVE  Cardinality(S \cup (IF b THEN {n + 1} ELSE {})) =
             Cardinality(S) + (IF b THEN 1 ELSE 0)
  <1>1. IsFiniteSet(1 .. n) /\ IsFiniteSet(S)
    <2>1. 1 \in Int /\ n \in Int
      OBVIOUS
    <2>2. IsFiniteSet(1 .. n)
      BY <2>1, FS_Interval
    <2> QED
      BY <2>2, FS_Subset
  <1>2. Cardinality(S) \in Nat
    BY <1>1, FS_CardinalityType
  <1>3. CASE b
    <2>1. n + 1 \notin S
      OBVIOUS
    <2>2. Cardinality(S \cup {n + 1}) = Cardinality(S) + 1
      BY <1>1, <2>1, FS_AddElement
    <2> QED
      BY <1>3, <2>2
  <1>4. CASE ~b
    <2>1. S \cup {} = S
      OBVIOUS
    <2> QED
      BY <1>2, <1>4, <2>1
  <1> QED
    BY <1>3, <1>4

\* RecvKill: the kill joins those that count, as it joins the deque.
LEMMA KillCounted ==
    ASSUME StormInv, RecvKill
    PROVE  /\ StormInv'
           /\ Cardinality(Fresh(now)') = Len(storm')
  <1> DEFINE x == [line |-> Head(chan), seen |-> now]
             X == [line : Line, seen : Nat]
  <1>1. /\ now \in Nat /\ now <= MaxTime /\ MaxTime \in Nat /\ StormWindow \in Nat
        /\ lines \in Nat /\ ring \in Seq(Line) /\ chan \in Seq(Line) /\ handled \in Seq(X)
        /\ storm \in Seq(Nat) /\ \A i \in 1 .. Len(storm) : storm[i] <= now
        /\ \A t \in now .. MaxTime : Cardinality(Fresh(t)) = Len(Recent(storm, t, StormWindow))
    BY OomAssumption DEF StormInv
  <1>2. /\ chan # <<>> /\ chan' = Tail(chan) /\ now' = now /\ ring' = ring /\ lines' = lines
        /\ storm' = Recent(Append(storm, now), now, StormWindow)
        /\ handled' = Append(handled, x)
    BY DEF RecvKill, Recv, kernel, Trim
  <1>3. chan' \in Seq(Line) /\ x \in X /\ x.seen = now
    <2>1. Head(chan) \in Line /\ Tail(chan) \in Seq(Line)
      BY <1>1, <1>2, HeadTailProperties
    <2> QED
      BY <1>1, <1>2, <2>1
  <1> HIDE DEF x, X
  <1>4. /\ handled' \in Seq(X) /\ Len(handled') = Len(handled) + 1 /\ Len(handled) \in Nat
        /\ \A i \in 1 .. Len(handled) : handled'[i] = handled[i]
        /\ handled'[Len(handled) + 1] = x
    BY <1>1, <1>2, <1>3, AppendProperties, LenProperties
  <1>5. /\ storm' \in Seq(Nat) /\ \A i \in 1 .. Len(storm') : storm'[i] <= now
        /\ \A t \in Nat : now <= t =>
              Len(Recent(storm', t, StormWindow)) =
                Len(Recent(storm, t, StormWindow)) + (IF t - now <= StormWindow THEN 1 ELSE 0)
    <2> DEFINE q == Recent(Append(storm, now), now, StormWindow)
    <2>1. /\ q \in Seq(Nat) /\ \A i \in 1 .. Len(q) : q[i] <= now
          /\ \A t \in Nat : now <= t =>
                Len(Recent(q, t, StormWindow)) =
                  Len(Recent(storm, t, StormWindow)) + (IF t - now <= StormWindow THEN 1 ELSE 0)
      BY <1>1, WindowStep, ZenonT(60)
    <2> HIDE DEF q
    <2> QED
      BY <1>2, <2>1 DEF q
  <1>6. ASSUME NEW t \in now .. MaxTime
        PROVE  Cardinality(Fresh(t)') = Len(Recent(storm', t, StormWindow))
    <2> DEFINE b == t - now <= StormWindow
               D == IF b THEN {Len(handled) + 1} ELSE {}
    <2>1. Fresh(t)' = Fresh(t) \cup D
      <3>1. ASSUME NEW i \in 1 .. Len(handled) + 1
            PROVE  i \in Fresh(t)' <=> i \in Fresh(t) \cup D
        <4>1. CASE i = Len(handled) + 1
          <5>1. handled'[i].seen = now /\ i \notin 1 .. Len(handled) /\ i \in 1 .. Len(handled')
            BY <1>3, <1>4, <4>1
          <5> QED
            BY <4>1, <5>1 DEF Fresh
        <4>2. CASE i # Len(handled) + 1
          <5>1. i \in 1 .. Len(handled) /\ i \in 1 .. Len(handled') /\ handled'[i] = handled[i]
            BY <1>4, <4>2
          <5> QED
            BY <4>2, <5>1 DEF Fresh
        <4> QED
          BY <4>1, <4>2
      <3>2. /\ Fresh(t)' \subseteq 1 .. Len(handled) + 1
            /\ Fresh(t) \subseteq 1 .. Len(handled) + 1 /\ D \subseteq 1 .. Len(handled) + 1
        BY <1>4 DEF Fresh
      <3> QED
        BY <3>1, <3>2
    <2>2. Fresh(t) \in SUBSET (1 .. Len(handled))
      BY DEF Fresh
    <2>3. Cardinality(Fresh(t) \cup D) = Cardinality(Fresh(t)) + (IF b THEN 1 ELSE 0)
      BY <1>4, <2>2, OneMore
    <2>4. t \in Nat /\ now <= t
      BY <1>1
    <2> QED
      BY <1>1, <1>5, <2>1, <2>3, <2>4
  <1>7. StormInv'
    BY <1>1, <1>2, <1>3, <1>4, <1>5, <1>6 DEF StormInv, X
  <1>8. Len(Recent(storm', now, StormWindow)) = Len(storm')
    <2> DEFINE v == Append(storm, now)
    <2>1. v \in Seq(Nat)
      BY <1>1
    <2>2. storm' = Recent(v, now, StormWindow) /\ (Len(storm') > 0 => now - storm'[1] <= StormWindow)
      BY <1>1, <1>2, <2>1, RecentFacts
    <2>3. Len(storm') \in Nat /\ 0 \in 0 .. Len(storm') /\ (\A i \in 1 .. 0 : now - storm'[i] > StormWindow)
      BY <1>5, LenProperties
    <2>4. 0 < Len(storm') => now - storm'[0 + 1] <= StormWindow
      BY <2>2, <2>3
    <2>5. Len(Recent(storm', now, StormWindow)) = Len(storm') - 0
      BY <1>1, <1>5, <2>3, <2>4, RecentLen
    <2> QED
      BY <2>3, <2>5
  <1>9. now \in now .. MaxTime /\ now' = now
    BY <1>1, <1>2
  <1> QED
    BY <1>6, <1>7, <1>8, <1>9 DEF Fresh

\* A line joins a ring or channel, which drops its oldest one when it is full.
LEMMA Pushed ==
    ASSUME NEW S, NEW s \in Seq(S), NEW x \in S, NEW cap \in Nat \ {0}
    PROVE  (IF Len(s) < cap THEN Append(s, x) ELSE Append(Tail(s), x)) \in Seq(S)
  <1>1. CASE Len(s) < cap
    BY <1>1, AppendProperties
  <1>2. CASE ~(Len(s) < cap)
    <2>1. s # <<>>
      <3>1. Len(<<>>) = 0
        OBVIOUS
      <3> QED
        BY <1>2, <3>1
    <2>2. Tail(s) \in Seq(S)
      BY <2>1, HeadTailProperties
    <2> QED
      BY <1>2, <2>2, AppendProperties
  <1> QED
    BY <1>1, <1>2

\* While the deque and the kills stay, time only takes from both.
LEMMA StormKept ==
    ASSUME StormInv, UNCHANGED <<storm, handled>>, now' \in Nat, now <= now', now' <= MaxTime,
           lines' \in Nat, ring' \in Seq(Line), chan' \in Seq(Line)
    PROVE  StormInv'
  <1>1. /\ now \in Nat /\ storm \in Seq(Nat) /\ handled \in Seq([line : Line, seen : Nat])
        /\ MaxTime \in Nat
        /\ \A i \in 1 .. Len(storm) : storm[i] <= now /\ storm[i] \in Nat
        /\ \A t \in now .. MaxTime : Cardinality(Fresh(t)) = Len(Recent(storm, t, StormWindow))
    BY OomAssumption, ElementOfSeq DEF StormInv
  <1>2. \A i \in 1 .. Len(storm') : storm'[i] <= now'
    BY <1>1
  <1>3. ASSUME NEW t \in now' .. MaxTime
        PROVE  Cardinality(Fresh(t)') = Len(Recent(storm', t, StormWindow))
    <2>1. Fresh(t)' = Fresh(t)
      BY DEF Fresh
    <2>2. t \in now .. MaxTime
      BY <1>1
    <2> QED
      BY <1>1, <2>1, <2>2
  <1> QED
    BY <1>1, <1>2, <1>3 DEF StormInv

\* oom_loop: the deque counts every kill within the window, after every step.
LEMMA StormStep ==
    ASSUME StormInv, [Next]_vars
    PROVE  StormInv'
  <1>1. /\ now \in Nat /\ now <= MaxTime /\ MaxTime \in Nat
        /\ lines \in Nat /\ ring \in Seq(Line) /\ chan \in Seq(Line)
        /\ RingSize \in Nat \ {0} /\ Buffer \in Nat \ {0}
    BY OomAssumption DEF StormInv
  <1>2. CASE UNCHANGED <<now, lines, ring, chan, storm, handled>>
    BY <1>1, <1>2, StormKept
  <1>3. CASE Tick
    <2>1. /\ now' = now + 1 /\ now < MaxTime
          /\ UNCHANGED <<lines, ring, chan, storm, handled>>
      BY <1>3 DEF Tick, kernel
    <2>2. now' \in Nat /\ now <= now' /\ now' <= MaxTime
      BY <1>1, <2>1
    <2> QED
      BY <1>1, <2>1, <2>2, StormKept
  <1>4. ASSUME NEW c \in Comms \cup {None}, KernelLogs(c)
        PROVE  StormInv'
    <2> DEFINE line == [seq |-> lines + 1, comm |-> c]
    <2>1. /\ ring' = IF Len(ring) < RingSize THEN Append(ring, line) ELSE Append(Tail(ring), line)
          /\ lines' = lines + 1 /\ UNCHANGED <<now, chan, storm, handled>>
      BY <1>4 DEF KernelLogs, consumer
    <2>2. line \in Line
      BY <1>1 DEF Line
    <2> HIDE DEF line
    <2>3. ring' \in Seq(Line)
      BY <1>1, <2>1, <2>2, Pushed
    <2>4. lines' \in Nat /\ now <= now'
      BY <1>1, <2>1
    <2> QED
      BY <1>1, <2>1, <2>3, <2>4, StormKept
  <1>5. CASE ReadRecord
    <2>1. /\ ring # <<>> /\ ring' = Tail(ring)
          /\ chan' = IF Len(chan) < Buffer THEN Append(chan, Head(ring))
                     ELSE Append(Tail(chan), Head(ring))
          /\ UNCHANGED <<now, lines, storm, handled>>
      BY <1>5 DEF ReadRecord, Broadcast, consumer
    <2>2. Head(ring) \in Line /\ ring' \in Seq(Line)
      BY <1>1, <2>1, HeadTailProperties
    <2>3. chan' \in Seq(Line)
      BY <1>1, <2>1, <2>2, Pushed
    <2> QED
      BY <1>1, <2>1, <2>2, <2>3, StormKept
  <1>6. CASE RecvOther
    <2>1. /\ chan # <<>> /\ chan' = Tail(chan)
          /\ UNCHANGED <<now, lines, ring, storm, handled>>
      BY <1>6 DEF RecvOther, Recv, kernel
    <2>2. chan' \in Seq(Line)
      BY <1>1, <2>1, HeadTailProperties
    <2> QED
      BY <1>1, <2>1, <2>2, StormKept
  <1>7. CASE Resync \/ RecvLagged \/ UNCHANGED vars
    <2>1. UNCHANGED <<now, lines, ring, chan, storm, handled>>
      BY <1>7 DEF Resync, RecvLagged, vars, kernel, consumer
    <2> QED
      BY <1>2, <2>1
  <1> QED
    BY <1>3, <1>4, <1>5, <1>6, <1>7, KillCounted DEF Next

\* oom_loop starts with an empty deque.
LEMMA StormInit == Init => StormInv
  <1> SUFFICES ASSUME Init PROVE StormInv
    OBVIOUS
  <1>1. now = 0 /\ lines = 0 /\ ring = <<>> /\ chan = <<>> /\ storm = <<>> /\ handled = <<>>
    BY DEF Init
  <1>2. \A S : <<>> \in Seq(S)
    OBVIOUS
  <1>3. Len(<<>>) = 0 /\ 1 .. 0 = {}
    OBVIOUS
  <1>4. \A t : Fresh(t) = {}
    BY <1>1, <1>3 DEF Fresh
  <1>5. Cardinality({}) = 0
    BY FS_EmptySet
  <1>6. ASSUME NEW t PROVE Recent(<<>>, t, StormWindow) = <<>>
    BY DEF Recent
  <1>7. /\ ring \in Seq(Line) /\ chan \in Seq(Line) /\ storm \in Seq(Nat)
        /\ handled \in Seq([line : Line, seen : Nat])
    BY <1>1, <1>2, Zenon
  <1>8. \A t : Cardinality(Fresh(t)) = Len(Recent(storm, t, StormWindow))
    BY <1>1, <1>3, <1>4, <1>5, <1>6, Zenon
  <1>9. /\ now \in Nat /\ lines \in Nat /\ now <= MaxTime
        /\ \A i \in 1 .. Len(storm) : storm[i] <= now
    BY <1>1, <1>3, OomAssumption
  <1> QED
    BY <1>7, <1>8, <1>9, Zenon DEF StormInv

\* RecvKill: oom_storm is observed when the trimmed deque is long enough, and that is
\* when enough kills lie within the window.
LEMMA StormExact ==
    ASSUME StormInv, Next
    PROVE  StormIffDense
  <1> SUFFICES ASSUME Handles
               PROVE  (Storm \in sent') <=>
                        ( /\ Cardinality({i \in 1 .. Len(handled') :
                                            now - handled'[i].seen =< StormWindow}) >= StormCount
                          /\ Due(Storm))
    BY DEF StormIffDense
  <1>1. RecvKill
    <2> SUFFICES ASSUME handled' = handled PROVE FALSE
      BY DEF Next, Tick, KernelLogs, Resync, ReadRecord, RecvLagged, RecvOther, consumer
    <2>1. Len(handled) \in Nat
      BY LenProperties DEF StormInv
    <2> QED
      BY <2>1 DEF Handles
  <1>2. /\ Cardinality(Fresh(now)') = Len(storm') /\ now' = now
    <2>1. now' = now
      BY <1>1 DEF RecvKill, Recv
    <2> QED
      BY <1>1, <2>1, KillCounted, Zenon
  <1>3. Fresh(now)' = {i \in 1 .. Len(handled') : now - handled'[i].seen =< StormWindow}
    BY <1>2 DEF Fresh
  <1>4. /\ chan # <<>> /\ Head(chan).comm # None
        /\ sent' = {f \in {Head(chan).comm} \cup IF Len(storm') >= StormCount THEN {Storm} ELSE {} :
                      Due(f)}
    BY <1>1 DEF RecvKill, Recv, Notify, IsStorm
  <1>5. Head(chan).comm # Storm
    <2>1. Head(chan) \in Line
      BY <1>4, HeadTailProperties DEF StormInv
    <2> QED
      BY <1>4, <2>1, OomAssumption DEF Line, Storm
  <1> QED
    BY <1>2, <1>3, <1>4, <1>5

-----------------------------------------------------------------------------
(* kmsg.rs and oom_loop: no kill is lost without a trace.                  *)

\* The places of a queue after a push.
LEMMA AppendPlaces ==
    ASSUME NEW S, NEW s \in Seq(S), NEW x \in S
    PROVE  LET t == Append(s, x)
           IN  /\ t \in Seq(S) /\ Len(t) = Len(s) + 1 /\ Len(s) \in Nat
               /\ DOMAIN t = DOMAIN s \cup {Len(t)}
               /\ t[Len(t)] = x
               /\ \A i \in DOMAIN s : i \in Nat /\ i < Len(t) /\ t[i] = s[i]
  <1> DEFINE t == Append(s, x)
  <1>1. /\ t \in Seq(S) /\ Len(s) \in Nat /\ Len(t) = Len(s) + 1
        /\ \A i \in 1 .. Len(s) : t[i] = s[i]
        /\ t[Len(s) + 1] = x
        /\ DOMAIN s = 1 .. Len(s) /\ DOMAIN t = 1 .. Len(t)
    BY AppendProperties, LenProperties
  <1> HIDE DEF t
  <1>2. DOMAIN t = DOMAIN s \cup {Len(t)}
    <2>1. Len(s) \in Nat /\ Len(t) = Len(s) + 1 /\ DOMAIN s = 1 .. Len(s) /\ DOMAIN t = 1 .. Len(t)
      BY <1>1
    <2> QED
      BY <2>1
  <1>3. ASSUME NEW i \in DOMAIN s PROVE i \in Nat /\ i < Len(t) /\ t[i] = s[i]
    <2>1. i \in 1 .. Len(s) /\ Len(s) \in Nat /\ Len(t) = Len(s) + 1
      BY <1>1
    <2> QED
      BY <1>1, <2>1
  <1> QED
    BY <1>1, <1>2, <1>3 DEF t

\* The places of a queue after its head was taken.
LEMMA TailPlaces ==
    ASSUME NEW S, NEW s \in Seq(S), s # <<>>
    PROVE  LET t == Tail(s)
           IN  /\ t \in Seq(S) /\ Head(s) \in S /\ Head(s) = s[1] /\ 1 \in DOMAIN s
               /\ Len(s) \in Nat /\ Len(t) \in Nat /\ Len(t) = Len(s) - 1
               /\ \A i \in DOMAIN t :
                     i \in Nat /\ 1 < i + 1 /\ i + 1 \in DOMAIN s /\ t[i] = s[i + 1]
               /\ \A i \in DOMAIN s : i # 1 => i - 1 \in DOMAIN t /\ t[i - 1] = s[i]
  <1> DEFINE t == Tail(s)
  <1>1. /\ t \in Seq(S) /\ Head(s) \in S /\ Head(s) = s[1]
        /\ Len(s) \in Nat /\ Len(t) \in Nat /\ Len(t) = Len(s) - 1
        /\ \A i \in 1 .. Len(t) : t[i] = s[i + 1]
        /\ DOMAIN s = 1 .. Len(s) /\ DOMAIN t = 1 .. Len(t)
    BY HeadTailProperties, LenProperties
  <1> HIDE DEF t
  <1>2. 1 \in DOMAIN s
    <2>1. Len(s) # 0
      BY EmptySeq
    <2> QED
      BY <1>1, <2>1
  <1>3. ASSUME NEW i \in DOMAIN t
        PROVE  i \in Nat /\ 1 < i + 1 /\ i + 1 \in DOMAIN s /\ t[i] = s[i + 1]
    <2>1. i \in 1 .. Len(t)
      BY <1>1
    <2>2. i \in Nat /\ 1 < i + 1 /\ i + 1 \in 1 .. Len(s)
      <3>1. Len(s) \in Nat /\ Len(t) = Len(s) - 1
        BY <1>1
      <3> QED
        BY <2>1, <3>1
    <2> QED
      BY <1>1, <2>1, <2>2, Zenon
  <1>4. ASSUME NEW i \in DOMAIN s, i # 1
        PROVE  i - 1 \in DOMAIN t /\ t[i - 1] = s[i]
    <2>1. i - 1 \in 1 .. Len(t) /\ (i - 1) + 1 = i
      BY <1>1, <1>4
    <2> QED
      BY <1>1, <2>1
  <1> QED
    BY <1>1, <1>2, <1>3, <1>4 DEF t

\* A record is pushed into the ring or the channel.
LEMMA KillPushed ==
    ASSUME NEW s \in Seq(Line), NEW x \in Line
    PROVE  Kills(Append(s, x)) = Kills(s) \cup (IF x.comm = None THEN {} ELSE {x.seq})
  <1> DEFINE t == Append(s, x)
  <1>1. /\ DOMAIN t = DOMAIN s \cup {Len(t)} /\ t[Len(t)] = x
        /\ \A i \in DOMAIN s : t[i] = s[i]
    BY AppendPlaces
  <1> HIDE DEF t
  <1>2. ASSUME NEW n PROVE n \in Kills(t) <=> \E i \in DOMAIN t : t[i].comm # None /\ t[i].seq = n
    BY DEF Kills
  <1>3. ASSUME NEW n PROVE n \in Kills(s) <=> \E i \in DOMAIN s : s[i].comm # None /\ s[i].seq = n
    BY DEF Kills
  <1>4. ASSUME NEW n
        PROVE  n \in Kills(t) <=> n \in Kills(s) \/ (x.comm # None /\ x.seq = n)
    <2>1. ASSUME n \in Kills(t) PROVE n \in Kills(s) \/ (x.comm # None /\ x.seq = n)
      <3>1. PICK i \in DOMAIN t : t[i].comm # None /\ t[i].seq = n
        BY <1>2, <2>1
      <3>2. CASE i \in DOMAIN s
        BY <1>1, <1>3, <3>1, <3>2
      <3>3. CASE i = Len(t)
        BY <1>1, <3>1, <3>3
      <3> QED
        BY <1>1, <3>2, <3>3
    <2>2. ASSUME n \in Kills(s) PROVE n \in Kills(t)
      <3>1. PICK i \in DOMAIN s : s[i].comm # None /\ s[i].seq = n
        BY <1>3, <2>2
      <3>2. i \in DOMAIN t /\ t[i] = s[i]
        BY <1>1
      <3> QED
        BY <1>2, <3>1, <3>2
    <2>3. ASSUME x.comm # None, x.seq = n PROVE n \in Kills(t)
      <3>1. Len(t) \in DOMAIN t /\ t[Len(t)] = x
        BY <1>1
      <3> QED
        BY <1>2, <2>3, <3>1
    <2> QED
      BY <2>1, <2>2, <2>3
  <1>5. Kills(t) = Kills(s) \cup (IF x.comm = None THEN {} ELSE {x.seq})
    BY <1>4
  <1> QED
    BY <1>5 DEF t

\* A record leaves the ring or the channel.
LEMMA KillTaken ==
    ASSUME NEW s \in Seq(Line), s # <<>>
    PROVE  Kills(s) = Kills(Tail(s)) \cup (IF Head(s).comm = None THEN {} ELSE {Head(s).seq})
  <1> DEFINE t == Tail(s)
             x == Head(s)
  <1>1. /\ x = s[1] /\ 1 \in DOMAIN s
        /\ \A i \in DOMAIN t : i + 1 \in DOMAIN s /\ t[i] = s[i + 1]
        /\ \A i \in DOMAIN s : i # 1 => i - 1 \in DOMAIN t /\ t[i - 1] = s[i]
    BY TailPlaces
  <1> HIDE DEF t, x
  <1>2. ASSUME NEW n PROVE n \in Kills(t) <=> \E i \in DOMAIN t : t[i].comm # None /\ t[i].seq = n
    BY DEF Kills
  <1>3. ASSUME NEW n PROVE n \in Kills(s) <=> \E i \in DOMAIN s : s[i].comm # None /\ s[i].seq = n
    BY DEF Kills
  <1>4. ASSUME NEW n
        PROVE  n \in Kills(s) <=> n \in Kills(t) \/ (x.comm # None /\ x.seq = n)
    <2>1. ASSUME n \in Kills(s) PROVE n \in Kills(t) \/ (x.comm # None /\ x.seq = n)
      <3>1. PICK i \in DOMAIN s : s[i].comm # None /\ s[i].seq = n
        BY <1>3, <2>1
      <3>2. CASE i = 1
        BY <1>1, <3>1, <3>2
      <3>3. CASE i # 1
        <4>1. i - 1 \in DOMAIN t /\ t[i - 1] = s[i]
          BY <1>1, <3>3
        <4> QED
          BY <1>2, <3>1, <4>1
      <3> QED
        BY <3>2, <3>3
    <2>2. ASSUME n \in Kills(t) PROVE n \in Kills(s)
      <3>1. PICK i \in DOMAIN t : t[i].comm # None /\ t[i].seq = n
        BY <1>2, <2>2
      <3>2. i + 1 \in DOMAIN s /\ t[i] = s[i + 1]
        BY <1>1
      <3> QED
        BY <1>3, <3>1, <3>2
    <2>3. ASSUME x.comm # None, x.seq = n PROVE n \in Kills(s)
      <3>1. 1 \in DOMAIN s /\ s[1] = x
        BY <1>1
      <3> QED
        BY <1>3, <2>3, <3>1
    <2> QED
      BY <2>1, <2>2, <2>3
  <1>5. Kills(s) = Kills(t) \cup (IF x.comm = None THEN {} ELSE {x.seq})
    BY <1>4
  <1> QED
    BY <1>5 DEF t, x

\* The kernel logs a record: the ring still holds the last ones, and the one it
\* overwrites shows in the count of lines.
LEMMA KillsLogged ==
    ASSUME KillsInv, NEW c \in Comms \cup {None}, KernelLogs(c)
    PROVE  KillsInv'
  <1> DEFINE line == [seq |-> lines + 1, comm |-> c]
             full == Len(ring) = RingSize
             q == IF full THEN Tail(ring) ELSE ring
             added == IF c = None THEN {} ELSE {lines + 1}
  <1>1. /\ ring \in Seq(Line) /\ chan \in Seq(Line) /\ Len(ring) \in Nat /\ Len(chan) \in Nat
        /\ handled \in Seq([line : Line, seen : Nat])
        /\ lines \in Nat /\ broadcast \in Nat /\ received \in Nat
        /\ lagged \in Nat /\ warned \in Nat /\ now \in Nat
        /\ broadcast + Len(ring) <= lines /\ Len(ring) <= RingSize
        /\ RingSize \in Nat \ {0}
    BY LenProperties, OomAssumption DEF KillsInv
  <1>2. /\ ring' = Append(q, line) /\ lines' = lines + 1 /\ kills' = kills \cup added
        /\ UNCHANGED <<chan, handled, broadcast, received, lagged, warned, now>>
    <2>1. Len(ring) < RingSize <=> ~full
      BY <1>1
    <2> QED
      BY <2>1 DEF KernelLogs, consumer
  <1>3. line \in Line /\ line.seq = lines + 1 /\ line.comm = c
    BY <1>1 DEF Line
  <1> HIDE DEF line
  <1>4. /\ q \in Seq(Line) /\ Len(q) \in Nat
        /\ Len(q) = IF full THEN Len(ring) - 1 ELSE Len(ring)
        /\ \A i \in DOMAIN q : q[i].seq = lines - Len(q) + i
        /\ Kills(q) \subseteq Kills(ring) /\ (~full => Kills(q) = Kills(ring))
    <2>1. CASE ~full
      BY <1>1, <2>1 DEF KillsInv, InKernelOrder
    <2>2. CASE full
      <3>1. ring # <<>> /\ q = Tail(ring)
        <4>1. Len(ring) # 0
          BY <1>1, <2>2
        <4> QED
          BY <2>2, <4>1, EmptySeq
      <3>2. /\ q \in Seq(Line) /\ Len(q) \in Nat /\ Len(q) = Len(ring) - 1
            /\ \A i \in DOMAIN q : i \in Nat /\ i + 1 \in DOMAIN ring /\ q[i] = ring[i + 1]
        BY <1>1, <3>1, TailPlaces
      <3>3. Kills(q) \subseteq Kills(ring)
        BY <1>1, <3>1, KillTaken
      <3>4. ASSUME NEW i \in DOMAIN q PROVE q[i].seq = lines - Len(q) + i
        <4>1. q[i].seq = lines - Len(ring) + (i + 1) /\ i \in Nat
          BY <3>2 DEF KillsInv, InKernelOrder
        <4>2. Len(q) = Len(ring) - 1 /\ Len(ring) \in Nat /\ lines \in Nat
          BY <1>1, <3>2
        <4> HIDE DEF q, full
        <4>3. lines - Len(ring) + (i + 1) = lines - Len(q) + i
          BY <4>1, <4>2
        <4> QED
          BY <4>1, <4>3, Zenon
      <3> QED
        BY <2>2, <3>2, <3>3, <3>4
    <2> QED
      BY <2>1, <2>2
  <1> HIDE DEF q
  <1>5. /\ ring' \in Seq(Line) /\ Len(ring') = Len(q) + 1 /\ ring'[Len(ring')] = line
        /\ DOMAIN ring' = DOMAIN q \cup {Len(ring')}
        /\ \A i \in DOMAIN q : i \in Nat /\ ring'[i] = q[i]
    BY <1>2, <1>3, <1>4, AppendPlaces
  <1>6. /\ lines' \in Nat /\ Len(ring') <= RingSize /\ Len(ring') \in Nat
        /\ lines' - Len(ring') = lines - Len(q)
        /\ lines - Len(ring) <= lines - Len(q)
        /\ broadcast + Len(ring') <= lines'
        /\ lines' = broadcast + Len(ring') => ~full /\ lines = broadcast + Len(ring)
    <2>1. Len(q) = IF full THEN Len(ring) - 1 ELSE Len(ring)
      BY <1>4
    <2>2. Len(ring') = Len(q) + 1 /\ lines' = lines + 1
      BY <1>2, <1>5
    <2>3. /\ lines \in Nat /\ broadcast \in Nat /\ Len(ring) \in Nat /\ Len(q) \in Nat
          /\ broadcast + Len(ring) <= lines /\ Len(ring) <= RingSize /\ RingSize \in Nat
      BY <1>1, <1>4
    <2> QED
      BY <2>1, <2>2, <2>3
  <1>7. ASSUME NEW i \in DOMAIN ring' PROVE ring'[i].seq = lines' - Len(ring') + i
    <2>1. CASE i \in DOMAIN q
      <3>1. ring'[i].seq = lines - Len(q) + i
        BY <1>4, <1>5, <2>1
      <3> QED
        BY <1>6, <3>1
    <2>2. CASE i = Len(ring')
      <3>1. ring'[i].seq = lines + 1
        BY <1>3, <1>5, <2>2
      <3>2. lines' - Len(ring') + i = lines + 1
        BY <1>1, <1>2, <1>6, <2>2
      <3> QED
        BY <3>1, <3>2
    <2> QED
      BY <1>5, <2>1, <2>2
  <1>8. Kills(ring') = Kills(q) \cup added
    BY <1>2, <1>3, <1>4, KillPushed
  <1>9. HandledKills' = HandledKills /\ Kills(chan') = Kills(chan)
    BY <1>2 DEF HandledKills
  <1>10. InKernelOrder'
    <2>1. ASSUME NEW i \in DOMAIN chan' PROVE chan'[i].seq <= lines' - Len(ring')
      <3>1. i \in DOMAIN chan /\ chan' = chan
        BY <1>2
      <3>2. chan[i].seq <= lines - Len(ring)
        BY <3>1 DEF KillsInv, InKernelOrder
      <3>3. chan[i] \in Line
        BY <1>1, <3>1, LenProperties, ElementOfSeq
      <3>4. chan[i].seq \in Nat
        BY <3>3 DEF Line
      <3>5. /\ lines' - Len(ring') = lines - Len(q) /\ lines - Len(ring) <= lines - Len(q)
            /\ lines \in Nat /\ Len(ring) \in Nat /\ Len(q) \in Nat
        BY <1>1, <1>4, <1>6
      <3> QED
        BY <3>1, <3>2, <3>4, <3>5
    <2>2. ASSUME NEW x \in HandledKills' PROVE x <= lines' - Len(ring')
      <3>1. x <= lines - Len(ring) /\ x \in Nat
        <4>1. PICK i \in DOMAIN handled : x = handled[i].line.seq
          BY <1>9 DEF HandledKills
        <4>2. handled[i] \in [line : Line, seen : Nat]
          BY <1>1, <4>1, LenProperties, ElementOfSeq
        <4> QED
          BY <1>9, <4>1, <4>2 DEF KillsInv, InKernelOrder, Line
      <3> QED
        BY <1>1, <1>4, <1>6, <3>1
    <2> QED
      BY <1>2, <1>7, <1>9, <2>1, <2>2 DEF InKernelOrder, KillsInv
  <1>11. KillsAccounted'
    <2>1. NothingOverwritten' => ~full /\ NothingOverwritten
      BY <1>2, <1>6 DEF NothingOverwritten
    <2>2. NothingOverwritten' => kills' = (HandledKills \cup Kills(chan) \cup Kills(ring))'
      BY <1>2, <1>4, <1>8, <1>9, <2>1 DEF KillsInv, KillsAccounted
    <2>3. HandledKills' \subseteq kills'
      BY <1>2, <1>9 DEF KillsInv, KillsAccounted
    <2> QED
      BY <1>2, <2>2, <2>3 DEF KillsInv, KillsAccounted
  <1>12. (Kills(chan) \cup Kills(ring))' \subseteq kills'
    BY <1>2, <1>4, <1>8, <1>9 DEF KillsInv
  <1> QED
    BY <1>1, <1>2, <1>5, <1>6, <1>10, <1>11, <1>12 DEF KillsInv

\* The numbers of records and of handled kills are natural numbers.
LEMMA KillNumbers ==
    ASSUME KillsInv
    PROVE  /\ \A i \in DOMAIN ring : ring[i] \in Line /\ ring[i].seq \in Nat
           /\ \A i \in DOMAIN chan : chan[i] \in Line /\ chan[i].seq \in Nat
           /\ \A x \in HandledKills : x \in Nat
  <1>1. /\ ring \in Seq(Line) /\ chan \in Seq(Line)
        /\ handled \in Seq([line : Line, seen : Nat])
    BY DEF KillsInv
  <1>2. ASSUME NEW i \in DOMAIN ring PROVE ring[i] \in Line
    BY <1>1, LenProperties, ElementOfSeq
  <1>3. ASSUME NEW i \in DOMAIN chan PROVE chan[i] \in Line
    BY <1>1, LenProperties, ElementOfSeq
  <1>4. ASSUME NEW i \in DOMAIN handled PROVE handled[i] \in [line : Line, seen : Nat]
    BY <1>1, LenProperties, ElementOfSeq
  <1>5. ASSUME NEW i \in DOMAIN handled PROVE handled[i].line.seq \in Nat
    BY <1>4 DEF Line
  <1>6. \A r \in Line : r.seq \in Nat
    BY DEF Line
  <1> QED
    BY <1>2, <1>3, <1>5, <1>6 DEF HandledKills

\* The tailer broadcasts a record: it joins the channel behind all others, and the one
\* it overwrites there is counted as lagged.
LEMMA KillsRead ==
    ASSUME KillsInv, ReadRecord
    PROVE  KillsInv'
  <1> DEFINE line == Head(ring)
             full == Len(chan) >= Buffer
             q == IF full THEN Tail(chan) ELSE chan
             added == IF line.comm = None THEN {} ELSE {line.seq}
             first == lines - Len(ring) + 1
  <1>1. /\ ring \in Seq(Line) /\ chan \in Seq(Line)
        /\ handled \in Seq([line : Line, seen : Nat])
        /\ now \in Nat /\ warned \in Nat /\ received \in Nat
    BY DEF KillsInv
  <1>2. /\ lines \in Nat /\ broadcast \in Nat /\ received \in Nat /\ lagged \in Nat
        /\ warned \in Nat /\ Len(ring) \in Nat /\ Len(chan) \in Nat /\ Buffer \in Nat /\ Buffer # 0
        /\ broadcast + Len(ring) <= lines /\ Len(ring) <= RingSize /\ RingSize \in Nat
        /\ broadcast = received + Len(chan) + lagged + warned
    BY <1>1, LenProperties, OomAssumption DEF KillsInv, KillsAccounted
  <1>3. /\ ring # <<>> /\ ring' = Tail(ring) /\ broadcast' = broadcast + 1
        /\ chan' = Append(q, line) /\ lagged' = IF full THEN lagged + 1 ELSE lagged
        /\ UNCHANGED <<lines, kills, handled, received, warned, now>>
    <2>1. Len(chan) < Buffer <=> ~full
      BY <1>2
    <2> QED
      BY <2>1 DEF ReadRecord, Broadcast, consumer
  <1>4. /\ ring' \in Seq(Line) /\ line \in Line /\ line = ring[1] /\ 1 \in DOMAIN ring
        /\ Len(ring') = Len(ring) - 1 /\ Len(ring') \in Nat
        /\ \A i \in DOMAIN ring' : i \in Nat /\ i + 1 \in DOMAIN ring /\ ring'[i] = ring[i + 1]
    BY <1>1, <1>3, TailPlaces
  <1>5. line.seq = first /\ first \in Nat
    <2>1. line.seq = lines - Len(ring) + 1
      BY <1>4 DEF KillsInv, InKernelOrder
    <2>2. lines - Len(ring) + 1 \in Nat
      BY <1>2
    <2> QED
      BY <2>1, <2>2
  <1>6. Kills(ring) = Kills(ring') \cup added
    BY <1>1, <1>3, KillTaken
  <1> HIDE DEF line
  <1>7. /\ q \in Seq(Line) /\ Len(q) \in Nat
        /\ Len(q) = IF full THEN Len(chan) - 1 ELSE Len(chan)
        /\ \A i \in DOMAIN q : \E k \in DOMAIN chan : q[i] = chan[k]
        /\ \A i, j \in DOMAIN q : i < j => q[i].seq < q[j].seq
        /\ Kills(q) \subseteq Kills(chan) /\ (~full => Kills(q) = Kills(chan))
    <2>1. CASE ~full
      BY <1>1, <1>2, <2>1 DEF KillsInv, InKernelOrder
    <2>2. CASE full
      <3>1. chan # <<>> /\ q = Tail(chan)
        <4>1. Len(chan) # 0
          BY <1>2, <2>2
        <4> QED
          BY <2>2, <4>1, EmptySeq
      <3>2. /\ q \in Seq(Line) /\ Len(q) \in Nat /\ Len(q) = Len(chan) - 1
            /\ \A i \in DOMAIN q : i \in Nat /\ i + 1 \in DOMAIN chan /\ q[i] = chan[i + 1]
        BY <1>1, <3>1, TailPlaces
      <3>3. Kills(q) \subseteq Kills(chan)
        BY <1>1, <3>1, KillTaken
      <3>4. ASSUME NEW i \in DOMAIN q, NEW j \in DOMAIN q, i < j PROVE q[i].seq < q[j].seq
        <4>1. i \in Nat /\ j \in Nat
          BY <3>2
        <4>2. i + 1 < j + 1
          BY <3>4, <4>1
        <4>3. chan[i + 1].seq < chan[j + 1].seq
          BY <3>2, <4>2 DEF KillsInv, InKernelOrder
        <4> QED
          BY <3>2, <4>3, Zenon
      <3> QED
        BY <2>2, <3>2, <3>3, <3>4
    <2> QED
      BY <2>1, <2>2
  <1> HIDE DEF q
  <1>8. /\ chan' \in Seq(Line) /\ Len(chan') = Len(q) + 1 /\ chan'[Len(chan')] = line
        /\ DOMAIN chan' = DOMAIN q \cup {Len(chan')}
        /\ \A i \in DOMAIN q : i \in Nat /\ i < Len(chan') /\ chan'[i] = q[i]
    BY <1>3, <1>4, <1>7, AppendPlaces
  <1>9. Kills(chan') = Kills(q) \cup added
    BY <1>3, <1>4, <1>7, KillPushed
  <1>10. HandledKills' = HandledKills
    BY <1>3 DEF HandledKills
  <1>11. /\ broadcast' \in Nat /\ lagged' \in Nat /\ broadcast' + Len(ring') <= lines'
         /\ Len(ring') <= RingSize /\ lines' - Len(ring') = first
         /\ broadcast' = received' + Len(chan') + lagged' + warned'
         /\ NothingOverwritten' => ~full /\ NothingOverwritten
    <2>1. /\ broadcast' = broadcast + 1 /\ Len(ring') = Len(ring) - 1 /\ lines' = lines
          /\ lagged' = (IF full THEN lagged + 1 ELSE lagged) /\ warned' = warned
          /\ received' = received
          /\ Len(chan') = (IF full THEN Len(chan) - 1 ELSE Len(chan)) + 1
      BY <1>3, <1>4, <1>7, <1>8
    <2> HIDE DEF full
    <2> QED
      BY <1>2, <2>1 DEF NothingOverwritten
  <1>12. ASSUME NEW i \in DOMAIN q
         PROVE  /\ q[i].seq \in Nat /\ q[i].seq < first
                /\ \A x \in HandledKills : x < q[i].seq
    <2>1. PICK k \in DOMAIN chan : q[i] = chan[k]
      BY <1>7
    <2>2. chan[k].seq \in Nat /\ chan[k].seq <= lines - Len(ring)
      BY KillNumbers DEF KillsInv, InKernelOrder
    <2>3. chan[k].seq < first
      <3>1. lines \in Nat /\ Len(ring) \in Nat
        BY <1>2
      <3> QED
        BY <2>2, <3>1
    <2> QED
      BY <2>1, <2>2, <2>3 DEF KillsInv, InKernelOrder
  <1>13. ASSUME NEW x \in HandledKills PROVE x \in Nat /\ x < first
    <2>1. x \in Nat /\ x <= lines - Len(ring)
      BY KillNumbers DEF KillsInv, InKernelOrder
    <2> QED
      BY <1>2, <2>1
  <1>14. ASSUME NEW i \in DOMAIN chan'
         PROVE  /\ chan'[i].seq <= first
                /\ \A x \in HandledKills : x < chan'[i].seq
    <2>1. CASE i \in DOMAIN q
      <3>1. q[i].seq \in Nat /\ q[i].seq < first /\ chan'[i] = q[i]
        BY <1>8, <1>12, <2>1
      <3>2. q[i].seq <= first
        BY <1>5, <3>1
      <3> QED
        BY <1>12, <2>1, <3>1, <3>2
    <2>2. CASE i = Len(chan')
      <3>1. chan'[i].seq = first /\ first <= first
        BY <1>5, <1>8, <2>2
      <3> QED
        BY <1>13, <3>1
    <2> QED
      BY <1>8, <2>1, <2>2
  <1>15. ASSUME NEW i \in DOMAIN chan', NEW j \in DOMAIN chan', i < j
         PROVE  chan'[i].seq < chan'[j].seq
    <2>1. CASE i \in DOMAIN q /\ j \in DOMAIN q
      BY <1>7, <1>8, <1>15, <2>1
    <2>2. CASE i \in DOMAIN q /\ j = Len(chan')
      <3>1. chan'[j].seq = first /\ chan'[i] = q[i] /\ q[i].seq < first
        BY <1>5, <1>8, <1>12, <2>2
      <3> QED
        BY <3>1, Zenon
    <2>3. i # Len(chan')
      <3>1. j \in Nat /\ j <= Len(chan') /\ Len(chan') \in Nat
        BY <1>7, <1>8
      <3> QED
        BY <1>15, <3>1
    <2> QED
      BY <1>8, <2>1, <2>2, <2>3
  <1>16. ASSUME NEW i \in DOMAIN ring' PROVE ring'[i].seq = lines' - Len(ring') + i
    <2>1. /\ i \in Nat /\ ring'[i].seq = lines - Len(ring) + (i + 1)
      BY <1>4 DEF KillsInv, InKernelOrder
    <2>2. lines - Len(ring) + (i + 1) = lines' - Len(ring') + i
      <3>1. lines \in Nat /\ Len(ring) \in Nat /\ lines' - Len(ring') = first /\ i \in Nat
        BY <1>2, <1>11, <2>1
      <3> QED
        BY <3>1
    <2> QED
      BY <2>1, <2>2, Zenon
  <1>17. InKernelOrder'
    <2>1. ASSUME NEW x \in HandledKills' PROVE x <= lines' - Len(ring')
      <3>1. x \in Nat /\ x < first /\ first \in Nat
        BY <1>5, <1>10, <1>13
      <3>2. x <= first
        BY <3>1
      <3> QED
        BY <1>11, <3>2
    <2> HIDE DEF first
    <2> QED
      BY <1>10, <1>11, <1>14, <1>15, <1>16, <2>1 DEF InKernelOrder
  <1>18. KillsAccounted'
    <2>1. NothingOverwritten' => kills' = (HandledKills \cup Kills(chan) \cup Kills(ring))'
      <3> SUFFICES ASSUME NothingOverwritten'
                   PROVE  kills = HandledKills \cup Kills(chan') \cup Kills(ring')
        BY <1>3, <1>10
      <3>1. kills = HandledKills \cup Kills(chan) \cup Kills(ring)
        BY <1>11 DEF KillsInv, KillsAccounted
      <3>2. Kills(chan') = Kills(chan) \cup added
        BY <1>7, <1>9, <1>11
      <3> HIDE DEF added
      <3> QED
        BY <1>6, <3>1, <3>2
    <2> QED
      BY <1>3, <1>10, <1>11, <2>1 DEF KillsInv, KillsAccounted
  <1>19. (Kills(chan) \cup Kills(ring))' \subseteq kills'
    <2> HIDE DEF added
    <2> QED
      BY <1>3, <1>6, <1>7, <1>9 DEF KillsInv
  <1> QED
    BY <1>1, <1>2, <1>3, <1>4, <1>8, <1>11, <1>17, <1>18, <1>19 DEF KillsInv

\* oom_loop takes the oldest line of the channel; a kill among them is the last one
\* handled.
LEMMA KillsReceived ==
    ASSUME KillsInv, RecvOther \/ RecvKill
    PROVE  KillsInv'
  <1> DEFINE line == Head(chan)
             added == IF line.comm = None THEN {} ELSE {line.seq}
             X == [line : Line, seen : Nat]
  <1>1. /\ ring \in Seq(Line) /\ chan \in Seq(Line) /\ handled \in Seq(X) /\ now \in Nat
    BY DEF KillsInv
  <1>2. /\ lines \in Nat /\ broadcast \in Nat /\ received \in Nat /\ lagged \in Nat
        /\ warned \in Nat /\ Len(ring) \in Nat /\ Len(chan) \in Nat
        /\ broadcast = received + Len(chan) + lagged + warned
    BY <1>1, LenProperties DEF KillsInv, KillsAccounted
  <1>3. /\ chan # <<>> /\ chan' = Tail(chan) /\ received' = received + 1
        /\ UNCHANGED <<ring, lines, kills, broadcast, lagged, warned, now>>
        /\ line.comm = None => handled' = handled
        /\ line.comm # None => handled' = Append(handled, [line |-> line, seen |-> now])
    BY DEF RecvOther, RecvKill, Recv, kernel
  <1>4. /\ chan' \in Seq(Line) /\ line \in Line /\ line = chan[1] /\ 1 \in DOMAIN chan
        /\ Len(chan') = Len(chan) - 1 /\ Len(chan') \in Nat
        /\ \A i \in DOMAIN chan' :
              i \in Nat /\ 1 < i + 1 /\ i + 1 \in DOMAIN chan /\ chan'[i] = chan[i + 1]
    BY <1>1, <1>3, TailPlaces
  <1>5. Kills(chan) = Kills(chan') \cup added
    BY <1>1, <1>3, KillTaken
  <1> HIDE DEF line
  <1>6. /\ line.seq <= lines - Len(ring) /\ \A x \in HandledKills : x < line.seq
        /\ \A i \in DOMAIN chan' : line.seq < chan'[i].seq
    BY <1>4 DEF KillsInv, InKernelOrder
  <1>7. /\ handled' \in Seq(X) /\ HandledKills' = HandledKills \cup added
        /\ \A i, j \in DOMAIN handled' : i < j => handled'[i].line.seq < handled'[j].line.seq
    <2>1. CASE line.comm = None
      BY <1>1, <1>3, <2>1 DEF HandledKills, KillsInv, KillsAccounted
    <2>2. CASE line.comm # None
      <3> DEFINE e == [line |-> line, seen |-> now]
      <3>1. handled' = Append(handled, e) /\ e \in X /\ e.line = line
        BY <1>1, <1>3, <1>4, <2>2
      <3> HIDE DEF e, X
      <3>2. /\ handled' \in Seq(X) /\ handled'[Len(handled')] = e
            /\ DOMAIN handled' = DOMAIN handled \cup {Len(handled')}
            /\ Len(handled') = Len(handled) + 1 /\ Len(handled) \in Nat
            /\ \A i \in DOMAIN handled : i \in Nat /\ i < Len(handled') /\ handled'[i] = handled[i]
        BY <1>1, <3>1, AppendPlaces
      <3>3. HandledKills' = HandledKills \cup {line.seq}
        <4>1. ASSUME NEW x \in HandledKills' PROVE x \in HandledKills \cup {line.seq}
          <5>1. PICK i \in DOMAIN handled' : x = handled'[i].line.seq
            BY DEF HandledKills
          <5>2. CASE i \in DOMAIN handled
            BY <3>2, <5>1, <5>2 DEF HandledKills
          <5>3. CASE i = Len(handled')
            BY <3>1, <3>2, <5>1, <5>3
          <5> QED
            BY <3>2, <5>2, <5>3
        <4>2. ASSUME NEW i \in DOMAIN handled PROVE handled[i].line.seq \in HandledKills'
          <5>1. i \in DOMAIN handled' /\ handled'[i] = handled[i]
            BY <3>2
          <5>2. handled'[i].line.seq \in HandledKills'
            BY <5>1, Zenon DEF HandledKills
          <5> QED
            BY <5>1, <5>2, Zenon
        <4>3. line.seq \in HandledKills'
          <5>1. Len(handled') \in DOMAIN handled' /\ handled'[Len(handled')].line = line
            BY <3>1, <3>2
          <5>2. handled'[Len(handled')].line.seq \in HandledKills'
            BY <5>1, Zenon DEF HandledKills
          <5> QED
            BY <5>1, <5>2, Zenon
        <4>4. HandledKills \subseteq HandledKills'
          BY <4>2, Zenon DEF HandledKills
        <4> QED
          BY <4>1, <4>3, <4>4
      <3>4. ASSUME NEW i \in DOMAIN handled', NEW j \in DOMAIN handled', i < j
            PROVE  handled'[i].line.seq < handled'[j].line.seq
        <4>1. CASE i \in DOMAIN handled /\ j \in DOMAIN handled
          BY <3>2, <3>4, <4>1 DEF KillsInv, KillsAccounted
        <4>2. CASE i \in DOMAIN handled /\ j = Len(handled')
          <5>1. handled'[i] = handled[i] /\ handled'[j].line = line
            BY <3>1, <3>2, <4>2
          <5>2. handled[i].line.seq \in HandledKills
            BY <4>2, Zenon DEF HandledKills
          <5> QED
            BY <1>6, <5>1, <5>2, Zenon
        <4>3. i # Len(handled')
          <5>1. j \in Nat /\ j <= Len(handled') /\ Len(handled') \in Nat
            BY <3>2
          <5> QED
            BY <3>4, <5>1
        <4> QED
          BY <3>2, <4>1, <4>2, <4>3
      <3> QED
        BY <2>2, <3>2, <3>3, <3>4
    <2> QED
      BY <2>1, <2>2
  <1> HIDE DEF X
  <1>8. received' \in Nat /\ broadcast' = received' + Len(chan') + lagged' + warned'
    <2>1. Len(chan') = Len(chan) - 1
      BY <1>4
    <2> QED
      BY <1>2, <1>3, <2>1
  <1>9. InKernelOrder'
    <2>1. ASSUME NEW i \in DOMAIN chan'
          PROVE  /\ chan'[i].seq <= lines' - Len(ring')
                 /\ \A x \in HandledKills' : x < chan'[i].seq
      <3>1. i + 1 \in DOMAIN chan /\ chan'[i] = chan[i + 1] /\ line.seq < chan'[i].seq
        BY <1>4, <1>6
      <3> QED
        BY <1>3, <1>7, <3>1 DEF KillsInv, InKernelOrder
    <2>2. ASSUME NEW i \in DOMAIN chan', NEW j \in DOMAIN chan', i < j
          PROVE  chan'[i].seq < chan'[j].seq
      <3>1. i \in Nat /\ j \in Nat
        BY <1>4
      <3>2. i + 1 < j + 1
        BY <2>2, <3>1
      <3>3. chan[i + 1].seq < chan[j + 1].seq
        BY <1>4, <3>2 DEF KillsInv, InKernelOrder
      <3> QED
        BY <1>4, <3>3, Zenon
    <2>3. ASSUME NEW x \in HandledKills' PROVE x <= lines' - Len(ring')
      <3>1. CASE x \in HandledKills
        BY <1>3, <3>1 DEF KillsInv, InKernelOrder
      <3>2. CASE x = line.seq
        BY <1>3, <1>6, <3>2
      <3> QED
        BY <1>7, <3>1, <3>2
    <2>4. \A i \in DOMAIN ring' : ring'[i].seq = lines' - Len(ring') + i
      BY <1>3 DEF KillsInv, InKernelOrder
    <2> QED
      BY <2>1, <2>2, <2>3, <2>4 DEF InKernelOrder
  <1>10. KillsAccounted' /\ (Kills(chan) \cup Kills(ring))' \subseteq kills'
    <2> HIDE DEF added
    <2>1. NothingOverwritten' => NothingOverwritten
      BY <1>3 DEF NothingOverwritten
    <2>2. NothingOverwritten' => kills' = (HandledKills \cup Kills(chan) \cup Kills(ring))'
      BY <1>3, <1>5, <1>7, <2>1 DEF KillsInv, KillsAccounted
    <2>3. HandledKills' \subseteq kills' /\ (Kills(chan) \cup Kills(ring))' \subseteq kills'
      BY <1>3, <1>5, <1>7 DEF KillsInv, KillsAccounted
    <2> QED
      BY <1>7, <1>8, <2>2, <2>3 DEF KillsAccounted
  <1> QED
    BY <1>1, <1>2, <1>3, <1>4, <1>7, <1>8, <1>9, <1>10 DEF KillsInv, X

\* The kernel, the tailer and oom_loop keep count of every kill.
LEMMA KillsStep ==
    ASSUME KillsInv, [Next]_vars
    PROVE  KillsInv'
  <1>1. CASE Tick \/ Resync \/ UNCHANGED vars
    <2>1. /\ UNCHANGED <<ring, chan, handled, lines, broadcast, received, lagged, warned, kills>>
          /\ now' = now \/ now' = now + 1
      BY <1>1 DEF Tick, Resync, vars, kernel, consumer
    <2>2. now' \in Nat
      BY <2>1 DEF KillsInv
    <2> QED
      BY <2>1, <2>2 DEF KillsInv, InKernelOrder, KillsAccounted, NothingOverwritten, HandledKills
  <1>2. CASE RecvLagged
    <2>1. /\ UNCHANGED <<ring, chan, handled, lines, broadcast, received, kills, now>>
          /\ lagged > 0 /\ warned' = warned + lagged /\ lagged' = 0
      BY <1>2 DEF RecvLagged, kernel
    <2>2. /\ lagged' \in Nat /\ warned' \in Nat /\ warned' # 0
          /\ lagged' + warned' = lagged + warned
      BY <2>1 DEF KillsInv
    <2>3. broadcast' = received' + Len(chan') + lagged' + warned'
      <3>1. /\ broadcast = received + Len(chan) + lagged + warned
            /\ received \in Nat /\ Len(chan) \in Nat /\ lagged \in Nat /\ warned \in Nat
        BY LenProperties DEF KillsInv, KillsAccounted
      <3> QED
        BY <2>1, <3>1
    <2>4. ~NothingOverwritten'
      BY <2>2 DEF NothingOverwritten
    <2>5. HandledKills' = HandledKills
      BY <2>1 DEF HandledKills
    <2> QED
      BY <2>1, <2>2, <2>3, <2>4, <2>5 DEF KillsInv, InKernelOrder, KillsAccounted
  <1> QED
    BY <1>1, <1>2, KillsLogged, KillsRead, KillsReceived DEF Next

\* The tailer starts behind the last record there is.
LEMMA KillsInit == Init => KillsInv
  <1> SUFFICES ASSUME Init PROVE KillsInv
    OBVIOUS
  <1>1. /\ ring = <<>> /\ chan = <<>> /\ handled = <<>> /\ kills = {} /\ now = 0
        /\ lines = 0 /\ broadcast = 0 /\ received = 0 /\ lagged = 0 /\ warned = 0
    BY DEF Init
  <1>2. \A S : <<>> \in Seq(S)
    OBVIOUS
  <1>3. DOMAIN <<>> = {} /\ Len(<<>>) = 0
    OBVIOUS
  <1>4. Kills(ring) = {} /\ Kills(chan) = {} /\ HandledKills = {}
    BY <1>1, <1>3 DEF Kills, HandledKills
  <1>5. /\ ring \in Seq(Line) /\ chan \in Seq(Line)
        /\ handled \in Seq([line : Line, seen : Nat])
    BY <1>1, <1>2, Zenon
  <1>6. /\ lines \in Nat /\ broadcast \in Nat /\ received \in Nat
        /\ lagged \in Nat /\ warned \in Nat /\ now \in Nat
        /\ broadcast + Len(ring) <= lines /\ Len(ring) <= RingSize
        /\ broadcast = received + Len(chan) + lagged + warned
    BY <1>1, <1>3, OomAssumption
  <1>7. InKernelOrder
    BY <1>1, <1>3, <1>4 DEF InKernelOrder
  <1>8. KillsAccounted
    BY <1>1, <1>3, <1>4, <1>6 DEF KillsAccounted
  <1> QED
    BY <1>1, <1>4, <1>5, <1>6, <1>7, <1>8 DEF KillsInv

-----------------------------------------------------------------------------
(* pcie_aer.rs.                                                            *)

\* The operators the window and the count are made of are those of above.
LEMMA AerOperators ==
    /\ \A w, t, span : Aer!Recent(w, t, span) = Recent(w, t, span)
    /\ \A X : Aer!Cardinality(X) = Cardinality(X)
  <1>1. ASSUME NEW w, NEW t, NEW span PROVE Aer!Recent(w, t, span) = Recent(w, t, span)
    BY DEF Aer!Recent, Recent, Aer!Min, Min
  <1>2. ASSUME NEW X PROVE Aer!Cardinality(X) = Cardinality(X)
    BY DEF Aer!Cardinality, Cardinality
  <1> QED
    BY <1>1, <1>2

\* A line that is handled joins those that count if it is a corrected one.
LEMMA LineCounted ==
    ASSUME AerTime \in Nat, AerWindow \in Nat, Aer!RateInv, Aer!Handle(pending)
    PROVE  /\ handled' \in Seq([line : Aer!Line, at : Nat])
           /\ Len(handled) \in Nat /\ Len(handled') = Len(handled) + 1
           /\ handled'[Len(handled')].line = pending
           /\ now' = now /\ chan' = chan /\ pending' = None
           /\ \A t \in now .. AerTime :
                 Cardinality(Aer!Fresh(t)') =
                   Cardinality(Aer!Fresh(t)) +
                     (IF pending.kind = "corrected" /\ t - now <= AerWindow THEN 1 ELSE 0)
  <1> DEFINE x == [line |-> pending, at |-> now]
             X == [line : Aer!Line, at : Nat]
  <1>1. /\ now \in Nat /\ pending \in Aer!Line /\ handled \in Seq(X)
        /\ handled' = Append(handled, x) /\ now' = now /\ chan' = chan /\ pending' = None
    BY DEF Aer!RateInv, Aer!Handle
  <1>2. x \in X /\ x.at = now /\ x.line = pending
    BY <1>1
  <1> HIDE DEF x, X
  <1>3. /\ handled' \in Seq(X) /\ Len(handled') = Len(handled) + 1 /\ Len(handled) \in Nat
        /\ \A i \in 1 .. Len(handled) : handled'[i] = handled[i]
        /\ handled'[Len(handled) + 1] = x
    BY <1>1, <1>2, AppendProperties, LenProperties
  <1>4. ASSUME NEW t \in now .. AerTime
        PROVE  Cardinality(Aer!Fresh(t)') =
                 Cardinality(Aer!Fresh(t)) +
                   (IF pending.kind = "corrected" /\ t - now <= AerWindow THEN 1 ELSE 0)
    <2> DEFINE b == pending.kind = "corrected" /\ t - now <= AerWindow
               D == IF b THEN {Len(handled) + 1} ELSE {}
    <2>1. Aer!Fresh(t)' = Aer!Fresh(t) \cup D
      <3>1. ASSUME NEW i \in 1 .. Len(handled) + 1
            PROVE  i \in Aer!Fresh(t)' <=> i \in Aer!Fresh(t) \cup D
        <4>1. CASE i = Len(handled) + 1
          <5>1. /\ handled'[i].at = now /\ handled'[i].line = pending
                /\ i \notin 1 .. Len(handled) /\ i \in 1 .. Len(handled')
            BY <1>2, <1>3, <4>1
          <5> QED
            BY <4>1, <5>1 DEF Aer!Fresh
        <4>2. CASE i # Len(handled) + 1
          <5>1. i \in 1 .. Len(handled) /\ i \in 1 .. Len(handled') /\ handled'[i] = handled[i]
            BY <1>3, <4>2
          <5> QED
            BY <4>2, <5>1 DEF Aer!Fresh
        <4> QED
          BY <4>1, <4>2
      <3>2. /\ Aer!Fresh(t)' \subseteq 1 .. Len(handled) + 1
            /\ Aer!Fresh(t) \subseteq 1 .. Len(handled) + 1 /\ D \subseteq 1 .. Len(handled) + 1
        BY <1>3 DEF Aer!Fresh
      <3> QED
        BY <3>1, <3>2
    <2>2. Aer!Fresh(t) \in SUBSET (1 .. Len(handled))
      BY DEF Aer!Fresh
    <2>3. Cardinality(Aer!Fresh(t) \cup D) = Cardinality(Aer!Fresh(t)) + (IF b THEN 1 ELSE 0)
      BY <1>3, <2>2, OneMore
    <2> QED
      BY <2>1, <2>3
  <1>5. handled'[Len(handled')].line = pending
    BY <1>2, <1>3
  <1> QED
    BY <1>1, <1>3, <1>4, <1>5 DEF X

\* HandleCorrected: the line joins the window as it joins those that count.
LEMMA CorrectedCounted ==
    ASSUME AerTime \in Nat, AerWindow \in Nat, Aer!RateInv, Aer!HandleCorrected
    PROVE  /\ Aer!RateInv'
           /\ Cardinality(Aer!Fresh(now)') = Len(corr_window')
  <1>1. /\ now \in Nat /\ now <= AerTime /\ corr_window \in Seq(Nat)
        /\ \A i \in 1 .. Len(corr_window) : corr_window[i] <= now
        /\ chan \in Seq(Aer!Line)
        /\ \A t \in now .. AerTime :
              Cardinality(Aer!Fresh(t)) = Len(Recent(corr_window, t, AerWindow))
    BY AerOperators DEF Aer!RateInv
  <1> DEFINE q == Recent(Append(corr_window, now), now, AerWindow)
  <1>2. corr_window' = q /\ pending.kind = "corrected" /\ Aer!Handle(pending)
    BY AerOperators DEF Aer!HandleCorrected, Aer!Trim
  <1>3. /\ q \in Seq(Nat) /\ \A i \in 1 .. Len(q) : q[i] <= now
        /\ \A t \in Nat : now <= t =>
              Len(Recent(q, t, AerWindow)) =
                Len(Recent(corr_window, t, AerWindow)) + (IF t - now <= AerWindow THEN 1 ELSE 0)
    BY <1>1, WindowStep, ZenonT(60)
  <1>4. Len(Recent(q, now, AerWindow)) = Len(q)
    <2>1. Append(corr_window, now) \in Seq(Nat)
      BY <1>1
    <2>2. Len(q) > 0 => now - q[1] <= AerWindow
      BY <1>1, <2>1, RecentFacts
    <2> HIDE DEF q
    <2>3. Len(q) \in Nat /\ 0 \in 0 .. Len(q) /\ (\A i \in 1 .. 0 : now - q[i] > AerWindow)
      BY <1>3, LenProperties
    <2>4. 0 < Len(q) => now - q[0 + 1] <= AerWindow
      BY <2>2, <2>3
    <2>5. Len(Recent(q, now, AerWindow)) = Len(q) - 0
      BY <1>1, <1>3, <2>3, <2>4, RecentLen
    <2> QED
      BY <2>3, <2>5
  <1> HIDE DEF q
  <1>5. /\ handled' \in Seq([line : Aer!Line, at : Nat])
        /\ now' = now /\ chan' = chan /\ pending' = None
        /\ \A t \in now .. AerTime :
              Cardinality(Aer!Fresh(t)') =
                Cardinality(Aer!Fresh(t)) +
                  (IF pending.kind = "corrected" /\ t - now <= AerWindow THEN 1 ELSE 0)
    BY <1>2, LineCounted
  <1>6. ASSUME NEW t \in now .. AerTime
        PROVE  Cardinality(Aer!Fresh(t)') = Len(Recent(corr_window', t, AerWindow))
    <2>1. t \in Nat /\ now <= t
      BY <1>1
    <2> QED
      BY <1>1, <1>2, <1>3, <1>5, <2>1
  <1>7. Aer!RateInv'
    BY <1>1, <1>2, <1>3, <1>5, <1>6, AerOperators DEF Aer!RateInv
  <1>8. now \in now .. AerTime
    BY <1>1
  <1> QED
    BY <1>2, <1>4, <1>5, <1>6, <1>7, <1>8 DEF Aer!Fresh

\* While the window and the lines handled stay, time only takes from both.
LEMMA RateKept ==
    ASSUME AerTime \in Nat, Aer!RateInv, corr_window' = corr_window,
           now' \in Nat, now <= now', now' <= AerTime,
           chan' \in Seq(Aer!Line), pending' \in Aer!Line \cup {None},
           handled' \in Seq([line : Aer!Line, at : Nat]),
           \A t \in now' .. AerTime : Cardinality(Aer!Fresh(t)') = Cardinality(Aer!Fresh(t))
    PROVE  Aer!RateInv'
  <1>1. /\ now \in Nat /\ corr_window \in Seq(Nat)
        /\ \A i \in 1 .. Len(corr_window) : corr_window[i] <= now /\ corr_window[i] \in Nat
        /\ \A t \in now .. AerTime :
              Aer!Cardinality(Aer!Fresh(t)) = Len(Aer!Recent(corr_window, t, AerWindow))
    BY ElementOfSeq DEF Aer!RateInv
  <1>2. \A i \in 1 .. Len(corr_window') : corr_window'[i] <= now'
    BY <1>1
  <1>3. ASSUME NEW t \in now' .. AerTime
        PROVE  Aer!Cardinality(Aer!Fresh(t)') = Len(Aer!Recent(corr_window', t, AerWindow))
    <2>1. t \in now .. AerTime
      BY <1>1
    <2> QED
      BY <1>1, <2>1, AerOperators
  <1> QED
    BY <1>1, <1>2, <1>3 DEF Aer!RateInv

\* pcie_aer.rs: the window counts every corrected line of the minute, after every step.
LEMMA AerStep ==
    ASSUME AerTime \in Nat, AerWindow \in Nat, Aer!RateInv, [Aer!Next]_Aer!vars
    PROVE  Aer!RateInv'
  <1>1. /\ now \in Nat /\ now <= AerTime /\ chan \in Seq(Aer!Line)
        /\ pending \in Aer!Line \cup {None} /\ handled \in Seq([line : Aer!Line, at : Nat])
        /\ Buffer \in Nat \ {0}
    BY OomAssumption DEF Aer!RateInv
  <1>2. ASSUME UNCHANGED <<corr_window, handled>>, now' \in Nat, now <= now', now' <= AerTime,
               chan' \in Seq(Aer!Line), pending' \in Aer!Line \cup {None}
        PROVE  Aer!RateInv'
    <2>1. \A t : Aer!Fresh(t)' = Aer!Fresh(t)
      BY <1>2 DEF Aer!Fresh
    <2> QED
      BY <1>1, <1>2, <2>1, RateKept
  <1>3. CASE Aer!Tick
    <2>1. now' = now + 1 /\ now < AerTime /\ UNCHANGED <<chan, pending, corr_window, handled>>
      BY <1>3 DEF Aer!Tick
    <2>2. now' \in Nat /\ now <= now' /\ now' <= AerTime
      BY <1>1, <2>1
    <2> QED
      BY <1>1, <1>2, <2>1, <2>2
  <1>4. ASSUME NEW l \in Aer!Line, Aer!KernelLogs(l)
        PROVE  Aer!RateInv'
    <2>1. /\ chan' = IF Len(chan) < Buffer THEN Append(chan, l) ELSE Append(Tail(chan), l)
          /\ UNCHANGED <<now, pending, corr_window, handled>>
      BY <1>4 DEF Aer!KernelLogs
    <2>2. chan' \in Seq(Aer!Line)
      BY <1>1, <2>1, Pushed
    <2> QED
      BY <1>1, <1>2, <2>1, <2>2
  <1>5. CASE Aer!Recv
    <2>1. /\ chan # <<>> /\ chan' = Tail(chan) /\ pending' \in {None, Head(chan)}
          /\ UNCHANGED <<now, corr_window, handled>>
      BY <1>5 DEF Aer!Recv
    <2>2. chan' \in Seq(Aer!Line) /\ Head(chan) \in Aer!Line
      BY <1>1, <2>1, HeadTailProperties
    <2> QED
      BY <1>1, <1>2, <2>1, <2>2
  <1>6. CASE Aer!HandleUncorrected
    <2>1. Aer!Handle(pending) /\ pending.kind = "uncorrected" /\ corr_window' = corr_window
      BY <1>6 DEF Aer!HandleUncorrected
    <2>2. /\ handled' \in Seq([line : Aer!Line, at : Nat])
          /\ now' = now /\ chan' = chan /\ pending' = None
          /\ \A t \in now .. AerTime :
                Cardinality(Aer!Fresh(t)') =
                  Cardinality(Aer!Fresh(t)) +
                    (IF pending.kind = "corrected" /\ t - now <= AerWindow THEN 1 ELSE 0)
      BY <2>1, LineCounted
    <2>3. ASSUME NEW t \in now' .. AerTime
          PROVE  Cardinality(Aer!Fresh(t)') = Cardinality(Aer!Fresh(t))
      <3>1. Cardinality(Aer!Fresh(t)) \in Nat
        <4>1. Len(handled) \in Nat /\ 1 \in Int
          BY <1>1, LenProperties
        <4>2. IsFiniteSet(1 .. Len(handled))
          BY <4>1, FS_Interval
        <4>3. Aer!Fresh(t) \subseteq 1 .. Len(handled)
          BY DEF Aer!Fresh
        <4>4. IsFiniteSet(Aer!Fresh(t))
          BY <4>2, <4>3, FS_Subset
        <4> QED
          BY <4>4, FS_CardinalityType
      <3> QED
        BY <2>1, <2>2, <3>1
    <2> QED
      BY <1>1, <2>1, <2>2, <2>3, RateKept
  <1>7. CASE UNCHANGED Aer!vars
    <2>1. UNCHANGED <<now, chan, pending, corr_window, handled>>
      BY <1>7 DEF Aer!vars
    <2> QED
      BY <1>1, <1>2, <2>1
  <1> QED
    BY <1>3, <1>4, <1>5, <1>6, <1>7, CorrectedCounted DEF Aer!Next

\* The module starts with an empty window.
LEMMA AerInit == ASSUME AerTime \in Nat PROVE Aer!Init => Aer!RateInv
  <1> SUFFICES ASSUME Aer!Init PROVE Aer!RateInv
    OBVIOUS
  <1>1. now = 0 /\ chan = <<>> /\ pending = None /\ corr_window = <<>> /\ handled = <<>>
    BY DEF Aer!Init
  <1>2. \A S : <<>> \in Seq(S)
    OBVIOUS
  <1>3. Len(<<>>) = 0 /\ 1 .. 0 = {}
    OBVIOUS
  <1>4. \A t : Aer!Fresh(t) = {}
    BY <1>1, <1>3 DEF Aer!Fresh
  <1>5. Aer!Cardinality({}) = 0
    BY FS_EmptySet, AerOperators
  <1>6. ASSUME NEW t PROVE Aer!Recent(<<>>, t, AerWindow) = <<>>
    BY DEF Aer!Recent
  <1>7. /\ chan \in Seq(Aer!Line) /\ corr_window \in Seq(Nat)
        /\ handled \in Seq([line : Aer!Line, at : Nat])
    BY <1>1, <1>2, Zenon
  <1>8. \A t : Aer!Cardinality(Aer!Fresh(t)) = Len(Aer!Recent(corr_window, t, AerWindow))
    BY <1>1, <1>3, <1>4, <1>5, <1>6, Zenon
  <1>9. /\ now \in Nat /\ now <= AerTime /\ \A i \in 1 .. Len(corr_window) : corr_window[i] <= now
        /\ pending \in Aer!Line \cup {None}
    BY <1>1, <1>3
  <1> QED
    BY <1>7, <1>8, <1>9, Zenon DEF Aer!RateInv

\* HandleCorrected raises the rate when the trimmed window is long enough, and that
\* is when enough corrected lines lie within the minute.
LEMMA AerExact ==
    ASSUME AerTime \in Nat, AerWindow \in Nat, Aer!RateInv, Aer!Next
    PROVE  Aer!RateIffDense
  <1> DEFINE last1 == handled'[Len(handled')].line
             recent == {i \in DOMAIN handled' :
                          /\ handled'[i].line.kind = "corrected"
                          /\ now - handled'[i].at =< AerWindow}
  <1> SUFFICES ASSUME handled' # handled
               PROVE  observed' =
                        IF last1.kind = "uncorrected" THEN {<<"uncorrectable", last1.dev>>}
                        ELSE {<<"corrected_rate_high", d>> : d \in
                               {e \in {last1.dev} : Aer!Cardinality(recent) >= WarnCount}}
    BY DEF Aer!RateIffDense
  <1>1. Aer!HandleUncorrected \/ Aer!HandleCorrected
    BY DEF Aer!Next, Aer!Tick, Aer!Recv, Aer!KernelLogs
  <1>2. Aer!Handle(pending)
    BY <1>1 DEF Aer!HandleUncorrected, Aer!HandleCorrected
  <1>3. last1 = pending /\ now' = now /\ handled' \in Seq([line : Aer!Line, at : Nat])
    BY <1>2, LineCounted
  <1>4. CASE Aer!HandleUncorrected
    BY <1>3, <1>4 DEF Aer!HandleUncorrected
  <1>5. CASE Aer!HandleCorrected
    <2>1. recent = Aer!Fresh(now)'
      <3>1. DOMAIN handled' = 1 .. Len(handled')
        BY <1>3, LenProperties
      <3> QED
        BY <1>3, <3>1 DEF Aer!Fresh
    <2>2. Aer!Cardinality(recent) = Len(corr_window')
      BY <1>5, <2>1, CorrectedCounted, AerOperators
    <2>3. /\ pending.kind = "corrected"
          /\ observed' = IF Len(corr_window') >= WarnCount
                         THEN {<<"corrected_rate_high", pending.dev>>} ELSE {}
      BY <1>5 DEF Aer!HandleCorrected
    <2> HIDE DEF recent, last1
    <2> QED
      BY <1>3, <2>2, <2>3
  <1> QED
    BY <1>1, <1>4, <1>5

-----------------------------------------------------------------------------
(* journal.rs and syslog_rules.rs.                                         *)

\* The order of two queues of lines is that of what they hold.
LEMMA BeforeElements ==
    ASSUME NEW s, NEW t
    PROVE  Journal!Before(s, t) <=>
             \A x \in Journal!Elements(s), y \in Journal!Elements(t) : x < y
  BY DEF Journal!Before, Journal!Elements

\* A queue without lines.
LEMMA EmptyLines ==
    /\ Journal!Elements(<<>>) = {} /\ Journal!Rising(<<>>)
    /\ <<>> \in Seq(Nat)
  BY DEF Journal!Elements, Journal!Rising

\* A line is broadcast, written to the pipe or received.
LEMMA LineAppended ==
    ASSUME NEW s \in Seq(Nat), NEW n \in Nat
    PROVE  /\ Append(s, n) \in Seq(Nat)
           /\ Journal!Elements(Append(s, n)) = Journal!Elements(s) \cup {n}
           /\ Journal!Rising(s) /\ (\A x \in Journal!Elements(s) : x < n) =>
                Journal!Rising(Append(s, n))
  <1> DEFINE t == Append(s, n)
  <1>1. /\ t \in Seq(Nat) /\ Len(s) \in Nat /\ Len(t) = Len(s) + 1
        /\ \A i \in 1 .. Len(s) : t[i] = s[i] /\ s[i] \in Nat
        /\ t[Len(s) + 1] = n
        /\ DOMAIN s = 1 .. Len(s) /\ DOMAIN t = 1 .. Len(t)
    BY AppendProperties, LenProperties, ElementOfSeq
  <1> HIDE DEF t
  <1>2. DOMAIN t = DOMAIN s \cup {Len(s) + 1}
    BY <1>1
  <1>3. Journal!Elements(t) = Journal!Elements(s) \cup {n}
    BY <1>1, <1>2 DEF Journal!Elements
  <1>4. ASSUME Journal!Rising(s), \A x \in Journal!Elements(s) : x < n
        PROVE  Journal!Rising(t)
    <2> SUFFICES ASSUME NEW i \in DOMAIN t, NEW j \in DOMAIN t, i < j PROVE t[i] < t[j]
      BY DEF Journal!Rising
    <2>1. i \in DOMAIN s
      BY <1>1
    <2>2. CASE j \in DOMAIN s
      BY <1>1, <1>4, <2>1, <2>2 DEF Journal!Rising
    <2>3. CASE j = Len(s) + 1
      <3>1. s[i] \in Journal!Elements(s)
        BY <2>1 DEF Journal!Elements
      <3> QED
        BY <1>1, <1>4, <2>1, <2>3, <3>1
    <2> QED
      BY <1>2, <2>2, <2>3
  <1> QED
    BY <1>1, <1>3, <1>4 DEF t

\* A line leaves the pipe or the channel.
LEMMA LineTaken ==
    ASSUME NEW s \in Seq(Nat), s # <<>>, Journal!Rising(s)
    PROVE  /\ Tail(s) \in Seq(Nat) /\ Head(s) \in Nat
           /\ Journal!Elements(s) = {Head(s)} \cup Journal!Elements(Tail(s))
           /\ \A x \in Journal!Elements(Tail(s)) : Head(s) < x
           /\ Journal!Rising(Tail(s))
  <1> DEFINE t == Tail(s)
  <1>1. /\ t \in Seq(Nat) /\ Head(s) \in Nat /\ Head(s) = s[1]
        /\ \A i \in DOMAIN t : i \in Nat
    BY TailPlaces
  <1>2. /\ 1 \in DOMAIN s
        /\ \A i \in DOMAIN t : i + 1 \in DOMAIN s /\ t[i] = s[i + 1] /\ 1 < i + 1
        /\ \A i \in DOMAIN s : i # 1 => i - 1 \in DOMAIN t /\ t[i - 1] = s[i]
    BY TailPlaces
  <1> HIDE DEF t
  <1>3. Journal!Elements(s) = {Head(s)} \cup Journal!Elements(t)
    <2>1. Journal!Elements(s) \subseteq {Head(s)} \cup Journal!Elements(t)
      <3> SUFFICES ASSUME NEW i \in DOMAIN s
                   PROVE  s[i] = Head(s) \/ \E j \in DOMAIN t : s[i] = t[j]
        BY DEF Journal!Elements
      <3> QED
        BY <1>1, <1>2
    <2>2. {Head(s)} \cup Journal!Elements(t) \subseteq Journal!Elements(s)
      <3>1. Head(s) \in Journal!Elements(s)
        BY <1>1, <1>2, Zenon DEF Journal!Elements
      <3>2. ASSUME NEW i \in DOMAIN t PROVE t[i] \in Journal!Elements(s)
        BY <1>2, Zenon DEF Journal!Elements
      <3>3. Journal!Elements(t) \subseteq Journal!Elements(s)
        BY <3>2, Zenon DEF Journal!Elements
      <3> QED
        BY <3>1, <3>3, Zenon
    <2> QED
      BY <2>1, <2>2
  <1>4. ASSUME NEW x \in Journal!Elements(t) PROVE Head(s) < x
    <2>1. PICK i \in DOMAIN t : x = t[i]
      BY DEF Journal!Elements
    <2> QED
      BY <1>1, <1>2, <2>1 DEF Journal!Rising
  <1>5. Journal!Rising(t)
    <2> SUFFICES ASSUME NEW i \in DOMAIN t, NEW j \in DOMAIN t, i < j PROVE t[i] < t[j]
      BY DEF Journal!Rising
    <2>1. i + 1 < j + 1
      BY <1>1
    <2> QED
      BY <1>2, <2>1 DEF Journal!Rising
  <1> QED
    BY <1>1, <1>3, <1>4, <1>5 DEF t

\* The invariant in terms of what the queues hold.
LEMMA JournalSets ==
    ASSUME Journal!IInv
    PROVE  /\ journal \in Seq(Journal!Kinds)
           /\ pipe \in Seq(Nat) /\ chan \in Seq(Nat) /\ handled \in Seq(Nat)
           /\ Journal!Rising(handled) /\ Journal!Rising(chan) /\ Journal!Rising(pipe)
           /\ \A x \in Journal!Elements(handled), y \in Journal!Elements(chan) : x < y
           /\ \A x \in Journal!Elements(handled), y \in Journal!Elements(pipe) : x < y
           /\ \A x \in Journal!Elements(chan), y \in Journal!Elements(pipe) : x < y
           /\ DOMAIN journal = Journal!Elements(handled) \cup Journal!Elements(pipe)
                                 \cup Journal!Elements(chan) \cup lost
           /\ (Journal!Elements(handled) \cup Journal!Elements(pipe)
                 \cup Journal!Elements(chan)) \cap lost = {}
           /\ \A x \in DOMAIN journal : x \in Nat
  <1>1. journal \in Seq(Journal!Kinds)
    BY DEF Journal!IInv
  <1>2. \A x \in DOMAIN journal : x \in Nat
    BY <1>1, LenProperties
  <1> QED
    BY <1>2, BeforeElements DEF Journal!IInv, Journal!OnTheWay, Journal!Lines

\* A step that moves no line.
LEMMA JournalUnmoved ==
    ASSUME Journal!IInv, UNCHANGED <<journal, pipe, chan, handled, lost>>
    PROVE  Journal!IInv'
  BY DEF Journal!IInv, Journal!OnTheWay, Journal!Lines

\* journald writes a line: the running child's pipe takes it behind all others, and
\* it falls into the gap while there is none.
LEMMA JournalWritten ==
    ASSUME Journal!IInv, NEW k \in Journal!Kinds, Journal!JournalWrites(k)
    PROVE  Journal!IInv'
  <1> DEFINE n == Len(journal) + 1
             H == Journal!Elements(handled)
             C == Journal!Elements(chan)
             P == Journal!Elements(pipe)
  <1>1. /\ journal' = Append(journal, k) /\ UNCHANGED <<chan, handled>>
        /\ pipe' = IF child = "running" THEN Append(pipe, Len(journal')) ELSE pipe
        /\ lost' = IF child = "running" THEN lost ELSE lost \cup {Len(journal')}
    BY DEF Journal!JournalWrites
  <1>2. /\ journal' \in Seq(Journal!Kinds) /\ Len(journal') = n /\ n \in Nat
        /\ DOMAIN journal' = DOMAIN journal \cup {n}
        /\ \A x \in DOMAIN journal : x < n
    <2>1. /\ journal \in Seq(Journal!Kinds)
      BY JournalSets
    <2>2. /\ journal' \in Seq(Journal!Kinds) /\ Len(journal') = n /\ Len(journal) \in Nat
          /\ DOMAIN journal = 1 .. Len(journal) /\ DOMAIN journal' = 1 .. Len(journal')
      BY <1>1, <2>1, AppendProperties, LenProperties
    <2> QED
      BY <2>2
  <1> HIDE DEF n
  <1>3. \A x \in H \cup C \cup P \cup lost : x < n
    BY <1>2, JournalSets
  <1>4. CASE child = "running"
    <2>1. pipe' = Append(pipe, n) /\ lost' = lost
      BY <1>1, <1>2, <1>4
    <2>2. /\ pipe' \in Seq(Nat) /\ Journal!Elements(pipe') = P \cup {n}
          /\ Journal!Rising(pipe')
      BY <1>2, <1>3, <2>1, JournalSets, LineAppended
    <2>3. n \notin lost
      BY <1>2, <1>3
    <2>4. Journal!Before(handled', pipe') /\ Journal!Before(chan', pipe')
      BY <1>1, <1>3, <2>2, JournalSets, BeforeElements
    <2>5. Journal!OnTheWay'
      BY <1>1, <2>2, <2>4, JournalSets, BeforeElements DEF Journal!OnTheWay
    <2> QED
      BY <1>1, <1>2, <2>1, <2>2, <2>3, <2>5, JournalSets DEF Journal!IInv, Journal!Lines
  <1>5. CASE child # "running"
    <2>1. pipe' = pipe /\ lost' = lost \cup {n}
      BY <1>1, <1>2, <1>5
    <2>2. Journal!OnTheWay'
      BY <1>1, <2>1 DEF Journal!IInv, Journal!OnTheWay
    <2>3. n \notin H \cup C \cup P
      BY <1>2, <1>3
    <2> QED
      BY <1>1, <1>2, <2>1, <2>2, <2>3, JournalSets DEF Journal!IInv, Journal!Lines
  <1> QED
    BY <1>4, <1>5

\* journal.rs: a line that is read is broadcast behind all others, is empty, or
\* pushes the oldest one out of a full channel.
LEMMA JournalRead ==
    ASSUME Buffer \in Nat \ {0}, Journal!IInv, Journal!ReadLine
    PROVE  Journal!IInv'
  <1> DEFINE n == Head(pipe)
             H == Journal!Elements(handled)
             C == Journal!Elements(chan)
             P == Journal!Elements(pipe)
             Q == Journal!Elements(Tail(pipe))
  <1>1. pipe # <<>> /\ pipe' = Tail(pipe) /\ UNCHANGED <<journal, handled>>
    BY DEF Journal!ReadLine
  <1>2. /\ pipe' \in Seq(Nat) /\ n \in Nat /\ P = {n} \cup Q
        /\ \A x \in Q : n < x /\ x \in Nat
        /\ Journal!Rising(pipe')
    BY <1>1, JournalSets, LineTaken
  <1>3. n \notin Q /\ n \notin C /\ n \notin H /\ n \notin lost /\ \A x \in H \cup C : x < n
    BY <1>2, JournalSets
  <1>4. \/ lost' = lost \cup {n} /\ chan' = chan
        \/ chan' = Append(chan, n) /\ lost' = lost
        \/ chan' = Append(Tail(chan), n) /\ lost' = lost \cup {Head(chan)} /\ ~(Len(chan) < Buffer)
    BY DEF Journal!ReadLine, Journal!Broadcast
  <1>5. journal' \in Seq(Journal!Kinds) /\ handled' \in Seq(Nat) /\ Journal!Rising(handled')
    BY <1>1, JournalSets
  <1> HIDE DEF n
  <1>6. CASE lost' = lost \cup {n} /\ chan' = chan
    <2>1. Journal!Before(handled', pipe') /\ Journal!Before(chan', pipe')
      BY <1>1, <1>2, <1>6, JournalSets, BeforeElements
    <2>2. Journal!OnTheWay'
      BY <1>1, <1>2, <1>6, <2>1, JournalSets, BeforeElements DEF Journal!OnTheWay
    <2> QED
      BY <1>1, <1>2, <1>3, <1>5, <1>6, <2>2, JournalSets DEF Journal!IInv, Journal!Lines
  <1>7. CASE chan' = Append(chan, n) /\ lost' = lost
    <2>1. /\ chan' \in Seq(Nat) /\ Journal!Elements(chan') = C \cup {n} /\ Journal!Rising(chan')
      BY <1>2, <1>3, <1>7, JournalSets, LineAppended
    <2>2. /\ Journal!Before(handled', chan') /\ Journal!Before(handled', pipe')
          /\ Journal!Before(chan', pipe')
      BY <1>1, <1>2, <1>3, <2>1, JournalSets, BeforeElements
    <2>3. Journal!OnTheWay'
      BY <1>2, <1>5, <2>1, <2>2 DEF Journal!OnTheWay
    <2> QED
      BY <1>1, <1>2, <1>3, <1>5, <1>7, <2>1, <2>3, JournalSets DEF Journal!IInv, Journal!Lines
  <1>8. CASE /\ chan' = Append(Tail(chan), n) /\ lost' = lost \cup {Head(chan)}
             /\ ~(Len(chan) < Buffer)
    <2> DEFINE h == Head(chan)
               D == Journal!Elements(Tail(chan))
    <2>1. chan # <<>>
      <3>1. Len(<<>>) = 0
        OBVIOUS
      <3> QED
        BY <1>8, <3>1
    <2>2. /\ Tail(chan) \in Seq(Nat) /\ h \in Nat /\ C = {h} \cup D
          /\ \A x \in D : h < x
          /\ Journal!Rising(Tail(chan))
      BY <2>1, JournalSets, LineTaken
    <2>3. /\ chan' \in Seq(Nat) /\ Journal!Elements(chan') = D \cup {n} /\ Journal!Rising(chan')
      BY <1>2, <1>3, <1>8, <2>2, LineAppended
    <2>4. h \notin D /\ h \notin Q /\ h \notin H /\ h # n
      <3>1. h \notin D /\ h # n
        BY <1>2, <1>3, <2>2
      <3>2. h \in C /\ Q \subseteq P /\ ~(h < h)
        BY <1>2, <2>2
      <3>3. h \notin Q /\ h \notin H
        BY <3>2, JournalSets
      <3> QED
        BY <3>1, <3>3
    <2> HIDE DEF h, D
    <2>5. /\ Journal!Before(handled', chan') /\ Journal!Before(handled', pipe')
          /\ Journal!Before(chan', pipe')
      <3>1. /\ handled' \in Seq(Nat) /\ pipe' \in Seq(Nat)
            /\ Journal!Elements(handled') = H /\ Journal!Elements(pipe') = Q
        BY <1>1, <1>2, JournalSets
      <3>2. /\ \A x \in H, y \in D \cup {n} : x < y
            /\ \A x \in H, y \in Q : x < y
            /\ \A x \in D \cup {n}, y \in Q : x < y
        BY <1>2, <1>3, <2>2, JournalSets
      <3> QED
        BY <2>3, <3>1, <3>2, BeforeElements
    <2>6. Journal!OnTheWay'
      BY <1>2, <1>5, <2>3, <2>5 DEF Journal!OnTheWay
    <2>7. lost' = lost \cup {h}
      BY <1>8 DEF h
    <2> QED
      BY <1>1, <1>2, <1>3, <1>5, <2>2, <2>3, <2>4, <2>6, <2>7, JournalSets
         DEF Journal!IInv, Journal!Lines
  <1> QED
    BY <1>4, <1>6, <1>7, <1>8

\* journal.rs: a child that is killed takes with it what its pipe held.
LEMMA JournalKilled ==
    ASSUME Journal!IInv, Journal!ReadError
    PROVE  Journal!IInv'
  <1>1. /\ pipe' = <<>> /\ lost' = lost \cup Journal!Elements(pipe)
        /\ UNCHANGED <<journal, chan, handled>>
    BY DEF Journal!ReadError
  <1>2. /\ Journal!Elements(pipe') = {} /\ Journal!Rising(pipe') /\ pipe' \in Seq(Nat)
    BY <1>1, EmptyLines
  <1>3. Journal!Before(handled', pipe') /\ Journal!Before(chan', pipe')
    BY <1>2, BeforeElements
  <1>4. Journal!OnTheWay'
    BY <1>1, <1>2, <1>3 DEF Journal!IInv, Journal!OnTheWay
  <1>5. \A x \in Journal!Elements(pipe) : /\ x \notin Journal!Elements(handled)
                                          /\ x \notin Journal!Elements(chan)
    <2> SUFFICES ASSUME NEW x \in Journal!Elements(pipe)
                 PROVE  x \notin Journal!Elements(handled) /\ x \notin Journal!Elements(chan)
      OBVIOUS
    <2>1. x \in Nat /\ ~(x < x)
      BY JournalSets
    <2> QED
      BY <2>1, JournalSets
  <1> QED
    BY <1>1, <1>2, <1>4, <1>5, JournalSets DEF Journal!IInv, Journal!Lines

\* syslog_rules.rs: the oldest line of the channel is matched next.
LEMMA JournalReceived ==
    ASSUME Journal!IInv, Journal!Recv
    PROVE  Journal!IInv'
  <1> DEFINE n == Head(chan)
             H == Journal!Elements(handled)
             C == Journal!Elements(chan)
             P == Journal!Elements(pipe)
             D == Journal!Elements(Tail(chan))
  <1>1. /\ chan # <<>> /\ chan' = Tail(chan) /\ handled' = Append(handled, n)
        /\ UNCHANGED <<journal, pipe, lost>>
    BY DEF Journal!Recv
  <1>2. /\ chan' \in Seq(Nat) /\ n \in Nat /\ C = {n} \cup D
        /\ \A x \in D : n < x
        /\ Journal!Rising(chan')
    BY <1>1, JournalSets, LineTaken
  <1> HIDE DEF n
  <1>3. /\ handled' \in Seq(Nat) /\ Journal!Elements(handled') = H \cup {n}
        /\ Journal!Rising(handled')
    BY <1>1, <1>2, JournalSets, LineAppended
  <1>4. /\ Journal!Before(handled', chan') /\ Journal!Before(handled', pipe')
        /\ Journal!Before(chan', pipe')
    BY <1>1, <1>2, <1>3, JournalSets, BeforeElements
  <1>5. Journal!OnTheWay'
    BY <1>1, <1>2, <1>3, <1>4, JournalSets DEF Journal!OnTheWay
  <1> QED
    BY <1>1, <1>2, <1>3, <1>5, JournalSets DEF Journal!IInv, Journal!Lines

\* The rules start before the first line.
LEMMA JournalInit == Journal!Init => Journal!IInv
  <1> SUFFICES ASSUME Journal!Init PROVE Journal!IInv
    OBVIOUS
  <1>1. /\ journal = <<>> /\ pipe = <<>> /\ chan = <<>> /\ handled = <<>> /\ lost = {}
    BY DEF Journal!Init
  <1>2. <<>> \in Seq(Journal!Kinds) /\ DOMAIN <<>> = {}
    OBVIOUS
  <1>3. Journal!OnTheWay
    BY <1>1, EmptyLines, BeforeElements DEF Journal!OnTheWay
  <1> QED
    BY <1>1, <1>2, <1>3, EmptyLines DEF Journal!IInv, Journal!Lines

\* journald, the child processes, the reader and the rules keep the order of the lines.
LEMMA JournalStep ==
    ASSUME Journal!IInv, [Journal!Next]_Journal!vars
    PROVE  Journal!IInv'
  <1>1. Buffer \in Nat \ {0}
    BY OomAssumption
  <1>2. CASE \/ Journal!ChildExits \/ Journal!Start \/ Journal!ReadEof
             \/ UNCHANGED Journal!vars
    <2>1. UNCHANGED <<journal, pipe, chan, handled, lost>>
      BY <1>2 DEF Journal!ChildExits, Journal!Start, Journal!ReadEof, Journal!vars
    <2> QED
      BY <2>1, JournalUnmoved
  <1> QED
    BY <1>1, <1>2, JournalWritten, JournalRead, JournalKilled, JournalReceived DEF Journal!Next

-----------------------------------------------------------------------------
(* memory_ecc.rs.                                                          *)

\* A poll compares the readings of the sensors that were available.
LEMMA EccPoll ==
    ASSUME NEW off, NEW bad, Ecc!PollIpmi(off, bad) \/ (off = {} /\ Ecc!PollEdac(bad))
    PROVE  \E r : /\ \/ \E pick \in Ecc!Picks(Ecc!UeOn(off)) : r = Ecc!IpmiReadings(off, bad, pick)
                     \/ r = Ecc!EdacReadings(bad)
                  /\ Ecc!Compare(r)
  BY DEF Ecc!PollIpmi, Ecc!PollEdac

\* parse_ipmi_sdr_output and read_edac_sysfs: when no name contains another and
\* every sensor gave a number, a DIMM is listed under its own name and with its
\* own number of uncorrectable errors.
LEMMA EccReadings ==
    ASSUME \A d \in Dimms : <<d, d>> \in Contains,
           Generic \notin {"ce", "ue"} \X Dimms, None \notin Dimms,
           Ecc!Unambiguous, NEW r, NEW d \in Dimms,
           NEW off, NEW bad, off \cup bad \subseteq {Generic},
           \/ \E pick \in Ecc!Picks(Ecc!UeOn(off)) : r = Ecc!IpmiReadings(off, bad, pick)
           \/ r = Ecc!EdacReadings(bad)
    PROVE  Ecc!CeName(d) \in DOMAIN r /\ r[Ecc!CeName(d)].ue = mem[d].ue
  <1>1. /\ <<"ce", d>> # Generic /\ <<"ce", d>>[1] = "ce" /\ <<"ce", d>>[2] = d
        /\ Ecc!CeName(d) = <<"ce", d>>
    BY DEF Ecc!CeName
  <1>2. Ecc!UeOf(d, bad) = mem[d].ue /\ Ecc!CeOn(off) = Dimms /\ Ecc!UeOn(off) = Dimms
    BY DEF Ecc!UeOf, Ecc!CeOn, Ecc!UeOn, Ecc!CeName, Ecc!UeName
  <1>3. ASSUME NEW pick \in Ecc!Picks(Dimms), r = Ecc!IpmiReadings(off, bad, pick)
        PROVE  Ecc!CeName(d) \in DOMAIN r /\ r[Ecc!CeName(d)].ue = mem[d].ue
    <2>1. Ecc!Candidates(d, Dimms) = {d}
      <3>1. ASSUME NEW e \in Dimms, <<d, e>> \in Contains
            PROVE  e = d
        <4>1. <<d, e>>[1] = <<d, e>>[2]
          BY <3>1 DEF Ecc!Unambiguous
        <4> QED
          BY <4>1
      <3> QED
        BY <3>1 DEF Ecc!Candidates
    <2>2. pick[d] = d /\ d # None
      BY <2>1 DEF Ecc!Picks
    <2> DEFINE listed == {Ecc!CeName(e) : e \in Ecc!CeOn(off)}
                           \cup {Ecc!UeName(e) : e \in {u \in Ecc!UeOn(off) : \A v \in Ecc!CeOn(off) : <<u, v>> \notin Contains}}
                           \cup {n \in {Generic} \ (off \cup bad) : generic > 0}
               val(n) == IF n = Generic THEN [ce |-> generic, ue |-> 0]
                         ELSE IF n[1] = "ue" THEN [ce |-> 0, ue |-> Ecc!UeOf(n[2], bad)]
                         ELSE [ce |-> Ecc!CeOf(n[2], bad),
                               ue |-> IF pick[n[2]] = None THEN 0 ELSE Ecc!UeOf(pick[n[2]], bad)]
    <2>3. r = [n \in listed |-> val(n)]
      BY <1>3 DEF Ecc!IpmiReadings
    <2>4. Ecc!CeName(d) \in listed
      BY <1>2
    <2>5. val(<<"ce", d>>) = [ce |-> Ecc!CeOf(d, bad), ue |-> mem[d].ue]
      BY <1>1, <1>2, <2>2
    <2> HIDE DEF listed, val
    <2>6. DOMAIN r = listed /\ r[Ecc!CeName(d)] = val(<<"ce", d>>)
      BY <1>1, <2>3, <2>4
    <2> QED
      BY <2>4, <2>5, <2>6
  <1>4. ASSUME r = Ecc!EdacReadings(bad)
        PROVE  Ecc!CeName(d) \in DOMAIN r /\ r[Ecc!CeName(d)].ue = mem[d].ue
    <2> DEFINE val(n) == [ce |-> Ecc!CeOf(n[2], bad), ue |-> Ecc!UeOf(n[2], bad)]
    <2>1. r = [n \in {Ecc!CeName(e) : e \in Dimms} |-> val(n)]
      BY <1>4 DEF Ecc!EdacReadings
    <2>2. val(<<"ce", d>>).ue = mem[d].ue
      BY <1>1, <1>2
    <2>3. Ecc!CeName(d) \in {Ecc!CeName(e) : e \in Dimms}
      OBVIOUS
    <2> HIDE DEF val
    <2>4. Ecc!CeName(d) \in DOMAIN r /\ r[Ecc!CeName(d)] = val(<<"ce", d>>)
      BY <1>1, <2>1, <2>3
    <2> QED
      BY <2>2, <2>4
  <1> QED
    BY <1>2, <1>3, <1>4

\* ipmi_sdr_poll_loop, edac_poll_loop: prev_counts takes every reading, so after
\* a poll that read all sensors it holds the counters as they were then.
LEMMA EccStep ==
    ASSUME \A d \in Dimms : <<d, d>> \in Contains,
           Generic \notin {"ce", "ue"} \X Dimms, None \notin Dimms,
           Ecc!IInv, [Ecc!Next]_Ecc!vars
    PROVE  Ecc!IInv'
  <1> USE DEF Ecc!IInv
  <1>1. ASSUME UNCHANGED <<prev_counts, clean, atFull>>
        PROVE  Ecc!Paired'
    BY <1>1 DEF Ecc!Paired, Ecc!CeName, Ecc!Unambiguous
  <1>2. ASSUME UNCHANGED <<mem, atFull, restarted>>
        PROVE  Ecc!Growing'
    BY <1>2 DEF Ecc!Growing
  <1>3. ASSUME NEW d \in Dimms, Ecc!CorrectableError(d)
        PROVE  Ecc!IInv'
    <2>1. mem' = [mem EXCEPT ![d].ce = @ + 1] /\ UNCHANGED <<prev_counts, clean, atFull, restarted>>
      BY <1>3 DEF Ecc!CorrectableError
    <2>2. Ecc!Growing'
      BY <2>1 DEF Ecc!Growing
    <2> QED
      BY <1>1, <2>1, <2>2
  <1>4. ASSUME NEW d \in Dimms, Ecc!UncorrectableError(d)
        PROVE  Ecc!IInv'
    <2>1. mem' = [mem EXCEPT ![d].ue = @ + 1] /\ UNCHANGED <<prev_counts, clean, atFull, restarted>>
      BY <1>4 DEF Ecc!UncorrectableError
    <2>2. Ecc!Growing'
      BY <2>1 DEF Ecc!Growing
    <2> QED
      BY <1>1, <2>1, <2>2
  <1>5. ASSUME NEW d \in Dimms, Ecc!CountersRestart(d)
        PROVE  Ecc!IInv'
    <2>1. mem' = [mem EXCEPT ![d] = Ecc!Zero] /\ restarted' = restarted \cup {d}
          /\ UNCHANGED <<prev_counts, clean, atFull>>
      BY <1>5 DEF Ecc!CountersRestart
    <2>2. Ecc!Growing'
      BY <2>1 DEF Ecc!Growing, Ecc!Zero
    <2> QED
      BY <1>1, <2>1, <2>2
  <1>6. ASSUME NEW off, NEW bad, Ecc!PollIpmi(off, bad) \/ (off = {} /\ Ecc!PollEdac(bad))
        PROVE  Ecc!IInv'
    <2>1. /\ mem' = mem /\ clean' = (off \cup bad \subseteq {Generic})
          /\ atFull' = IF clean' THEN mem ELSE atFull
          /\ restarted' = IF clean' THEN {} ELSE restarted
      BY <1>6 DEF Ecc!PollIpmi, Ecc!PollEdac, Ecc!Polled, Ecc!Noted
    <2>2. Ecc!Growing'
      BY <2>1 DEF Ecc!Growing
    <2>3. ASSUME Ecc!Unambiguous, clean', NEW d \in Dimms
          PROVE  Ecc!CeName(d) \in DOMAIN prev_counts' /\ prev_counts'[Ecc!CeName(d)].ue = atFull'[d].ue
      <3>1. off \cup bad \subseteq {Generic} /\ atFull' = mem
        BY <2>1, <2>3
      <3>2. PICK r : /\ \/ \E pick \in Ecc!Picks(Ecc!UeOn(off)) : r = Ecc!IpmiReadings(off, bad, pick)
                        \/ r = Ecc!EdacReadings(bad)
                     /\ Ecc!Compare(r)
        BY <1>6, EccPoll
      <3>3. Ecc!CeName(d) \in DOMAIN r /\ r[Ecc!CeName(d)].ue = mem[d].ue
        BY <2>3, <3>1, <3>2, EccReadings
      <3>4. prev_counts' = [n \in DOMAIN prev_counts \cup DOMAIN r |->
                              IF n \in DOMAIN r THEN r[n] ELSE prev_counts[n]]
        BY <3>2 DEF Ecc!Compare
      <3> QED
        BY <3>1, <3>3, <3>4
    <2>4. Ecc!Paired'
      BY <2>3 DEF Ecc!Paired, Ecc!Unambiguous, Ecc!CeName
    <2> QED
      BY <2>2, <2>4
  <1>7. ASSUME Ecc!GenericError \/ Ecc!PollFails \/ UNCHANGED Ecc!vars
        PROVE  Ecc!IInv'
    BY <1>1, <1>2, <1>7 DEF Ecc!GenericError, Ecc!PollFails, Ecc!Polled, Ecc!vars
  <1> QED
    BY <1>3, <1>4, <1>5, <1>6, <1>7 DEF Ecc!Next

\* The counters have not started over, and clean says that no poll read them all yet.
LEMMA EccInit == Ecc!Init => Ecc!IInv
  BY DEF Ecc!Init, Ecc!IInv, Ecc!Growing, Ecc!Paired, Ecc!Zero

\* So the poll that reads all sensors observes the difference to the last such poll,
\* and where the counter started over at most what it counted since.
LEMMA EccExact ==
    ASSUME \A d \in Dimms : <<d, d>> \in Contains,
           Generic \notin {"ce", "ue"} \X Dimms, None \notin Dimms,
           Ecc!IInv, Ecc!Next
    PROVE  Ecc!UeExact
  <1> SUFFICES ASSUME Ecc!Unambiguous, Ecc!Comparable, NEW d \in Dimms
               PROVE  /\ d \notin restarted => new'[Ecc!CeName(d)].ue = mem[d].ue - atFull[d].ue
                      /\ d \in restarted => new'[Ecc!CeName(d)].ue \in 0 .. mem[d].ue
    BY DEF Ecc!UeExact
  <1>1. /\ mem[d].ue \in Nat /\ atFull[d].ue \in Nat
        /\ d \notin restarted => atFull[d].ue <= mem[d].ue
        /\ Ecc!CeName(d) \in DOMAIN prev_counts /\ prev_counts[Ecc!CeName(d)].ue = atFull[d].ue
    BY DEF Ecc!IInv, Ecc!Growing, Ecc!Paired, Ecc!Comparable
  <1>2. DOMAIN new' # {} /\ polls' # polls /\ clean'
    BY DEF Ecc!Comparable
  <1>3. ~Ecc!NoDeltas
    <2>1. DOMAIN [n \in {} |-> Ecc!Zero] = {}
      OBVIOUS
    <2> QED
      BY <1>2, <2>1 DEF Ecc!NoDeltas
  <1>4. PICK off, bad : Ecc!PollIpmi(off, bad) \/ (off = {} /\ Ecc!PollEdac(bad))
    <2>1. \E bad : Ecc!PollEdac(bad) \/ \E off : Ecc!PollIpmi(off, bad)
      BY <1>3 DEF Ecc!Next, Ecc!CorrectableError, Ecc!UncorrectableError, Ecc!GenericError,
         Ecc!CountersRestart, Ecc!PollFails
    <2> QED
      BY <2>1
  <1>5. off \cup bad \subseteq {Generic}
    BY <1>2, <1>4 DEF Ecc!PollIpmi, Ecc!PollEdac, Ecc!Noted
  <1>6. PICK r : /\ \/ \E pick \in Ecc!Picks(Ecc!UeOn(off)) : r = Ecc!IpmiReadings(off, bad, pick)
                    \/ r = Ecc!EdacReadings(bad)
                 /\ Ecc!Compare(r)
    BY <1>4, EccPoll
  <1>7. Ecc!CeName(d) \in DOMAIN r /\ r[Ecc!CeName(d)].ue = mem[d].ue
    BY <1>5, <1>6, EccReadings
  <1>8. new'[Ecc!CeName(d)].ue = Ecc!SaturatingSub(r[Ecc!CeName(d)].ue, Ecc!Baseline(Ecc!CeName(d), r).ue)
    BY <1>6, <1>7 DEF Ecc!Compare
  <1>9. Ecc!Baseline(Ecc!CeName(d), r).ue = atFull[d].ue
    BY <1>1 DEF Ecc!Baseline
  <1> QED
    BY <1>1, <1>7, <1>8, <1>9 DEF Ecc!SaturatingSub

-----------------------------------------------------------------------------
(* The monitors side by side.                                              *)

\* A behaviour of HardwareSpec follows one monitor, and the others stand still.
LEMMA OneMonitor ==
    ASSUME [HardwareNext]_allVars
    PROVE  /\ monitor' = monitor
           /\ monitor = "storage" => [Storage!Next]_Storage!vars
           /\ monitor = "controllers" => [Raid!Next]_Raid!vars
           /\ monitor = "counters" => [Counters!Next]_Counters!vars
           /\ monitor = "ecc" => [Ecc!Next]_Ecc!vars
           /\ monitor = "link" => [Link!Next]_Link!vars
           /\ monitor = "oom" => [Next]_vars
           /\ monitor = "aer" => [Aer!Next]_Aer!vars
           /\ monitor = "journal" => [Journal!Next]_Journal!vars
  <1>1. CASE UNCHANGED allVars
    <2>1. UNCHANGED <<Storage!vars, Raid!vars, Counters!vars, Ecc!vars, Link!vars>>
      BY <1>1 DEF allVars, shared, linkOnly, counterOnly, raidOnly, storageOnly, eccOnly,
         Storage!vars, Storage!host, Storage!blocks, Storage!osds, Raid!vars, Counters!vars,
         Ecc!vars, Link!vars
    <2>2. UNCHANGED <<vars, Aer!vars, Journal!vars>>
      BY <1>1 DEF allVars, shared, lineVars, oomOnly, aerOnly, journalOnly, vars, kernel,
         consumer, Aer!vars, Journal!vars
    <2> QED
      BY <1>1, <2>1, <2>2 DEF allVars
  <1>2. CASE HardwareNext
    BY <1>2 DEF HardwareNext, BesidesOom
  <1> QED
    BY <1>1, <1>2

\* kmsg.rs and mempressure.rs oom_loop: every line broadcast has been received, waits
\* in the channel or is counted by a Lagged warning; kills are handled in the kernel's
\* order and none twice, and none is missing while nothing was overwritten.
\* journal.rs and syslog_rules.rs: over any number of journalctl processes the rules
\* see the lines in order and at most once, and the others are under way or fell into
\* a known gap.  Both for every capacity of ring and channel and any number of lines.
THEOREM LinesAreAccounted == HardwareSpec => []LinesAccounted
  <1> DEFINE I == (monitor = "oom" => KillsInv) /\ (monitor = "journal" => Journal!IInv)
  <1>1. HardwareInit => I
    BY KillsInit, JournalInit DEF HardwareInit
  <1>2. I /\ [HardwareNext]_allVars => I'
    BY OneMonitor, KillsStep, JournalStep
  <1>3. I => LinesAccounted
    BY DEF LinesAccounted, KillsInv, Journal!IInv, Journal!OnTheWay, Journal!Rising,
       Journal!JournalAccounted
  <1> QED
    BY <1>1, <1>2, <1>3, PTL DEF HardwareSpec

\* storage_controller.rs poll_loop, storage_io.rs block_device_loop and
\* ceph_osd_watch: a controller has been raised as lost exactly when it was seen once
\* and missing from a later view that was not empty, a disk when missing from a later
\* view, a Ceph OSD when it was active and later listed as anything else, for every
\* set of them and whatever enumerations failed or were partial in between.
THEOREM LossExact == HardwareSpec => []LossIffMissed
  <1> DEFINE I == (monitor = "storage" => Storage!IInv) /\ (monitor = "controllers" => Raid!IInv)
  <1>1. HardwareInit => I
    BY StorageInit, RaidInit DEF HardwareInit
  <1>2. I /\ [HardwareNext]_allVars => I'
    BY OneMonitor, StorageStep, RaidStep
  <1>3. I => LossIffMissed
    BY DEF LossIffMissed, Storage!IInv, Raid!IInv
  <1> QED
    BY <1>1, <1>2, <1>3, PTL DEF HardwareSpec

\* network_nic.rs run_rtnetlink: once the messages are read, link_down is raised
\* whenever the link is not up, across restarts of the loop, and until the loop first
\* restarts it is not raised while the link is up.
THEOREM DownIsTold ==
    ASSUME None \notin Link!OperStates
    PROVE  HardwareSpec => []DownFollowsLink
  <1> DEFINE I == monitor = "link" => Link!DownInv
  <1>1. HardwareInit => I
    BY DownInit DEF HardwareInit
  <1>2. I /\ [HardwareNext]_allVars => I'
    BY OneMonitor, WireStep, DownStep DEF Link!DownInv
  <1>3. I => DownFollowsLink
    BY DEF Link!DownInv, Link!WireTells, Link!DownTells, DownFollowsLink, Link!DownFollowsLink,
       Link!Settled, Link!OperStates
  <1> QED
    BY <1>1, <1>2, <1>3, PTL DEF HardwareSpec

\* mempressure.rs oom_loop, pcie_aer.rs, network_nic.rs run_rtnetlink: the alert about
\* many events in a rolling window is raised if and only if as many kills, corrected
\* errors or link transitions as configured were handled within it, for every window,
\* threshold and number of events, although each window is trimmed only when an event
\* comes.
THEOREM RatesExact ==
    ASSUME AerTime \in Nat, AerWindow \in Nat,
           FlapWindow \in Nat, FlapThreshold \in Nat \ {0}
    PROVE  HardwareSpec => RateIffDense
  <1> DEFINE I == /\ monitor = "oom" => StormInv
                  /\ monitor = "aer" => Aer!RateInv
                  /\ monitor = "link" => Link!FlapInv
             A == /\ monitor = "oom" => StormIffDense
                  /\ monitor = "aer" => Aer!RateIffDense
                  /\ monitor = "link" => Link!FlapIffDense'
  <1>1. HardwareInit => I
    BY StormInit, AerInit, FlapInit DEF HardwareInit
  <1>2. I /\ [HardwareNext]_allVars => I'
    BY OneMonitor, StormStep, AerStep, FlapStep
  <1>3. I /\ I' /\ [HardwareNext]_allVars => [A]_allVars
    <2> SUFFICES ASSUME I, I', HardwareNext PROVE A
      OBVIOUS
    <2>1. /\ monitor' = monitor
          /\ monitor = "oom" => Next
          /\ monitor = "aer" => Aer!Next
      BY DEF HardwareNext, BesidesOom
    <2>2. monitor = "link" => Link!FlapIffDense'
      BY <2>1 DEF Link!FlapInv
    <2> QED
      BY <2>1, <2>2, StormExact, AerExact
  <1> QED
    BY <1>1, <1>2, <1>3, PTL DEF HardwareSpec, RateIffDense

\* network_nic.rs counter_loop: between two polls in a row that read the counter
\* exactly the errors counted are observed, whatever went before; memory_ecc.rs: the
\* same of uncorrectable errors between two polls that read all sensors, failed polls
\* in between included, for every number of DIMMs; and after a counter started over
\* no old error is observed again.  A name contains itself, and the generic sensor is
\* not named like a DIMM's.
THEOREM DeltasExact ==
    ASSUME \A d \in Dimms : <<d, d>> \in Contains,
           Generic \notin {"ce", "ue"} \X Dimms, None \notin Dimms
    PROVE  HardwareSpec => DeltaExact
  <1> DEFINE I == (monitor = "counters" => Counters!IInv) /\ (monitor = "ecc" => Ecc!IInv)
             A == /\ monitor = "counters" => Counters!DeltaExact
                  /\ monitor = "ecc" => Ecc!UeExact
  <1>1. HardwareInit => I
    BY EccInit DEF HardwareInit, Counters!Init, Counters!IInv
  <1>2. I /\ [HardwareNext]_allVars => I'
    BY OneMonitor, CountersStep, EccStep
  <1>3. I /\ [HardwareNext]_allVars => [A]_allVars
    BY CountersExact, EccExact DEF HardwareNext
  <1> QED
    BY <1>1, <1>2, <1>3, PTL DEF HardwareSpec, DeltaExact
=============================================================================
