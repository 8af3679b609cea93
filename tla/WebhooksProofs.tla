--------------------------- MODULE WebhooksProofs ---------------------------
(***************************************************************************)
(* Theorems about the task of a webhook (collector/src/webhooks.rs) for    *)
(* every rate limit, window, ring capacity, set of envelopes and endpoint. *)
(***************************************************************************)
EXTENDS Webhooks, SequenceTheorems, WellFoundedInduction, TLAPS

(***************************************************************************)
(* Operators.                                                              *)
(***************************************************************************)

\* A set of naturals that is not empty has a least element.
LEMMA MinOfNats ==
    ASSUME NEW S \in SUBSET Nat, S # {}
    PROVE  Min(S) \in S /\ \A x \in S : Min(S) <= x
  <1> DEFINE Less == {p \in Nat \X Nat : p[1] < p[2]}
  <1>1. IsWellFoundedOn(Less, Nat)
    BY NatLessThanWellFounded DEF OpToRel
  <1> HIDE DEF Less
  <1>2. PICK x \in S : \A y \in S : ~(<<y, x>> \in Less)
    BY <1>1, WFMin
  <1>3. \A y \in S : x <= y
    <2> SUFFICES ASSUME NEW y \in S, y < x PROVE FALSE
      OBVIOUS
    <2>1. <<y, x>> \in Nat \X Nat /\ <<y, x>>[1] < <<y, x>>[2]
      OBVIOUS
    <2> QED
      BY <1>2, <2>1 DEF Less
  <1> QED
    BY <1>3 DEF Min

\* The smaller of two numbers, as the saturating clock takes it.
LEMMA MinOfTwo ==
    ASSUME NEW a \in Int, NEW b \in Int
    PROVE  Min({a, b}) = IF a <= b THEN a ELSE b
  BY DEF Min

\* What a sliding window keeps of a list is its end; every entry before that lies
\* more than the span back, and the first it keeps does not.
LEMMA RecentFacts ==
    ASSUME NEW T \in SUBSET Nat, NEW w \in Seq(T), NEW t \in Nat, NEW span \in Nat
    PROVE  LET r == Recent(w, t, span)
               gone == Len(w) - Len(r)
           IN  /\ r \in Seq(T)
               /\ gone \in Nat /\ Len(r) <= Len(w)
               /\ \A i \in 1 .. Len(r) : gone + i \in 1 .. Len(w) /\ r[i] = w[gone + i]
               /\ \A i \in 1 .. gone : i \in 1 .. Len(w) /\ t - w[i] > span
               /\ Len(r) > 0 => t - r[1] <= span
  <1> DEFINE recent == {i \in DOMAIN w : t - w[i] <= span}
             r == Recent(w, t, span)
             gone == Len(w) - Len(r)
  <1>1. /\ Len(w) \in Nat /\ DOMAIN w = 1 .. Len(w)
        /\ \A i \in 1 .. Len(w) : w[i] \in T /\ w[i] \in Nat
    <2>1. /\ Len(w) \in Nat /\ DOMAIN w = 1 .. Len(w)
          /\ \A i \in 1 .. Len(w) : w[i] \in T
      BY ElementOfSeq
    <2> QED
      BY <2>1
  <1>2. CASE recent = {}
    <2>1. r = <<>>
      BY <1>2 DEF Recent
    <2>2. \A i \in 1 .. Len(w) : t - w[i] > span
      BY <1>1, <1>2
    <2>3. r \in Seq(T) /\ Len(r) = 0 /\ gone = Len(w)
      BY <1>1, <2>1
    <2> QED
      BY <1>1, <2>2, <2>3
  <1>3. CASE recent # {}
    <2>1. recent \in SUBSET Nat
      BY <1>1
    <2> DEFINE m == Min(recent)
    <2>2. m \in recent /\ \A i \in recent : m <= i
      BY <1>3, <2>1, MinOfNats
    <2>3. r = SubSeq(w, m, Len(w))
      BY <1>3 DEF Recent
    <2> HIDE DEF m
    <2>4. m \in 1 .. Len(w) /\ t - w[m] <= span
      BY <1>1, <2>2
    <2>5. /\ r \in Seq(T) /\ Len(r) = Len(w) - m + 1
          /\ \A i \in 1 .. Len(w) - m + 1 : r[i] = w[m + i - 1]
      BY <1>1, <2>3, <2>4, SubSeqProperties
    <2> HIDE DEF r
    <2>6. gone = m - 1
      BY <1>1, <2>4, <2>5
    <2>7. \A i \in 1 .. gone : i \in 1 .. Len(w) /\ t - w[i] > span
      <3> SUFFICES ASSUME NEW i \in 1 .. gone
                   PROVE  i \in 1 .. Len(w) /\ t - w[i] > span
        OBVIOUS
      <3>1. i \in 1 .. Len(w) /\ i < m
        BY <1>1, <2>4, <2>6
      <3>2. i \notin recent
        BY <2>2, <2>4, <3>1
      <3> QED
        BY <1>1, <3>1, <3>2
    <2>8. \A i \in 1 .. Len(r) : gone + i \in 1 .. Len(w) /\ r[i] = w[gone + i]
      BY <1>1, <2>4, <2>5, <2>6
    <2>9. r[1] = w[m]
      <3>1. 1 \in 1 .. Len(w) - m + 1 /\ m + 1 - 1 = m
        BY <1>1, <2>4
      <3> QED
        BY <2>5, <3>1
    <2> QED
      BY <1>1, <2>4, <2>5, <2>6, <2>7, <2>8, <2>9 DEF r
  <1> QED
    BY <1>2, <1>3

-----------------------------------------------------------------------------
(***************************************************************************)
(* Types.                                                                  *)
(***************************************************************************)

\* run_one starts with an empty window and nothing in hand.
LEMMA InitIInv == Init => IInv
  <1> SUFFICES ASSUME Init PROVE IInv
    OBVIOUS
  <1>1. /\ Len(unread) = 0 /\ Len(window) = 0 /\ Len(admitted) = 0 /\ Len(posts) = 0
        /\ DOMAIN admitted = {} /\ DOMAIN posts = {} /\ job = None
    BY DEF Init
  <1>2. TypeOK
    <2>1. /\ unread \in Seq([id : 1 .. MaxEvents, env : Envelope])
          /\ window \in Seq(0 .. MaxTime) /\ admitted \in Seq(0 .. MaxTime)
          /\ posts \in Seq([id : 1 .. MaxEvents, at : 0 .. MaxTime,
                             outcome : Outcomes, pause : Nat])
      BY DEF Init
    <2>2. now \in 0 .. MaxTime /\ total \in 0 .. MaxEvents /\ 0 <= RingCap /\ 0 <= Rate
      BY WebhookAssumption DEF Init
    <2> QED
      BY <1>1, <2>1, <2>2 DEF Init, TypeOK
  <1>3. WindowIsSuffix /\ AdmittedInOrder /\ RateHonoured
    BY <1>1 DEF WindowIsSuffix, AdmittedInOrder, RateHonoured
  <1>4. AlertsInOrder /\ PausesKept /\ PostsJustified
    BY <1>1 DEF AlertsInOrder, PausesKept, PostsJustified
  <1> QED
    BY <1>2, <1>3, <1>4 DEF IInv

\* The window after retain, typed.
LEMMA RetainType ==
    ASSUME TypeOK
    PROVE  /\ Retain(window) \in Seq(0 .. MaxTime)
           /\ Len(Retain(window)) \in Nat /\ Len(Retain(window)) <= Len(window)
  <1>1. /\ 0 .. MaxTime \in SUBSET Nat /\ window \in Seq(0 .. MaxTime)
        /\ now \in Nat /\ WindowDur \in Nat
    BY WebhookAssumption DEF TypeOK
  <1>2. /\ Recent(window, now, WindowDur) \in Seq(0 .. MaxTime)
        /\ Len(Recent(window, now, WindowDur)) <= Len(window)
    BY <1>1, RecentFacts
  <1> QED
    BY <1>2 DEF Retain

\* What recv, the filters and the rate limit may do to the window.
LEMMA WindowStep ==
    ASSUME TypeOK, Recv
    PROVE  \/ UNCHANGED <<window, job, admitted>>
           \/ /\ window' = Retain(window) /\ UNCHANGED <<job, admitted>>
           \/ /\ window' = Append(Retain(window), now) /\ Len(Retain(window)) < Rate
              /\ admitted' = Append(admitted, now)
              /\ job' \in {None, [id |-> Head(unread).id, attempt |-> 1, sleep |-> 0]}
  <1>1. Len(Retain(window)) \in Nat /\ Rate \in Nat
    BY RetainType, WebhookAssumption
  <1> QED
    BY <1>1 DEF Recv

\* A POST and its outcome are well typed.
LEMMA PostedType ==
    ASSUME TypeOK, NEW outcome \in Outcomes, NEW pause \in Nat, Posted(outcome, pause)
    PROVE  /\ job \in [id : 1 .. MaxEvents, attempt : 1 .. 2, sleep : {0}]
           /\ posts' \in Seq([id : 1 .. MaxEvents, at : 0 .. MaxTime,
                               outcome : Outcomes, pause : Nat])
           /\ UNCHANGED <<now, total, unread, lagged, window, admitted>>
  <1>1. job \in [id : 1 .. MaxEvents, attempt : 1 .. 2, sleep : {0}]
    BY DEF Posted, Awake, TypeOK
  <1>2. [id |-> job.id, at |-> now, outcome |-> outcome, pause |-> pause]
          \in [id : 1 .. MaxEvents, at : 0 .. MaxTime, outcome : Outcomes, pause : Nat]
    BY <1>1 DEF TypeOK
  <1> QED
    BY <1>1, <1>2 DEF Posted, TypeOK

\* Every step of the channel, the clock, the task and the endpoint keeps the types:
\* the backlog within the ring, the window within the rate.
LEMMA NextType ==
    ASSUME TypeOK, [Next]_vars
    PROVE  TypeOK'
  <1>1. ASSUME NEW e \in Inputs, Publish(e)
        PROVE  TypeOK'
    <2> DEFINE m == [id |-> total + 1, env |-> e]
               M == [id : 1 .. MaxEvents, env : Envelope]
    <2>1. m \in M /\ total' \in 0 .. MaxEvents
      BY <1>1, WebhookAssumption DEF Publish, TypeOK
    <2>2. unread \in Seq(M) /\ Len(unread) <= RingCap /\ RingCap \in Nat \ {0}
      BY WebhookAssumption DEF TypeOK
    <2> HIDE DEF m, M
    <2>3. CASE Len(unread) < RingCap /\ unread' = Append(unread, m) /\ UNCHANGED lagged
      <3>1. unread' \in Seq(M) /\ Len(unread') <= RingCap
        BY <2>1, <2>2, <2>3
      <3> QED
        BY <1>1, <2>1, <2>3, <3>1 DEF Publish, TypeOK, M
    <2>4. CASE /\ ~(Len(unread) < RingCap)
               /\ unread' = Append(Tail(unread), m) /\ lagged' = TRUE
      <3>1. Tail(unread) \in Seq(M) /\ Len(Tail(unread)) = Len(unread) - 1
        BY <2>2, <2>4, HeadTailProperties
      <3>2. unread' \in Seq(M) /\ Len(unread') <= RingCap
        BY <2>1, <2>2, <2>4, <3>1
      <3> QED
        BY <1>1, <2>1, <2>4, <3>2 DEF Publish, TypeOK, M
    <2>5. \/ Len(unread) < RingCap /\ unread' = Append(unread, m) /\ UNCHANGED lagged
          \/ ~(Len(unread) < RingCap) /\ unread' = Append(Tail(unread), m) /\ lagged' = TRUE
      BY <1>1 DEF Publish, m
    <2> QED
      BY <2>3, <2>4, <2>5
  <1>2. CASE Tick
    <2>1. now' \in 0 .. MaxTime
      <3>1. now \in 0 .. MaxTime /\ MaxTime \in Nat /\ now + 1 \in Int
        BY WebhookAssumption DEF TypeOK
      <3>2. now' = IF now + 1 <= MaxTime THEN now + 1 ELSE MaxTime
        BY <1>2, <3>1, MinOfTwo DEF Tick
      <3> QED
        BY <3>1, <3>2
    <2>2. job' \in [id : 1 .. MaxEvents, attempt : 1 .. 3, sleep : Nat] \cup {None}
      <3>1. CASE job # None /\ job.sleep > 0
        <4>1. job \in [id : 1 .. MaxEvents, attempt : 1 .. 3, sleep : Nat]
          BY <3>1 DEF TypeOK
        <4>2. job' = [job EXCEPT !.sleep = @ - 1]
          BY <1>2, <3>1 DEF Tick
        <4>3. job.sleep - 1 \in Nat
          BY <3>1, <4>1
        <4> QED
          BY <4>1, <4>2, <4>3
      <3>2. CASE ~(job # None /\ job.sleep > 0)
        BY <1>2, <3>2 DEF Tick, TypeOK
      <3> QED
        BY <3>1, <3>2
    <2> QED
      BY <1>2, <2>1, <2>2 DEF Tick, TypeOK
  <1>3. CASE RecvLagged
    BY <1>3 DEF RecvLagged, TypeOK
  <1>4. CASE Recv
    <2> DEFINE M == [id : 1 .. MaxEvents, env : Envelope]
    <2>1. /\ Head(unread) \in M /\ unread' \in Seq(M) /\ Len(unread') <= RingCap
      <3>1. /\ unread \in Seq(M) /\ unread # <<>> /\ unread' = Tail(unread)
            /\ Len(unread) <= RingCap /\ RingCap \in Nat
        BY <1>4, WebhookAssumption DEF Recv, TypeOK
      <3> HIDE DEF M
      <3> QED
        BY <3>1, HeadTailProperties
    <2>2. window' \in Seq(0 .. MaxTime) /\ Len(window') <= Rate /\ admitted' \in Seq(0 .. MaxTime)
      <3>1. /\ window \in Seq(0 .. MaxTime) /\ Len(window) <= Rate /\ Rate \in Nat
            /\ now \in 0 .. MaxTime /\ admitted \in Seq(0 .. MaxTime)
        BY WebhookAssumption DEF TypeOK
      <3>2. CASE UNCHANGED <<window, job, admitted>>
        BY <3>1, <3>2
      <3>3. CASE window' = Retain(window) /\ UNCHANGED <<job, admitted>>
        BY <3>1, <3>3, RetainType
      <3>4. CASE /\ window' = Append(Retain(window), now) /\ Len(Retain(window)) < Rate
                 /\ admitted' = Append(admitted, now)
        BY <3>1, <3>4, RetainType
      <3> QED
        BY <1>4, <3>2, <3>3, <3>4, WindowStep
    <2>4. job' \in [id : 1 .. MaxEvents, attempt : 1 .. 3, sleep : Nat] \cup {None}
      <3>1. [id |-> Head(unread).id, attempt |-> 1, sleep |-> 0]
              \in [id : 1 .. MaxEvents, attempt : 1 .. 3, sleep : Nat]
        BY <2>1
      <3> QED
        BY <1>4, <3>1, WindowStep DEF TypeOK
    <2> QED
      BY <1>4, <2>1, <2>2, <2>4 DEF Recv, TypeOK
  <1>5. CASE PostFinal
    <2>1. PICK outcome \in Outcomes : Posted(outcome, 0) /\ job' = None
      BY <1>5 DEF PostFinal, Outcomes
    <2> QED
      BY <2>1, PostedType DEF TypeOK
  <1>6. CASE PostAgain
    <2>1. PICK outcome \in Outcomes, pause \in Nat :
             /\ Posted(outcome, pause)
             /\ job' = [job EXCEPT !.attempt = @ + 1, !.sleep = pause]
      BY <1>6, WebhookAssumption DEF PostAgain, Outcomes
    <2>2. job' \in [id : 1 .. MaxEvents, attempt : 1 .. 3, sleep : Nat]
      <3>1. job \in [id : 1 .. MaxEvents, attempt : 1 .. 2, sleep : {0}]
        BY <2>1, PostedType
      <3>2. job' = [id |-> job.id, attempt |-> job.attempt + 1, sleep |-> pause]
        BY <2>1, <3>1
      <3> QED
        BY <3>1, <3>2
    <2> QED
      BY <2>1, <2>2, PostedType DEF TypeOK
  <1>7. CASE GiveUp
    BY <1>7 DEF GiveUp, TypeOK
  <1>8. CASE UNCHANGED vars
    BY <1>8 DEF vars, TypeOK
  <1> QED
    BY <1>1, <1>2, <1>3, <1>4, <1>5, <1>6, <1>7, <1>8 DEF Next

\* The backlog stays within the ring and the window within the rate, in every
\* behaviour of the task.
THEOREM TypeCorrect == Spec => []TypeOK
  <1>1. Init => TypeOK
    BY InitIInv DEF IInv
  <1>2. TypeOK /\ [Next]_vars => TypeOK'
    BY NextType
  <1> QED
    BY <1>1, <1>2, PTL DEF Spec

-----------------------------------------------------------------------------
(***************************************************************************)
(* The rate limit.                                                         *)
(***************************************************************************)

\* The clock of the window never goes back.
LEMMA ClockForward ==
    ASSUME TypeOK, [Next]_vars
    PROVE  now \in Nat /\ now' \in Nat /\ now <= now'
  <1>1. now \in 0 .. MaxTime /\ MaxTime \in Nat /\ now + 1 \in Int
    BY WebhookAssumption DEF TypeOK
  <1>2. CASE Tick
    <2>1. now' = IF now + 1 <= MaxTime THEN now + 1 ELSE MaxTime
      BY <1>1, <1>2, MinOfTwo DEF Tick
    <2> QED
      BY <1>1, <2>1
  <1>3. CASE now' = now
    BY <1>1, <1>3
  <1> QED
    BY <1>2, <1>3 DEF Next, vars, Publish, RecvLagged, Recv, PostFinal, PostAgain, Posted, GiveUp

\* What retain leaves is again the end of the admissions, and all the others are
\* older than the window.
LEMMA RetainSuffix ==
    ASSUME IInv
    PROVE  LET r == Retain(window)
               k == Len(admitted) - Len(r)
           IN  /\ k \in Nat
               /\ \A i \in 1 .. Len(r) : r[i] = admitted[k + i]
               /\ \A i \in 1 .. k : now - admitted[i] > WindowDur
  <1> DEFINE r == Retain(window)
             g == Len(window) - Len(r)
             gone == Len(admitted) - Len(window)
             k == Len(admitted) - Len(r)
  <1>1. /\ window \in Seq(0 .. MaxTime) /\ admitted \in Seq(0 .. MaxTime)
        /\ 0 .. MaxTime \in SUBSET Nat /\ now \in Nat /\ WindowDur \in Nat
    BY WebhookAssumption DEF IInv, TypeOK
  <1>2. /\ g \in Nat /\ Len(r) \in Nat
        /\ \A i \in 1 .. Len(r) : g + i \in 1 .. Len(window) /\ r[i] = window[g + i]
        /\ \A i \in 1 .. g : i \in 1 .. Len(window) /\ now - window[i] > WindowDur
    BY <1>1, RecentFacts, RetainType, ZenonT(60) DEF Retain, IInv
  <1>3. /\ gone \in Nat /\ Len(window) \in Nat /\ Len(admitted) \in Nat
        /\ \A i \in 1 .. Len(window) : window[i] = admitted[gone + i]
        /\ \A i \in 1 .. gone : now - admitted[i] > WindowDur
    BY <1>1 DEF IInv, WindowIsSuffix
  <1> HIDE DEF r
  <1>4. k = gone + g /\ k \in Nat
    BY <1>2, <1>3
  <1>5. \A i \in 1 .. Len(r) : r[i] = admitted[k + i]
    <2> SUFFICES ASSUME NEW i \in 1 .. Len(r) PROVE r[i] = admitted[k + i]
      OBVIOUS
    <2>1. r[i] = admitted[gone + (g + i)]
      BY <1>2, <1>3
    <2>2. gone + (g + i) = k + i
      BY <1>2, <1>3, <1>4
    <2> QED
      BY <2>1, <2>2
  <1>6. \A i \in 1 .. k : now - admitted[i] > WindowDur
    <2> SUFFICES ASSUME NEW i \in 1 .. k, i > gone PROVE now - admitted[i] > WindowDur
      BY <1>3, <1>4
    <2>1. i - gone \in 1 .. g
      BY <1>2, <1>3, <1>4
    <2>2. i - gone \in 1 .. Len(window) /\ now - window[i - gone] > WindowDur
      BY <1>2, <2>1
    <2>3. window[i - gone] = admitted[gone + (i - gone)] /\ gone + (i - gone) = i
      BY <1>3, <2>2
    <2> QED
      BY <2>2, <2>3
  <1> QED
    BY <1>4, <1>5, <1>6 DEF r

\* Every step keeps the rate limit: an admission finds its Rate-th predecessor
\* already outside the window.
LEMMA NextRate ==
    ASSUME IInv, [Next]_vars, TypeOK'
    PROVE  WindowIsSuffix' /\ AdmittedInOrder' /\ RateHonoured'
  <1>1. /\ admitted \in Seq(0 .. MaxTime) /\ Len(admitted) \in Nat /\ Len(window) \in Nat
        /\ DOMAIN admitted = 1 .. Len(admitted) /\ MaxTime \in Nat /\ WindowDur \in Nat
        /\ Rate \in Nat
    BY WebhookAssumption DEF IInv, TypeOK
  <1>2. \A i \in 1 .. Len(admitted) : admitted[i] \in Nat
    BY <1>1, ElementOfSeq
  <1>3. now \in Nat /\ now' \in Nat /\ now <= now'
    BY ClockForward DEF IInv
  <1>4. CASE UNCHANGED <<window, admitted>>
    <2>1. WindowIsSuffix'
      BY <1>1, <1>2, <1>3, <1>4 DEF IInv, WindowIsSuffix
    <2>2. AdmittedInOrder' /\ RateHonoured'
      BY <1>1, <1>2, <1>3, <1>4 DEF IInv, AdmittedInOrder, RateHonoured
    <2> QED
      BY <2>1, <2>2
  <1>5. CASE Recv
    <2> DEFINE r == Retain(window)
               k == Len(admitted) - Len(r)
    <2>1. /\ k \in Nat
          /\ \A i \in 1 .. Len(r) : r[i] = admitted[k + i]
          /\ \A i \in 1 .. k : now - admitted[i] > WindowDur
      BY RetainSuffix
    <2>2. r \in Seq(0 .. MaxTime) /\ Len(r) \in Nat
      BY RetainType DEF IInv
    <2>3. now' = now
      BY <1>5 DEF Recv
    <2> HIDE DEF r
    <2>4. CASE window' = r /\ UNCHANGED admitted
      <3>1. WindowIsSuffix'
        BY <2>1, <2>2, <2>3, <2>4 DEF WindowIsSuffix
      <3>2. AdmittedInOrder' /\ RateHonoured'
        BY <2>3, <2>4 DEF IInv, AdmittedInOrder, RateHonoured
      <3> QED
        BY <3>1, <3>2
    <2>5. CASE /\ window' = Append(r, now) /\ Len(r) < Rate
               /\ admitted' = Append(admitted, now)
      <3>1. /\ Len(admitted') = Len(admitted) + 1
            /\ DOMAIN admitted' = 1 .. Len(admitted) + 1
            /\ \A i \in 1 .. Len(admitted) : admitted'[i] = admitted[i]
            /\ admitted'[Len(admitted) + 1] = now
        BY <1>1, <2>5, AppendProperties
      <3>2. /\ Len(window') = Len(r) + 1
            /\ \A i \in 1 .. Len(r) : window'[i] = r[i]
            /\ window'[Len(r) + 1] = now
        BY <2>2, <2>5, AppendProperties
      <3>3. Len(admitted') - Len(window') = k
        BY <1>1, <2>2, <3>1, <3>2
      <3>4. WindowIsSuffix'
        <4>1. \A i \in 1 .. Len(window') : window'[i] = admitted'[k + i]
          <5> SUFFICES ASSUME NEW i \in 1 .. Len(window') PROVE window'[i] = admitted'[k + i]
            OBVIOUS
          <5>1. CASE i = Len(r) + 1
            <6>1. k + i = Len(admitted) + 1
              BY <1>1, <2>2, <5>1
            <6> QED
              BY <3>1, <3>2, <5>1, <6>1
          <5>2. CASE i # Len(r) + 1
            <6>1. i \in 1 .. Len(r) /\ k + i \in 1 .. Len(admitted)
              BY <1>1, <2>1, <2>2, <3>2, <5>2
            <6> QED
              BY <2>1, <3>1, <3>2, <6>1
          <5> QED
            BY <5>1, <5>2
        <4>2. \A i \in 1 .. k : now' - admitted'[i] > WindowDur
          <5> SUFFICES ASSUME NEW i \in 1 .. k PROVE now' - admitted'[i] > WindowDur
            OBVIOUS
          <5>1. i \in 1 .. Len(admitted)
            BY <1>1, <2>1, <2>2
          <5> QED
            BY <2>1, <2>3, <3>1, <5>1
        <4>3. k >= 0
          BY <2>1
        <4> HIDE DEF k
        <4> QED
          BY <3>3, <4>1, <4>2, <4>3 DEF WindowIsSuffix
      <3>5. AdmittedInOrder'
        BY <1>1, <1>2, <1>3, <2>3, <3>1, SMTT(30) DEF IInv, AdmittedInOrder
      <3>6. RateHonoured'
        <4> SUFFICES ASSUME NEW i \in 1 .. Len(admitted) + 1, i + Rate \in 1 .. Len(admitted) + 1
                     PROVE  admitted'[i + Rate] - admitted'[i] > WindowDur
          BY <3>1 DEF RateHonoured
        <4>1. CASE i + Rate = Len(admitted) + 1
          <5>1. i \in 1 .. k /\ i \in 1 .. Len(admitted)
            BY <1>1, <2>2, <2>5, <4>1
          <5> QED
            BY <2>1, <3>1, <4>1, <5>1
        <4>2. CASE i + Rate # Len(admitted) + 1
          <5>1. i + Rate \in 1 .. Len(admitted) /\ i \in 1 .. Len(admitted)
            BY <1>1, <4>2
          <5> QED
            BY <1>1, <3>1, <5>1 DEF IInv, RateHonoured
        <4> QED
          BY <4>1, <4>2
      <3> QED
        BY <3>4, <3>5, <3>6
    <2> QED
      BY <1>4, <1>5, <2>4, <2>5, WindowStep DEF IInv, r
  <1> QED
    BY <1>4, <1>5
       DEF Next, vars, Publish, Tick, RecvLagged, PostFinal, PostAgain, Posted, GiveUp

-----------------------------------------------------------------------------
(***************************************************************************)
(* The POSTs.                                                              *)
(***************************************************************************)

\* When the pause that a POST was answered with is over, by the clock.
Due(p) == Min({p.at + p.pause, MaxTime})

PostRecord == [id : 1 .. MaxEvents, at : 0 .. MaxTime, outcome : Outcomes, pause : Nat]

\* The end of a pause is a time of the saturating clock.
LEMMA DueFacts ==
    ASSUME NEW p \in PostRecord
    PROVE  Due(p) \in Int /\ Due(p) <= MaxTime /\ Due(p) <= p.at + p.pause
  <1>1. p.at + p.pause \in Int /\ MaxTime \in Int
    BY WebhookAssumption DEF PostRecord
  <1> QED
    BY <1>1, MinOfTwo DEF Due

\* The elements of the lists, typed.
LEMMA ElementTypes ==
    ASSUME TypeOK
    PROVE  /\ posts \in Seq(PostRecord) /\ Len(posts) \in Nat
           /\ DOMAIN posts = 1 .. Len(posts)
           /\ \A k \in 1 .. Len(posts) :
                 posts[k] \in PostRecord /\ posts[k].id \in Int /\ Due(posts[k]) \in Int
           /\ Len(unread) \in Nat /\ \A i \in 1 .. Len(unread) : unread[i].id \in Int
           /\ now \in Nat /\ total \in Nat
  <1>1. /\ posts \in Seq(PostRecord) /\ now \in Nat /\ total \in Nat
        /\ unread \in Seq([id : 1 .. MaxEvents, env : Envelope])
    BY WebhookAssumption DEF TypeOK, PostRecord
  <1>2. \A k \in 1 .. Len(posts) : posts[k] \in PostRecord
    BY <1>1, ElementOfSeq
  <1>3. \A i \in 1 .. Len(unread) : unread[i] \in [id : 1 .. MaxEvents, env : Envelope]
    BY <1>1, ElementOfSeq
  <1>4. \A k \in 1 .. Len(posts) : posts[k].id \in Int /\ Due(posts[k]) \in Int
    BY <1>2, DueFacts DEF PostRecord
  <1>5. \A i \in 1 .. Len(unread) : unread[i].id \in Int
    BY <1>3
  <1> QED
    BY <1>1, <1>2, <1>4, <1>5

\* The job in hand, typed.
LEMMA JobType ==
    ASSUME TypeOK, job # None
    PROVE  job.id \in Int /\ job.attempt \in 1 .. 3 /\ job.sleep \in Nat
  BY DEF TypeOK

\* broadcast: the new envelope has the highest number, whether or not the ring
\* overwrites the oldest.
LEMMA PublishPosts ==
    ASSUME IInv, NEW e \in Inputs, Publish(e)
    PROVE  AlertsInOrder' /\ PausesKept' /\ PostsJustified'
  <1> DEFINE m == [id |-> total + 1, env |-> e]
             M == [id : 1 .. MaxEvents, env : Envelope]
  <1>1. /\ total' = total + 1 /\ UNCHANGED <<now, job, posts>> /\ total \in Nat
        /\ unread \in Seq(M) /\ Len(unread) \in Nat /\ TypeOK
        /\ RingCap \in Nat \ {0}
    BY WebhookAssumption DEF Publish, IInv, TypeOK
  <1>2. m \in M /\ m.id = total + 1
    BY <1>1, WebhookAssumption DEF Publish
  <1>3. PICK u \in Seq(M) :
           /\ unread' = Append(u, m)
           /\ \E d \in {0, 1} : /\ Len(u) = Len(unread) - d
                              /\ \A i \in 1 .. Len(u) : u[i] = unread[i + d]
    <2> HIDE DEF m, M
    <2>1. CASE Len(unread) < RingCap
      <3>1. unread' = Append(unread, m)
        BY <2>1 DEF Publish, m
      <3> QED
        BY <1>1, <3>1
    <2>2. CASE ~(Len(unread) < RingCap)
      <3>1. unread' = Append(Tail(unread), m) /\ unread # <<>>
        BY <1>1, <2>2 DEF Publish, m
      <3> QED
        BY <1>1, <3>1, HeadTailProperties
    <2> QED
      BY <2>1, <2>2
  <1>4. PICK d \in {0, 1} : /\ Len(u) = Len(unread) - d
                           /\ \A i \in 1 .. Len(u) : u[i] = unread[i + d]
    BY <1>3
  <1> HIDE DEF m, M
  <1>5. /\ Len(unread') = Len(u) + 1 /\ Len(u) \in Nat
        /\ \A i \in 1 .. Len(u) : unread'[i] = u[i]
        /\ unread'[Len(u) + 1] = m
    BY <1>2, <1>3, AppendProperties
  <1>6. \A i \in 1 .. Len(u) :
            i + d \in 1 .. Len(unread) /\ unread'[i].id = unread[i + d].id
            /\ unread[i + d].id <= total /\ unread[i + d].id \in Int
    BY <1>1, <1>4, <1>5, ElementTypes DEF IInv, AlertsInOrder
  <1>7. \A i \in 1 .. Len(unread') :
            \/ i = Len(u) + 1 /\ unread'[i].id = total + 1
            \/ i \in 1 .. Len(u)
    BY <1>2, <1>5
  <1>8. \A i \in 1 .. Len(unread') : unread'[i].id <= total'
    <2> SUFFICES ASSUME NEW i \in 1 .. Len(unread') PROVE unread'[i].id <= total'
      OBVIOUS
    <2>1. CASE unread'[i].id = total + 1
      BY <1>1, <2>1
    <2>2. CASE i \in 1 .. Len(u)
      BY <1>1, <1>6, <2>2
    <2> QED
      BY <1>7, <2>1, <2>2
  <1>9. \A i, j \in 1 .. Len(unread') : i < j => unread'[i].id < unread'[j].id
    <2> SUFFICES ASSUME NEW i \in 1 .. Len(unread'), NEW j \in 1 .. Len(unread'), i < j
                 PROVE  unread'[i].id < unread'[j].id
      OBVIOUS
    <2>1. i \in 1 .. Len(u)
      BY <1>5
    <2>2. CASE j = Len(u) + 1
      BY <1>1, <1>2, <1>5, <1>6, <2>1, <2>2
    <2>3. CASE j \in 1 .. Len(u)
      <3>1. i + d < j + d
        BY <1>4
      <3> QED
        BY <1>6, <2>1, <2>3, <3>1 DEF IInv, AlertsInOrder
    <2> QED
      BY <1>7, <2>2, <2>3
  <1>10. \A k \in 1 .. Len(posts) :
            posts[k].id <= total' /\ \A i \in 1 .. Len(unread') : posts[k].id < unread'[i].id
    <2> SUFFICES ASSUME NEW k \in 1 .. Len(posts), NEW i \in 1 .. Len(unread')
                 PROVE  posts[k].id <= total' /\ posts[k].id < unread'[i].id
      BY <1>5
    <2>1. posts[k].id \in Int /\ posts[k].id <= total
      BY <1>1, ElementTypes DEF IInv, AlertsInOrder
    <2> QED
      BY <1>1, <1>6, <1>7, <2>1, SMTT(30) DEF IInv, AlertsInOrder
  <1>11. job # None => job.id <= total' /\ \A i \in 1 .. Len(unread') : job.id < unread'[i].id
    <2> SUFFICES ASSUME job # None, NEW i \in 1 .. Len(unread')
                 PROVE  job.id <= total' /\ job.id < unread'[i].id
      BY <1>5
    <2>1. job.id \in Int /\ job.id <= total
      BY <1>1, JobType DEF IInv, AlertsInOrder
    <2>2. CASE unread'[i].id = total + 1
      BY <1>1, <2>1, <2>2
    <2>3. CASE i \in 1 .. Len(u)
      <3>1. job.id < unread[i + d].id
        BY <1>6, <2>3 DEF IInv, AlertsInOrder
      <3> QED
        BY <1>1, <1>6, <2>1, <2>3, <3>1
    <2> QED
      BY <1>7, <2>2, <2>3
  <1>12. AlertsInOrder'
    BY <1>1, <1>8, <1>9, <1>10, <1>11 DEF IInv, AlertsInOrder
  <1>13. PausesKept' /\ PostsJustified'
    BY <1>1 DEF IInv, PausesKept, PostsJustified
  <1> QED
    BY <1>12, <1>13

\* Time passes: the sleep shortens as the clock goes on.
LEMMA TickPosts ==
    ASSUME IInv, TypeOK', Tick
    PROVE  AlertsInOrder' /\ PausesKept' /\ PostsJustified'
  <1>1. TypeOK /\ UNCHANGED <<total, unread, posts>> /\ MaxTime \in Nat
    BY WebhookAssumption DEF IInv, Tick
  <1>2. /\ job = None => job' = None
        /\ job # None => /\ job' # None
                         /\ job'.id = job.id /\ job'.attempt = job.attempt
                         /\ job'.sleep = IF job.sleep > 0 THEN job.sleep - 1 ELSE 0
    <2>1. CASE job # None /\ job.sleep > 0
      <3>1. job \in [id : 1 .. MaxEvents, attempt : 1 .. 3, sleep : Nat]
        BY <1>1, <2>1 DEF TypeOK
      <3>2. job' = [id |-> job.id, attempt |-> job.attempt, sleep |-> job.sleep - 1]
        BY <2>1, <3>1 DEF Tick
      <3>3. job' \in [id : Nat, attempt : Nat, sleep : Nat]
        BY <2>1, <3>1, <3>2
      <3> QED
        BY <2>1, <3>2, <3>3, WebhookAssumption
    <2>2. CASE job # None /\ ~(job.sleep > 0)
      BY <1>1, <2>2, JobType DEF Tick
    <2>3. CASE job = None
      BY <2>3 DEF Tick
    <2> QED
      BY <2>1, <2>2, <2>3
  <1>3. AlertsInOrder' /\ PostsJustified'
    BY <1>1, <1>2 DEF IInv, AlertsInOrder, PostsJustified
  <1>4. PausesKept'
    <2>1. now \in 0 .. MaxTime /\ now' = IF now + 1 <= MaxTime THEN now + 1 ELSE MaxTime
      <3>1. now \in 0 .. MaxTime /\ now + 1 \in Int /\ MaxTime \in Int
        BY <1>1 DEF TypeOK
      <3> QED
        BY <3>1, MinOfTwo DEF Tick
    <2> SUFFICES ASSUME NEW k \in 1 .. Len(posts)
                 PROVE  now' + (IF job' = None THEN 0 ELSE job'.sleep) >= Due(posts[k])
      BY <1>1 DEF PausesKept, Due
    <2>2. Due(posts[k]) \in Int /\ Due(posts[k]) <= MaxTime
      BY <1>1, ElementTypes, DueFacts
    <2>3. now + (IF job = None THEN 0 ELSE job.sleep) >= Due(posts[k])
      BY DEF IInv, PausesKept, Due
    <2>4. CASE job = None
      BY <1>1, <1>2, <2>1, <2>2, <2>3, <2>4
    <2>5. CASE job # None
      BY <1>1, <1>2, <2>1, <2>2, <2>3, <2>5, JobType
    <2> QED
      BY <2>4, <2>5
  <1> QED
    BY <1>3, <1>4

\* recv takes the oldest envelope left; the task is not asleep.
LEMMA RecvPosts ==
    ASSUME IInv, TypeOK', Recv
    PROVE  AlertsInOrder' /\ PausesKept' /\ PostsJustified'
  <1> DEFINE M == [id : 1 .. MaxEvents, env : Envelope]
  <1>1. /\ TypeOK /\ job = None /\ unread # <<>> /\ unread' = Tail(unread)
        /\ UNCHANGED <<now, total, posts>> /\ unread \in Seq(M)
    BY DEF IInv, Recv, TypeOK
  <1>2. job' \in {None, [id |-> Head(unread).id, attempt |-> 1, sleep |-> 0]}
    BY <1>1, WindowStep
  <1> HIDE DEF M
  <1>3. /\ 1 \in 1 .. Len(unread) /\ Head(unread) = unread[1]
        /\ Len(unread') = Len(unread) - 1 /\ Len(unread) \in Nat
        /\ \A i \in 1 .. Len(unread') : i + 1 \in 1 .. Len(unread) /\ unread'[i] = unread[i + 1]
    BY <1>1, HeadTailProperties
  <1>4. job' # None =>
            job'.id = unread[1].id /\ job'.attempt = 1 /\ job'.sleep = 0
    BY <1>2, <1>3
  <1>5. /\ \A i \in 1 .. Len(unread') : unread'[i].id <= total'
        /\ \A k \in 1 .. Len(posts') : posts'[k].id <= total'
        /\ \A k \in 1 .. Len(posts'), i \in 1 .. Len(unread') : posts'[k].id < unread'[i].id
    BY <1>1, <1>3 DEF IInv, AlertsInOrder
  <1>6. \A i, j \in 1 .. Len(unread') : i < j => unread'[i].id < unread'[j].id
    <2> SUFFICES ASSUME NEW i \in 1 .. Len(unread'), NEW j \in 1 .. Len(unread'), i < j
                 PROVE  unread'[i].id < unread'[j].id
      OBVIOUS
    <2>1. i + 1 < j + 1
      BY <1>3
    <2> QED
      BY <1>3, <2>1 DEF IInv, AlertsInOrder
  <1>7. job' # None => \A i \in 1 .. Len(unread') : job'.id < unread'[i].id
    <2> SUFFICES ASSUME job' # None, NEW i \in 1 .. Len(unread') PROVE job'.id < unread'[i].id
      OBVIOUS
    <2>1. 1 < i + 1
      BY <1>3
    <2> QED
      BY <1>3, <1>4, <2>1 DEF IInv, AlertsInOrder
  <1>8. job' # None => /\ job'.id <= total'
                      /\ \A k \in 1 .. Len(posts') : posts'[k].id < job'.id
    BY <1>1, <1>3, <1>4 DEF IInv, AlertsInOrder
  <1>9. AlertsInOrder'
    BY <1>5, <1>6, <1>7, <1>8 DEF AlertsInOrder
  <1>10. PausesKept'
    BY <1>1, <1>4 DEF IInv, PausesKept
  <1>11. PostsJustified'
    BY <1>1 DEF IInv, PostsJustified
  <1> QED
    BY <1>9, <1>10, <1>11

\* A POST of deliver: for the alert in hand, after the pause of every earlier one.
LEMMA PostedPosts ==
    ASSUME IInv, NEW outcome \in Outcomes, NEW pause \in Nat, Posted(outcome, pause),
           \/ job' = None /\ pause = 0
           \/ /\ job' = [job EXCEPT !.attempt = @ + 1, !.sleep = pause]
              /\ outcome \notin {"ok", "4xx"}
    PROVE  AlertsInOrder' /\ PausesKept' /\ PostsJustified'
  <1> DEFINE p == [id |-> job.id, at |-> now, outcome |-> outcome, pause |-> pause]
             L == Len(posts)
  <1>1. /\ TypeOK /\ job # None /\ job.sleep = 0 /\ job.attempt <= 2
        /\ posts' = Append(posts, p) /\ UNCHANGED <<now, total, unread>>
    BY DEF IInv, Posted, Awake
  <1>2. /\ job \in [id : 1 .. MaxEvents, attempt : 1 .. 2, sleep : {0}]
        /\ job.id \in Int /\ job.attempt \in {1, 2}
    BY <1>1, PostedType
  <1>3. p \in PostRecord /\ p.id = job.id /\ p.at = now /\ p.outcome = outcome /\ p.pause = pause
    BY <1>1, <1>2 DEF PostRecord, TypeOK
  <1> HIDE DEF p
  <1>4. /\ posts \in Seq(PostRecord) /\ L \in Nat
        /\ \A k \in 1 .. L : posts[k] \in PostRecord /\ posts[k].id \in Int /\ Due(posts[k]) \in Int
        /\ now \in Nat
    BY <1>1, ElementTypes
  <1>5. /\ Len(posts') = L + 1 /\ DOMAIN posts' = 1 .. L + 1
        /\ \A k \in 1 .. L : posts'[k] = posts[k]
        /\ posts'[L + 1] = p
    BY <1>1, <1>3, <1>4, AppendProperties
  <1>6. \A k \in 1 .. L :
            /\ posts[k].id <= job.id
            /\ posts[k].id = job.id =>
                 job.attempt = 2 /\ k = L /\ posts[k].outcome \notin {"ok", "4xx"}
    BY <1>1, <1>2, <1>4 DEF IInv, AlertsInOrder
  <1>7. \A k \in 1 .. L : now >= Due(posts[k])
    BY <1>1, <1>4 DEF IInv, PausesKept, Due
  <1>8. Due(p) \in Int /\ Due(p) <= now + pause
    BY <1>3, DueFacts
  <1>9. \/ job' = None /\ pause = 0
        \/ /\ job' # None /\ job'.id = job.id /\ job'.attempt = job.attempt + 1
           /\ job'.sleep = pause /\ outcome \notin {"ok", "4xx"}
    <2>1. CASE /\ job' = [job EXCEPT !.attempt = @ + 1, !.sleep = pause]
               /\ outcome \notin {"ok", "4xx"}
      <3>1. job' = [id |-> job.id, attempt |-> job.attempt + 1, sleep |-> pause]
        BY <1>2, <2>1
      <3>2. job' \in [id : Nat, attempt : Nat, sleep : Nat]
        BY <1>2, <3>1
      <3> QED
        BY <2>1, <3>1, <3>2, WebhookAssumption
    <2> QED
      BY <2>1
  <1>10. AlertsInOrder'
    <2>1. /\ \A i \in 1 .. Len(unread') : unread'[i].id <= total'
          /\ \A i, j \in 1 .. Len(unread') : i < j => unread'[i].id < unread'[j].id
      BY <1>1 DEF IInv, AlertsInOrder
    <2>2. ASSUME NEW k \in 1 .. Len(posts')
          PROVE  /\ posts'[k].id <= total'
                 /\ \A i \in 1 .. Len(unread') : posts'[k].id < unread'[i].id
      <3>1. CASE k = L + 1
        BY <1>1, <1>3, <1>5, <3>1 DEF IInv, AlertsInOrder
      <3>2. CASE k \in 1 .. L
        BY <1>1, <1>5, <3>2 DEF IInv, AlertsInOrder
      <3> QED
        BY <1>4, <1>5, <3>1, <3>2
    <2>3. ASSUME job' # None
          PROVE  /\ job'.id <= total'
                 /\ \A i \in 1 .. Len(unread') : job'.id < unread'[i].id
      BY <1>1, <1>9, <2>3 DEF IInv, AlertsInOrder
    <2>4. ASSUME job' # None, NEW k \in 1 .. Len(posts')
          PROVE  \/ posts'[k].id < job'.id
                 \/ /\ posts'[k].id = job'.id /\ job'.attempt > 1
                    /\ job'.attempt = 2 =>
                          k = Len(posts') /\ posts'[k].outcome \notin {"ok", "4xx"}
      <3>1. CASE k = L + 1
        BY <1>2, <1>3, <1>5, <1>9, <2>4, <3>1
      <3>2. CASE k \in 1 .. L
        BY <1>2, <1>4, <1>5, <1>6, <1>9, <2>4, <3>2
      <3> QED
        BY <1>4, <1>5, <3>1, <3>2
    <2> QED
      BY <2>1, <2>2, <2>3, <2>4 DEF AlertsInOrder
  <1>11. PausesKept'
    <2> SUFFICES ASSUME NEW k \in 1 .. Len(posts')
                 PROVE  now' + (IF job' = None THEN 0 ELSE job'.sleep) >= Due(posts'[k])
      BY DEF PausesKept, Due
    <2>1. now' + (IF job' = None THEN 0 ELSE job'.sleep) = now + pause
      BY <1>1, <1>4, <1>9
    <2>2. CASE k = L + 1
      BY <1>4, <1>5, <1>8, <2>1, <2>2
    <2>3. CASE k \in 1 .. L
      BY <1>4, <1>5, <1>7, <2>1, <2>3
    <2> QED
      BY <1>4, <1>5, <2>2, <2>3
  <1>12. PostsJustified'
    <2> SUFFICES ASSUME NEW i \in 1 .. L + 1, NEW j \in 1 .. L + 1, i < j
                 PROVE  /\ posts'[i].id <= posts'[j].id
                        /\ posts'[i].id = posts'[j].id =>
                              j = i + 1 /\ posts'[i].outcome \notin {"ok", "4xx"}
                        /\ posts'[j].at >= Due(posts'[i])
      BY <1>5 DEF PostsJustified, Due
    <2>1. i \in 1 .. L /\ posts'[i] = posts[i]
      BY <1>4, <1>5
    <2>2. CASE j = L + 1
      BY <1>3, <1>5, <1>6, <1>7, <2>1, <2>2
    <2>3. CASE j \in 1 .. L
      <3>1. posts'[j] = posts[j] /\ i \in DOMAIN posts /\ j \in DOMAIN posts
        BY <1>1, <1>5, <2>1, <2>3, ElementTypes
      <3> QED
        BY <2>1, <3>1 DEF IInv, PostsJustified, Due
    <2> QED
      BY <1>4, <2>2, <2>3
  <1> QED
    BY <1>10, <1>11, <1>12

-----------------------------------------------------------------------------
(***************************************************************************)
(* The invariant and what follows.                                         *)
(***************************************************************************)

\* Every step keeps the inductive invariant.
LEMMA NextIInv == IInv /\ [Next]_vars => IInv'
  <1> SUFFICES ASSUME IInv, [Next]_vars PROVE IInv'
    OBVIOUS
  <1>1. TypeOK'
    BY NextType DEF IInv
  <1>2. WindowIsSuffix' /\ AdmittedInOrder' /\ RateHonoured'
    BY <1>1, NextRate
  <1>3. AlertsInOrder' /\ PausesKept' /\ PostsJustified'
    <2>1. CASE RecvLagged \/ UNCHANGED vars
      BY <2>1 DEF RecvLagged, vars, IInv, AlertsInOrder, PausesKept, PostsJustified
    <2>2. CASE PostFinal
      <3>1. PICK outcome \in Outcomes : Posted(outcome, 0) /\ job' = None
        BY <2>2 DEF PostFinal, Outcomes
      <3> QED
        BY <3>1, PostedPosts
    <2>3. CASE PostAgain
      <3>1. PICK outcome \in Outcomes \ {"ok", "4xx"}, pause \in Nat :
               /\ Posted(outcome, pause)
               /\ job' = [job EXCEPT !.attempt = @ + 1, !.sleep = pause]
        BY <2>3, WebhookAssumption DEF PostAgain, Outcomes
      <3> QED
        BY <3>1, PostedPosts
    <2>4. CASE GiveUp
      <3>1. job # None /\ job.sleep = 0 /\ job' = None /\ UNCHANGED <<now, total, unread, posts>>
        BY <2>4 DEF GiveUp, Awake
      <3> QED
        BY <3>1 DEF IInv, AlertsInOrder, PausesKept, PostsJustified
    <2> QED
      BY <1>1, <2>1, <2>2, <2>3, <2>4, PublishPosts, TickPosts, RecvPosts DEF Next
  <1> QED
    BY <1>1, <1>2, <1>3 DEF IInv

\* The rate limit of a webhook (run_one, window.retain) holds in every closed
\* interval of its window, for every rate, window length and sequence of alerts.
THEOREM RateLimitHolds == Spec => []RateHonoured
  <1>1. IInv => RateHonoured
    BY DEF IInv
  <1> QED
    BY <1>1, InitIInv, NextIInv, PTL DEF Spec

\* The POSTs of deliver keep the order of the broadcasts, repeat an alert at most
\* once and only after a failure, and honour every retry-after, for every endpoint.
THEOREM PostsAreJustified == Spec => []PostsJustified
  <1>1. IInv => PostsJustified
    BY DEF IInv
  <1> QED
    BY <1>1, InitIInv, NextIInv, PTL DEF Spec
=============================================================================
