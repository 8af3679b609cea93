---------------------------- MODULE BrowserProofs ----------------------------
(***************************************************************************)
(* Theorems about what a browser shows: its view of the live events        *)
(* (GuiFeed) for every number of hosts, browsers and queued frames, its    *)
(* list of the alert history (HistoryStore) for every capacity, limit and  *)
(* bound, and its desktop notifications (DesktopNotify), the properties    *)
(* that MCBrowser checks on a small instance.                              *)
(***************************************************************************)
EXTENDS MCBrowser, CollectorProofs, SequenceTheorems, FiniteSetTheorems, TLAPS

-----------------------------------------------------------------------------
(* Desktop notifications.                                                  *)

\* app.js handle: what sets notified also shows the alert or notes that it
\* vanished, and a popup needs notified to be clear and sets it.
LEMMA NotifyStep ==
    ASSUME Notify!IInv, [Notify!Next]_Notify!vars
    PROVE  Notify!IInv'
  <1> USE DEF Notify!IInv
  <1>1. CASE UNCHANGED Notify!tab
    BY <1>1 DEF Notify!tab
  <1>2. ASSUME NEW e, Notify!OnSnapshot(e)
        PROVE  Notify!IInv'
    <2>1. /\ notified' = (notified \/ shown') /\ lapsed' = (notified /\ ~shown')
          /\ popups' = IF shown' THEN popups ELSE 0
      BY <1>2 DEF Notify!OnSnapshot
    <2>2. notified' => shown' \/ lapsed'
      BY <2>1
    <2>3. popups' = 0 \/ (popups' = 1 /\ notified')
      BY <2>1
    <2> QED
      BY <2>2, <2>3
  <1>3. CASE Notify!LoadDone
    BY <1>3 DEF Notify!LoadDone
  <1>4. CASE Notify!OnFiring
    <2>1. /\ shown' = TRUE /\ lapsed' = lapsed
          /\ notified' = (notified \/ Notify!Pops)
          /\ popups' = IF Notify!Pops /\ popups < 2 THEN popups + 1 ELSE popups
      BY <1>4 DEF Notify!OnFiring
    <2>2. CASE Notify!Pops
      <3>1. popups = 0
        BY <2>2 DEF Notify!Pops
      <3>2. popups' = 1
        BY <2>1, <2>2, <3>1
      <3> QED
        BY <2>1, <2>2, <3>2
    <2>3. CASE ~Notify!Pops
      BY <2>1, <2>3
    <2> QED
      BY <2>2, <2>3
  <1>5. CASE Notify!OnResolved
    BY <1>5 DEF Notify!OnResolved
  <1>6. CASE UNCHANGED Notify!vars
    BY <1>6 DEF Notify!vars
  <1>7. ASSUME Notify!Fire \/ Notify!Resolve \/ Notify!Connect \/ Notify!Subscribe
                 \/ Notify!Disconnect \/ Notify!Settings
        PROVE  UNCHANGED Notify!tab
    BY <1>7 DEF Notify!Fire, Notify!Resolve, Notify!Connect, Notify!Subscribe,
                Notify!Disconnect, Notify!Settings
  <1> QED
    BY <1>1, <1>2, <1>3, <1>4, <1>5, <1>6, <1>7 DEF Notify!Next

\* So what popped up is remembered, and what is not remembered pops up.
LEMMA NotifyFacts ==
    /\ Notify!Init => Notify!IInv
    /\ Notify!IInv => Notify!AlarmPopsOnce
  BY DEF Notify!Init, Notify!IInv, Notify!AlarmPopsOnce, Notify!Pops

-----------------------------------------------------------------------------
(* Sequences.                                                              *)

\* The socket and the writer's queue: what is taken leaves the front.
LEMMA TailFacts ==
    ASSUME NEW S, NEW s \in Seq(S), s # <<>>
    PROVE  /\ Tail(s) \in Seq(S) /\ Head(s) = s[1] /\ 1 \in DOMAIN s
           /\ \A k \in DOMAIN Tail(s) : k \in Nat /\ k + 1 \in DOMAIN s /\ Tail(s)[k] = s[k + 1]
           /\ \A k \in DOMAIN s : k > 1 => k - 1 \in DOMAIN Tail(s) /\ Tail(s)[k - 1] = s[k]
  <1>1. Len(s) \in Nat /\ Len(s) > 0 /\ DOMAIN s = 1 .. Len(s)
    BY EmptySeq
  <1>2. Tail(s) \in Seq(S) /\ Len(Tail(s)) = Len(s) - 1 /\ Head(s) = s[1]
    BY HeadTailProperties
  <1>3. DOMAIN Tail(s) = 1 .. Len(s) - 1
    BY <1>2
  <1>4. \A k \in 1 .. Len(s) - 1 : Tail(s)[k] = s[k + 1]
    BY HeadTailProperties
  <1> QED
    BY <1>1, <1>2, <1>3, <1>4

\* What is sent joins at the end.
LEMMA AppendFacts ==
    ASSUME NEW S, NEW s \in Seq(S), NEW e \in S
    PROVE  /\ Append(s, e) \in Seq(S)
           /\ Len(s) + 1 \in DOMAIN Append(s, e) /\ Append(s, e)[Len(s) + 1] = e
           /\ \A k \in DOMAIN s : k \in DOMAIN Append(s, e) /\ Append(s, e)[k] = s[k]
           /\ \A k \in DOMAIN Append(s, e) : k \in DOMAIN s \/ k = Len(s) + 1
  BY AppendProperties

\* A fetch that ends leaves the others as they were.
LEMMA RemoveFacts ==
    ASSUME NEW S, NEW s \in Seq(S), NEW i \in DOMAIN s
    PROVE  /\ History!RemoveAt(s, i) \in Seq(S)
           /\ \A k \in DOMAIN History!RemoveAt(s, i) : \E j \in DOMAIN s : History!RemoveAt(s, i)[k] = s[j]
  <1> DEFINE a == SubSeq(s, 1, i - 1)
             b == SubSeq(s, i + 1, Len(s))
  <1>1. i \in 1 .. Len(s) /\ Len(s) \in Nat
    OBVIOUS
  <1>2. a \in Seq(S) /\ Len(a) = i - 1 /\ \A k \in 1 .. i - 1 : a[k] = s[k]
    BY <1>1, SubSeqProperties
  <1>3. b \in Seq(S) /\ Len(b) = Len(s) - i /\ \A k \in 1 .. Len(s) - i : b[k] = s[i + k]
    <2>1. i + 1 \in Int /\ Len(s) \in Int /\ \A k \in i + 1 .. Len(s) : s[k] \in S
      BY <1>1
    <2>2. /\ b \in Seq(S)
          /\ Len(b) = IF i + 1 <= Len(s) THEN Len(s) - (i + 1) + 1 ELSE 0
          /\ \A k \in 1 .. Len(s) - (i + 1) + 1 : b[k] = s[(i + 1) + k - 1]
      BY <2>1, SubSeqProperties
    <2> HIDE DEF b
    <2>3. Len(s) - (i + 1) + 1 = Len(s) - i
      BY <1>1
    <2>4. Len(b) = Len(s) - i
      BY <1>1, <2>2
    <2>5. ASSUME NEW k \in 1 .. Len(s) - i
          PROVE  b[k] = s[i + k]
      <3>1. b[k] = s[(i + 1) + k - 1]
        BY <2>2, <2>3
      <3>2. (i + 1) + k - 1 = i + k
        BY <1>1
      <3> QED
        BY <3>1, <3>2
    <2> QED
      BY <2>2, <2>4, <2>5
  <1> HIDE DEF a, b
  <1>4. a \o b \in Seq(S) /\ Len(a \o b) = Len(s) - 1
    BY <1>1, <1>2, <1>3, ConcatProperties
  <1>5. ASSUME NEW k \in 1 .. Len(s) - 1
        PROVE  (a \o b)[k] = s[IF k < i THEN k ELSE k + 1]
    <2> DEFINE c == a \o b
    <2>0. \A j \in 1 .. Len(a) + Len(b) : c[j] = IF j <= Len(a) THEN a[j] ELSE b[j - Len(a)]
      BY <1>2, <1>3, ConcatProperties
    <2> HIDE DEF c
    <2>l. Len(a) = i - 1 /\ Len(b) = Len(s) - i
      BY <1>2, <1>3
    <2>1. CASE k < i
      <3>1. k \in 1 .. Len(a) /\ k <= Len(a) /\ k \in 1 .. Len(a) + Len(b)
        BY <1>1, <2>l, <2>1
      <3>2. c[k] = s[k]
        BY <1>1, <1>2, <2>0, <2>1, <3>1
      <3> QED
        BY <2>1, <3>2 DEF c
    <2>2. CASE ~(k < i)
      <3>1. k \in 1 .. Len(a) + Len(b) /\ ~(k <= Len(a)) /\ k - Len(a) \in 1 .. Len(s) - i
        BY <1>1, <2>l, <2>2
      <3>2. c[k] = b[k - Len(a)]
        BY <2>0, <3>1
      <3>3. i + (k - Len(a)) = k + 1
        BY <1>1, <2>l
      <3>4. b[k - Len(a)] = s[k + 1]
        BY <1>3, <3>1, <3>3
      <3> QED
        BY <2>2, <3>2, <3>4 DEF c
    <2> QED
      BY <2>1, <2>2
  <1>6. \A k \in 1 .. Len(s) - 1 : (IF k < i THEN k ELSE k + 1) \in DOMAIN s
    BY <1>1
  <1>7. DOMAIN (a \o b) = 1 .. Len(s) - 1
    BY <1>4
  <1>8. History!RemoveAt(s, i) = a \o b
    BY DEF History!RemoveAt, a, b
  <1> QED
    BY <1>4, <1>5, <1>6, <1>7, <1>8

\* pushHistory keeps the new alert and alerts that were listed.
LEMMA PushFacts ==
    ASSUME NEW S, NEW s \in Seq(S), NEW e \in S, NEW n \in Nat, n <= Len(s) + 1
    PROVE  /\ SubSeq(<<e>> \o s, 1, n) \in Seq(S)
           /\ Len(SubSeq(<<e>> \o s, 1, n)) = n
           /\ History!ToSet(SubSeq(<<e>> \o s, 1, n)) \subseteq {e} \cup History!ToSet(s)
           /\ n = Len(s) + 1 => {e} \cup History!ToSet(s) \subseteq History!ToSet(SubSeq(<<e>> \o s, 1, n))
  <1> DEFINE t == <<e>> \o s
  <1>1. <<e>> \in Seq(S) /\ Len(<<e>>) = 1 /\ <<e>>[1] = e
    OBVIOUS
  <1>2. t \in Seq(S) /\ Len(t) = Len(s) + 1
    BY <1>1, ConcatProperties
  <1>3. \A k \in 1 .. Len(t) : t[k] = IF k <= 1 THEN <<e>>[k] ELSE s[k - 1]
    BY <1>1, <1>2, ConcatProperties
  <1>4. \A k \in 1 .. Len(t) : t[k] \in {e} \cup History!ToSet(s)
    BY <1>1, <1>2, <1>3 DEF History!ToSet
  <1>7. t[1] = e /\ \A k \in 1 .. Len(s) : t[k + 1] = s[k]
    BY <1>1, <1>2, <1>3
  <1> HIDE DEF t
  <1>5. SubSeq(t, 1, n) \in Seq(S) /\ Len(SubSeq(t, 1, n)) = n /\ \A k \in 1 .. n : SubSeq(t, 1, n)[k] = t[k]
    BY <1>2, SubSeqProperties
  <1>6. History!ToSet(SubSeq(t, 1, n)) \subseteq {e} \cup History!ToSet(s)
    BY <1>2, <1>4, <1>5 DEF History!ToSet
  <1>8. ASSUME n = Len(s) + 1
        PROVE  {e} \cup History!ToSet(s) \subseteq History!ToSet(SubSeq(t, 1, n))
    <2>0. Len(s) \in Nat /\ DOMAIN s = 1 .. Len(s) /\ DOMAIN SubSeq(t, 1, n) = 1 .. n
      BY <1>5
    <2>1. 1 \in DOMAIN SubSeq(t, 1, n) /\ SubSeq(t, 1, n)[1] = e
      BY <1>5, <1>7, <1>8, <2>0
    <2>2. ASSUME NEW k \in DOMAIN s
          PROVE  k + 1 \in DOMAIN SubSeq(t, 1, n) /\ SubSeq(t, 1, n)[k + 1] = s[k]
      BY <1>5, <1>7, <1>8, <2>0
    <2> QED
      BY <2>1, <2>2 DEF History!ToSet
  <1> QED
    BY <1>5, <1>6, <1>8 DEF t

-----------------------------------------------------------------------------
(* The alert history.                                                      *)

\* HistoryStore's own copy of the definitions of module FiniteSets.
LEMMA FiniteSame ==
    ASSUME NEW S
    PROVE  /\ History!IsFiniteSet(S) <=> IsFiniteSet(S)
           /\ History!Cardinality(S) = Cardinality(S)
  BY DEF History!IsFiniteSet, IsFiniteSet, History!Cardinality, Cardinality

\* A snapshot among the events to come stays one while only earlier events are
\* handled or others are sent after it; IInv is carried over by what a step
\* leaves alone.
LEMMA BrowserSame ==
    ASSUME UNCHANGED <<stage, feed, fetches, history, source, missed, wiped, History!Erased, History!Forgotten>>
    PROVE  /\ History!FeedQuiet => History!FeedQuiet'
           /\ History!FeedClean => History!FeedClean'
           /\ History!ListClean => History!ListClean'
  <1>1. \A k : History!Reset(k)' <=> History!Reset(k)
    BY DEF History!Reset
  <1> QED
    BY <1>1 DEF History!FeedQuiet, History!FeedClean, History!ListClean, History!Listed

\* spawn_writer, spawn_retention, add_alert: the collector's own steps bring
\* nothing wiped to the table, the queue or the broadcast.
LEMMA StoreStep ==
    ASSUME History!IInv,
           \/ \E kind \in History!Kinds, ts \in 0 .. MaxTs : History!Accept(kind, ts)
           \/ History!Receive \/ History!Insert \/ History!Prune
    PROVE  History!IInv'
  <1> USE DEF History!IInv, History!Shape, History!StoreClean
  <1>1. UNCHANGED <<stage, feed, fetches, history, source, missed, wiped, History!Erased, History!Forgotten, clearing>>
    BY DEF History!Accept, History!Receive, History!Insert, History!Prune, History!browser, History!wipe,
           History!Erased, History!Forgotten
  <1>2. History!FeedQuiet' /\ (~clearing' => History!FeedClean' /\ History!ListClean')
    BY <1>1, BrowserSame
  <1>3. ASSUME NEW kind \in History!Kinds, NEW ts \in 0 .. MaxTs, History!Accept(kind, ts)
        PROVE  History!Shape' /\ History!StoreClean'
    <2> DEFINE n == Len(alerts) + 1
    <2>1. /\ alerts' = Append(alerts, [ts |-> ts, kind |-> kind])
          /\ queue' = IF kind # "told" /\ Len(queue) < QueueCap THEN Append(queue, n) ELSE queue
          /\ telling' = IF kind = "unchanged" THEN None ELSE n
          /\ rows' = rows /\ writing' = writing
      BY <1>3 DEF History!Accept
    <2>2. alerts \in Seq([ts : 0 .. MaxTs, kind : History!Kinds]) /\ [ts |-> ts, kind |-> kind] \in [ts : 0 .. MaxTs, kind : History!Kinds]
      OBVIOUS
    <2>3. alerts' \in Seq([ts : 0 .. MaxTs, kind : History!Kinds]) /\ \A k \in DOMAIN alerts : k \in DOMAIN alerts'
      BY <2>1, <2>2, AppendFacts
    <2>4. n \in Nat /\ n \notin wiped /\ n \notin History!Erased /\ n \notin History!Forgotten
      BY DEF History!Erased, History!Forgotten
    <2>5. queue \in Seq(Nat) /\ \A k \in DOMAIN queue : queue[k] \notin History!Erased
      OBVIOUS
    <2>6. queue' \in Seq(Nat) /\ \A k \in DOMAIN queue' : queue'[k] \notin History!Erased
      <3> HIDE DEF n, History!IInv, History!Shape, History!StoreClean
      <3>1. CASE queue' = Append(queue, n)
        BY <2>4, <2>5, <3>1, AppendFacts
      <3>2. CASE queue' = queue
        BY <2>5, <3>2
      <3> QED
        BY <2>1, <3>1, <3>2
    <2>7. telling' # None => telling' \notin History!Forgotten
      BY <2>1, <2>4
    <2>8. History!Shape'
      BY <1>1, <2>1, <2>3, <2>6
    <2>9. History!StoreClean'
      BY <1>1, <2>1, <2>3, <2>6, <2>7
    <2> QED
      BY <2>8, <2>9
  <1>4. CASE History!Insert
    <2>1. /\ writing # None /\ writing' = None
          /\ rows' = rows \/ rows' = rows \cup {writing}
          /\ UNCHANGED <<alerts, queue, telling>>
      BY <1>4 DEF History!Insert
    <2>3. writing \in Nat /\ writing \notin History!Erased
      BY <2>1
    <2>4. History!IsFiniteSet(rows')
      BY <2>1, FiniteSame, FS_AddElement
    <2>5. History!Shape'
      BY <1>1, <2>1, <2>3, <2>4
    <2>6. History!StoreClean'
      BY <1>1, <2>1, <2>3
    <2> QED
      BY <1>2, <2>5, <2>6
  <1>5. CASE History!Receive
    <2>1. /\ queue # <<>> /\ queue' = Tail(queue) /\ writing' = Head(queue)
          /\ UNCHANGED <<alerts, rows, telling>>
      BY <1>5 DEF History!Receive
    <2>2. queue \in Seq(Nat) /\ \A k \in DOMAIN queue : queue[k] \in Nat /\ queue[k] \notin History!Erased
      OBVIOUS
    <2>3. /\ queue' \in Seq(Nat) /\ writing' \in Nat /\ writing' \notin History!Erased
          /\ \A k \in DOMAIN queue' : queue'[k] \notin History!Erased
      BY <2>1, <2>2, TailFacts
    <2>4. History!Shape'
      BY <1>1, <2>1, <2>3
    <2>5. History!StoreClean'
      BY <1>1, <2>1, <2>3
    <2> QED
      BY <1>2, <2>4, <2>5
  <1>6. CASE History!Prune
    <2>1. rows' \subseteq rows /\ UNCHANGED <<alerts, queue, writing, telling>>
      BY <1>6 DEF History!Prune
    <2>2. History!IsFiniteSet(rows')
      BY <2>1, FiniteSame, FS_Subset
    <2>3. History!Shape'
      BY <1>1, <2>1, <2>2
    <2>4. History!StoreClean'
      BY <1>1, <2>1
    <2> QED
      BY <1>2, <2>3, <2>4
  <1> QED
    BY <1>2, <1>3, <1>4, <1>5, <1>6


\* AppState::broadcast of an alert: one accepted after the wipe, or before it and
\* still to be told, which the wipe does not concern.
LEMMA TellStep ==
    ASSUME History!IInv, History!Tell
    PROVE  History!IInv'
  <1> USE DEF History!IInv
  <1>1. /\ telling # None /\ telling' = None
        /\ feed' = IF stage = "live" THEN Append(feed, telling) ELSE feed
        /\ UNCHANGED <<alerts, queue, writing, rows, clearing, stage, fetches, history, source, missed, wiped, History!Erased, History!Forgotten>>
    BY DEF History!Tell, History!Broadcast, History!wipe, History!Erased, History!Forgotten
  <1>2. CASE stage # "live"
    <2>1. feed' = feed
      BY <1>1, <1>2
    <2> QED
      BY <1>1, <2>1, BrowserSame DEF History!Shape, History!StoreClean
  <1>3. CASE stage = "live"
    <2>1. feed \in Seq(Nat) /\ telling \in Nat /\ telling \notin History!Forgotten
      BY <1>1 DEF History!Shape, History!StoreClean
    <2>2. /\ feed' = Append(feed, telling) /\ feed' \in Seq(Nat)
          /\ \A k \in DOMAIN feed : k \in DOMAIN feed' /\ feed'[k] = feed[k]
          /\ \A k \in DOMAIN feed' : k \in DOMAIN feed \/ feed'[k] = telling
      BY <1>1, <1>3, <2>1, AppendFacts
    <2>3. \A k : History!Reset(k) => History!Reset(k)'
      BY <2>2 DEF History!Reset
    <2>4. History!Shape' /\ History!StoreClean' /\ History!FeedQuiet'
      BY <1>1, <1>3, <2>2 DEF History!Shape, History!StoreClean, History!FeedQuiet
    <2>5. History!FeedClean => History!FeedClean'
      BY <1>1, <2>1, <2>2, <2>3 DEF History!FeedClean
    <2>6. History!ListClean => History!ListClean'
      BY <1>1, <2>3 DEF History!ListClean, History!Listed
    <2> QED
      BY <1>1, <2>4, <2>5, <2>6
  <1> QED
    BY <1>2, <1>3

\* api_clear_history empties the table; what is queued, in the writer's hand or
\* still to be told is noted.
LEMMA ClearStep ==
    ASSUME History!IInv, History!Clear
    PROVE  History!IInv'
  <1>1. /\ clearing' = TRUE /\ rows' = {} /\ wiped' = DOMAIN alerts
        /\ late' = {n \in DOMAIN alerts : n = writing \/ History!Contains(queue, n)}
        /\ untold' = {n \in DOMAIN alerts : n = telling}
        /\ UNCHANGED <<alerts, queue, writing, telling, stage, feed, fetches, history>>
    BY DEF History!Clear, History!Observe, History!browser
  <1>2. History!IsFiniteSet({})
    BY FiniteSame, FS_EmptySet
  <1>3. History!Shape' /\ History!FeedQuiet'
    BY <1>1, <1>2 DEF History!IInv, History!Shape, History!FeedQuiet
  <1>4. History!StoreClean'
    <2>1. \A k \in DOMAIN queue : History!Contains(queue, queue[k])
      BY DEF History!Contains, History!IInv, History!Shape
    <2> QED
      BY <1>1, <2>1 DEF History!StoreClean, History!Erased, History!Forgotten
  <1> QED
    BY <1>1, <1>3, <1>4 DEF History!IInv

\* The snapshot that tells of the wipe is behind every event on a subscribed
\* socket; on one that is not, it is missed; and a closed one has no list that
\* would be kept.
LEMMA ClearTellStep ==
    ASSUME History!IInv, History!ClearTell
    PROVE  History!IInv'
  <1> USE DEF History!IInv
  <1>1. /\ feed' = IF stage = "live" THEN Append(feed, History!Snapshot) ELSE feed
        /\ missed' = (missed \/ stage = "unsubscribed")
        /\ UNCHANGED <<alerts, queue, writing, rows, telling, stage, fetches, history, source, wiped, History!Erased, History!Forgotten>>
    BY DEF History!ClearTell, History!Broadcast, History!wipe, History!Erased, History!Forgotten
  <1>2. History!StoreClean'
    BY <1>1 DEF History!StoreClean
  <1>3. CASE stage # "live"
    <2>1. feed' = feed /\ (stage = "closed" \/ missed')
      BY <1>1, <1>3 DEF History!Shape
    <2>2. History!Shape' /\ History!FeedQuiet'
      BY <1>1, <2>1 DEF History!Shape, History!FeedQuiet
    <2>3. 0 \notin History!Forgotten
      BY DEF History!Shape, History!StoreClean, History!Forgotten
    <2>4. History!FeedClean' /\ History!ListClean'
      BY <1>1, <1>3, <2>1, <2>3 DEF History!FeedQuiet, History!FeedClean, History!ListClean, History!Snapshot
    <2> QED
      BY <1>2, <2>2, <2>4
  <1>4. CASE stage = "live"
    <2>1. feed \in Seq(Nat) /\ History!Snapshot \in Nat /\ Len(feed) + 1 \in Nat
      BY DEF History!Shape, History!Snapshot
    <2>2. /\ feed' \in Seq(Nat) /\ Len(feed) + 1 \in DOMAIN feed' /\ feed'[Len(feed) + 1] = History!Snapshot
          /\ \A k \in DOMAIN feed' : k \in DOMAIN feed \/ k = Len(feed) + 1
      BY <1>1, <1>4, <2>1, AppendFacts
    <2>3. \A k \in 0 .. Len(feed) : History!Reset(k)'
      BY <2>1, <2>2 DEF History!Reset
    <2>4. 0 \notin History!Forgotten
      BY DEF History!Shape, History!StoreClean, History!Forgotten
    <2>5. History!FeedClean' /\ History!ListClean'
      BY <1>1, <2>1, <2>2, <2>3, <2>4 DEF History!FeedClean, History!ListClean, History!Snapshot
    <2>6. History!Shape' /\ History!FeedQuiet'
      BY <1>1, <1>4, <2>2 DEF History!Shape, History!FeedQuiet
    <2> QED
      BY <1>2, <2>5, <2>6
  <1> QED
    BY <1>3, <1>4

\* The socket: a new one begins with a snapshot, and one that ended has no list
\* that would be kept.
LEMMA SocketStep ==
    ASSUME History!IInv, History!Open \/ History!Subscribe \/ History!Close
    PROVE  History!IInv'
  <1> USE DEF History!IInv
  <1>1. UNCHANGED <<History!store, fetches, history, source, missed, wiped, History!Erased, History!Forgotten>>
    BY DEF History!Open, History!Subscribe, History!Close, History!wipe, History!Erased, History!Forgotten
  <1>2. History!StoreClean' /\ clearing' = clearing
    BY <1>1 DEF History!StoreClean, History!store
  <1>3. CASE History!Open
    <2>1. stage' = "unsubscribed" /\ feed' = <<0>>
      BY <1>3 DEF History!Open, History!Snapshot
    <2>2. <<0>> \in Seq(Nat) /\ DOMAIN <<0>> = {1} /\ <<0>>[1] = 0
      OBVIOUS
    <2>3. History!Shape' /\ History!FeedQuiet'
      BY <1>1, <2>1, <2>2 DEF History!Shape, History!FeedQuiet, History!Snapshot, History!store
    <2>4. 0 \notin History!Forgotten'
      BY <1>1 DEF History!Shape, History!StoreClean, History!Forgotten
    <2>5. History!FeedClean'
      BY <2>1, <2>2, <2>4 DEF History!FeedClean
    <2>6. History!Reset(0)'
      BY <2>1, <2>2 DEF History!Reset, History!Snapshot
    <2>7. History!ListClean'
      BY <2>6 DEF History!ListClean
    <2> QED
      BY <1>2, <2>3, <2>5, <2>7
  <1>4. CASE History!Subscribe
    <2>1. stage = "unsubscribed" /\ stage' = "live" /\ feed' = feed
      BY <1>4 DEF History!Subscribe
    <2>2. History!Shape' /\ History!FeedQuiet'
      BY <1>1, <2>1 DEF History!Shape, History!FeedQuiet, History!store
    <2>3. \A k : History!Reset(k)' <=> History!Reset(k)
      BY <2>1 DEF History!Reset
    <2>4. (History!FeedClean => History!FeedClean') /\ (History!ListClean => History!ListClean')
      BY <1>1, <2>1, <2>3 DEF History!FeedClean, History!ListClean, History!Listed
    <2> QED
      BY <1>2, <2>2, <2>4
  <1>5. CASE History!Close
    <2>1. stage' = "closed" /\ feed' = <<>>
      BY <1>5 DEF History!Close
    <2>2. <<>> \in Seq(Nat) /\ DOMAIN <<>> = {}
      OBVIOUS
    <2>3. History!Shape' /\ History!FeedQuiet' /\ History!FeedClean' /\ History!ListClean'
      BY <1>1, <2>1, <2>2 DEF History!Shape, History!FeedQuiet, History!FeedClean, History!ListClean, History!store
    <2> QED
      BY <1>2, <2>3
  <1> QED
    BY <1>3, <1>4, <1>5


\* fetchHistory: the new question is the one whose answer counts, and is open.
LEMMA AskFacts ==
    ASSUME History!Shape, History!OnSnapshot
    PROVE  /\ fetches' \in Seq([newest : BOOLEAN, answer : Seq(Nat) \cup {None}])
           /\ \A i \in DOMAIN fetches' : fetches'[i].newest => fetches'[i].answer = None
  <1> DEFINE F == [newest : BOOLEAN, answer : Seq(Nat) \cup {None}]
             old == [i \in DOMAIN fetches |-> [fetches[i] EXCEPT !.newest = FALSE]]
             ask == [newest |-> TRUE, answer |-> None]
  <1>0. fetches' = Append(old, ask)
    BY DEF History!OnSnapshot
  <1>1. fetches \in Seq(F)
    BY DEF History!Shape
  <1>2. old \in Seq(F) /\ \A i \in DOMAIN old : old[i].newest = FALSE
    <2>0. ASSUME NEW f \in F
          PROVE  [f EXCEPT !.newest = FALSE] \in F
      OBVIOUS
    <2>1. \A i \in DOMAIN fetches : [fetches[i] EXCEPT !.newest = FALSE] \in F
      <3>1. \A i \in DOMAIN fetches : fetches[i] \in F
        <4> HIDE DEF F
        <4> QED
          BY <1>1, ElementOfSeq
      <3> QED
        BY <2>0, <3>1
    <2>2. \A i \in DOMAIN fetches : [fetches[i] EXCEPT !.newest = FALSE].newest = FALSE
      BY <1>1
    <2>3. DOMAIN fetches = 1 .. Len(fetches) /\ Len(fetches) \in Nat
      BY <1>1
    <2> QED
      BY <2>1, <2>2, <2>3, IsASeq
  <1>3. ask \in F /\ ask.answer = None
    OBVIOUS
  <1> HIDE DEF F, old, ask
  <1>4. /\ Append(old, ask) \in Seq(F)
        /\ \A k \in DOMAIN old : Append(old, ask)[k] = old[k]
        /\ Append(old, ask)[Len(old) + 1] = ask
        /\ \A k \in DOMAIN Append(old, ask) : k \in DOMAIN old \/ k = Len(old) + 1
    BY <1>2, <1>3, AppendFacts
  <1>5. fetches' \in Seq(F) /\ \A i \in DOMAIN fetches' : fetches'[i].newest => fetches'[i].answer = None
    BY <1>0, <1>2, <1>3, <1>4
  <1> QED
    BY <1>5 DEF F

\* handle, "snapshot": the list is empty, and the one answer that may become the
\* list without a newer question is not there yet.
LEMMA SnapshotStep ==
    ASSUME History!IInv, History!OnSnapshot
    PROVE  History!IInv'
  <1> USE DEF History!IInv
  <1>1. /\ feed # <<>> /\ Head(feed) = History!Snapshot /\ feed' = Tail(feed)
        /\ history' = <<>>
        /\ UNCHANGED <<alerts, queue, writing, rows, telling, clearing, stage, wiped, History!Erased, History!Forgotten>>
    BY DEF History!OnSnapshot, History!store, History!wipe, History!Erased, History!Forgotten
  <1>2. /\ feed' \in Seq(Nat) /\ 1 \in DOMAIN feed /\ feed[1] = History!Snapshot
        /\ \A k \in DOMAIN feed' : k \in Nat /\ k + 1 \in DOMAIN feed /\ feed'[k] = feed[k + 1]
        /\ \A k \in DOMAIN feed : k > 1 => k - 1 \in DOMAIN feed' /\ feed'[k - 1] = feed[k]
    BY <1>1, TailFacts DEF History!Shape
  <1>3. /\ fetches' \in Seq([newest : BOOLEAN, answer : Seq(Nat) \cup {None}])
        /\ \A i \in DOMAIN fetches' : fetches'[i].newest => fetches'[i].answer = None
    BY AskFacts
  <1>4. <<>> \in Seq(Nat) /\ DOMAIN <<>> = {}
    OBVIOUS
  <1>5. History!Shape'
    BY <1>1, <1>2, <1>3, <1>4 DEF History!Shape
  <1>6. History!StoreClean'
    BY <1>1 DEF History!StoreClean
  <1>7. History!FeedQuiet'
    BY <1>1, <1>2 DEF History!FeedQuiet
  <1>8. History!FeedClean => History!FeedClean'
    <2>1. ASSUME NEW k \in DOMAIN feed', History!Reset(k + 1)
          PROVE  History!Reset(k)'
      <3>1. PICK j \in DOMAIN feed : j > k + 1 /\ feed[j] = History!Snapshot
        BY <2>1 DEF History!Reset
      <3>2. k \in Nat /\ j \in Nat
        BY <1>2, SMTT(30) DEF History!Shape
      <3>3. j - 1 \in DOMAIN feed' /\ feed'[j - 1] = History!Snapshot /\ j - 1 > k
        BY <1>2, <3>1, <3>2
      <3> QED
        BY <3>3 DEF History!Reset
    <2> QED
      BY <1>1, <1>2, <2>1 DEF History!FeedClean
  <1>9. History!ListClean'
    BY <1>1, <1>3, <1>4 DEF History!ListClean, History!Listed, History!ToSet
  <1> QED
    BY <1>1, <1>5, <1>6, <1>7, <1>8, <1>9

\* handle, "alert": the event of a wiped alert has a snapshot behind it, so it
\* does not stay in the list.
LEMMA AlertStep ==
    ASSUME History!IInv, History!OnAlert, HistoryCap \in Nat
    PROVE  History!IInv'
  <1> USE DEF History!IInv
  <1> DEFINE h == Head(feed)
             n == IF Len(history) < HistoryCap THEN Len(history) + 1 ELSE HistoryCap
  <1>1. /\ feed # <<>> /\ h \in DOMAIN alerts /\ feed' = Tail(feed)
        /\ history' = SubSeq(<<h>> \o history, 1, n)
        /\ UNCHANGED <<alerts, queue, writing, rows, telling, clearing, stage, fetches, source, missed, wiped, History!Erased, History!Forgotten>>
    BY DEF History!OnAlert, History!store, History!wipe, History!Erased, History!Forgotten
  <1>2. /\ feed' \in Seq(Nat) /\ 1 \in DOMAIN feed /\ feed[1] = h
        /\ \A k \in DOMAIN feed' : k \in Nat /\ k + 1 \in DOMAIN feed /\ feed'[k] = feed[k + 1]
        /\ \A k \in DOMAIN feed : k > 1 => k - 1 \in DOMAIN feed' /\ feed'[k - 1] = feed[k]
    BY <1>1, TailFacts DEF History!Shape
  <1>3. history \in Seq(Nat) /\ h \in Nat /\ h # History!Snapshot /\ n \in Nat /\ n <= Len(history) + 1
    <2>1. DOMAIN alerts = 1 .. Len(alerts) /\ Len(alerts) \in Nat
      BY DEF History!Shape
    <2>2. h \in Nat /\ h # History!Snapshot
      BY <1>1, <2>1 DEF History!Snapshot
    <2>3. history \in Seq(Nat) /\ Len(history) \in Nat
      BY DEF History!Shape
    <2>4. n \in Nat /\ n <= Len(history) + 1
      BY <2>3
    <2> QED
      BY <2>2, <2>3, <2>4
  <1>4. history' \in Seq(Nat) /\ History!ToSet(history') \subseteq {h} \cup History!ToSet(history)
    <2> HIDE DEF h, n, History!IInv
    <2> QED
      BY <1>1, <1>3, PushFacts
  <1>5. History!Shape'
    BY <1>1, <1>2, <1>4 DEF History!Shape
  <1>6. History!StoreClean'
    BY <1>1 DEF History!StoreClean
  <1>7. History!FeedQuiet'
    BY <1>1, <1>2 DEF History!FeedQuiet
  <1>8. ASSUME NEW k \in Nat, History!Reset(k + 1)
        PROVE  History!Reset(k)'
    <2>1. PICK j \in DOMAIN feed : j > k + 1 /\ feed[j] = History!Snapshot
      BY <1>8 DEF History!Reset
    <2>2. j \in Nat
      BY DEF History!Shape
    <2>3. j - 1 \in DOMAIN feed' /\ feed'[j - 1] = History!Snapshot /\ j - 1 > k
      BY <1>2, <2>1, <2>2
    <2> QED
      BY <2>3 DEF History!Reset
  <1>9. History!FeedClean => History!FeedClean'
    BY <1>1, <1>2, <1>8 DEF History!FeedClean
  <1>10. History!FeedClean /\ History!ListClean => History!ListClean'
    <2> SUFFICES ASSUME History!FeedClean, History!ListClean, ~History!Reset(0)'
                 PROVE  History!ListClean'
      BY DEF History!ListClean
    <2>1. ~History!Reset(1)
      BY <1>8
    <2>2. ~History!Reset(0)
      <3>1. ASSUME NEW j \in DOMAIN feed, j > 0, feed[j] = History!Snapshot
            PROVE  FALSE
        <4>1. j \in Nat /\ j # 1
          BY <1>2, <1>3, <3>1 DEF History!Shape
        <4> QED
          BY <2>1, <3>1, <4>1 DEF History!Reset
      <3> QED
        BY <3>1 DEF History!Reset
    <2>3. h \notin History!Forgotten
      BY <1>2, <2>1 DEF History!FeedClean
    <2> HIDE DEF h
    <2> QED
      BY <1>1, <1>4, <2>2, <2>3 DEF History!ListClean, History!Listed
  <1> QED
    BY <1>1, <1>5, <1>6, <1>7, <1>9, <1>10


\* list_recent returns rows of the table.
LEMMA ListFacts ==
    ASSUME History!Shape, Limit \in Nat, NEW s \in History!ListRecent
    PROVE  s \in Seq(Nat) /\ History!ToSet(s) \subseteq rows
  <1> DEFINE k == IF History!Cardinality(rows) < Limit THEN History!Cardinality(rows) ELSE Limit
  <1>1. s \in [1 .. k -> rows]
    BY DEF History!ListRecent
  <1>2. k \in Nat
    BY FiniteSame, FS_CardinalityType DEF History!Shape
  <1> HIDE DEF k
  <1>3. s \in [1 .. k -> Nat]
    BY <1>1 DEF History!Shape
  <1>4. History!ToSet(s) \subseteq rows
    BY <1>1 DEF History!ToSet
  <1>5. s \in Seq(Nat)
    BY <1>2, <1>3
  <1> QED
    BY <1>4, <1>5

\* fetchHistory: an answer is made of rows of the table, which is clean; it is
\* clean for as long as it is the newest, and a wipe told in between makes another
\* one the newest.
LEMMA FetchStep ==
    ASSUME History!IInv, Limit \in Nat, NEW i \in DOMAIN fetches,
           History!Select(i) \/ History!FetchDone(i) \/ History!FetchFails(i)
    PROVE  History!IInv'
  <1> USE DEF History!IInv
  <1> DEFINE F == [newest : BOOLEAN, answer : Seq(Nat) \cup {None}]
             Clean(f) == f.newest /\ f.answer # None => History!ToSet(f.answer) \cap History!Forgotten = {}
  <1>1. UNCHANGED <<alerts, queue, writing, rows, telling, clearing, stage, feed, missed, wiped, History!Erased, History!Forgotten>>
    BY DEF History!Select, History!FetchDone, History!FetchFails, History!store, History!wipe,
           History!Erased, History!Forgotten
  <1>2. fetches \in Seq(F) /\ fetches[i] \in F
    <2>1. fetches \in Seq(F)
      BY DEF History!Shape
    <2> HIDE DEF F
    <2> QED
      BY <2>1, ElementOfSeq
  <1>3. History!StoreClean' /\ History!FeedQuiet' /\ (History!FeedClean => History!FeedClean')
    BY <1>1 DEF History!StoreClean, History!FeedQuiet, History!FeedClean, History!Reset
  <1>4. History!Reset(0)' <=> History!Reset(0)
    BY <1>1 DEF History!Reset
  <1>5. ASSUME fetches' \in Seq(F), history' \in Seq(Nat),
               (\A j \in DOMAIN fetches : Clean(fetches[j])) => \A j \in DOMAIN fetches' : Clean(fetches'[j]),
               (\A j \in DOMAIN fetches : Clean(fetches[j])) /\ (source # "older" => History!Listed \cap History!Forgotten = {})
                  => (source' # "older" => History!Listed' \cap History!Forgotten = {})
        PROVE  History!IInv'
    <2>1. History!Shape'
      BY <1>1, <1>5 DEF History!Shape
    <2>2. History!ListClean => History!ListClean'
      <3> SUFFICES ASSUME History!ListClean, stage # "closed", ~missed, ~History!Reset(0)
                   PROVE  /\ source' # "older" => History!Listed' \cap History!Forgotten' = {}
                          /\ \A j \in DOMAIN fetches' : Clean(fetches'[j])
        BY <1>1, <1>4 DEF History!ListClean
      <3>1. (source # "older" => History!Listed \cap History!Forgotten = {}) /\ \A j \in DOMAIN fetches : Clean(fetches[j])
        BY DEF History!ListClean
      <3> HIDE DEF Clean
      <3> QED
        BY <1>1, <1>5, <3>1
    <2> QED
      BY <1>1, <1>3, <2>1, <2>2
  <1> HIDE DEF History!IInv
  <1>6. CASE History!Select(i)
    <2>1. UNCHANGED <<history, source>> /\ history \in Seq(Nat)
      BY <1>6 DEF History!Select, History!IInv, History!Shape
    <2>2. PICK s \in History!ListRecent : fetches' = [fetches EXCEPT ![i].answer = s]
      BY <1>6 DEF History!Select
    <2>3. s \in Seq(Nat) /\ History!ToSet(s) \subseteq rows /\ rows \cap History!Forgotten = {}
      BY ListFacts DEF History!IInv, History!StoreClean, History!Erased, History!Forgotten
    <2>4. DEFINE f == [fetches[i] EXCEPT !.answer = s]
    <2>5. f \in F /\ f.answer = s
      BY <1>2, <2>3
    <2>6. Clean(f)
      BY <2>3, <2>5
    <2>7. fetches' = [fetches EXCEPT ![i] = f]
      BY <2>2
    <2> HIDE DEF f, F, Clean
    <2>8. fetches' \in Seq(F) /\ DOMAIN fetches' = DOMAIN fetches
      BY <1>2, <2>5, <2>7
    <2>9. \A j \in DOMAIN fetches : fetches'[j] = IF j = i THEN f ELSE fetches[j]
      BY <1>2, <2>7
    <2>10. (\A j \in DOMAIN fetches : Clean(fetches[j])) => \A j \in DOMAIN fetches' : Clean(fetches'[j])
      BY <2>6, <2>8, <2>9
    <2>11. History!Listed' = History!Listed
      BY <2>1 DEF History!Listed
    <2> QED
      BY <1>5, <2>1, <2>8, <2>10, <2>11
  <1>7. ASSUME fetches' = History!RemoveAt(fetches, i)
        PROVE  /\ fetches' \in Seq(F)
               /\ (\A j \in DOMAIN fetches : Clean(fetches[j])) => \A j \in DOMAIN fetches' : Clean(fetches'[j])
    <2> HIDE DEF F, Clean
    <2>1. /\ fetches' \in Seq(F)
          /\ \A k \in DOMAIN fetches' : \E j \in DOMAIN fetches : fetches'[k] = fetches[j]
      BY <1>2, <1>7, RemoveFacts
    <2> QED
      BY <2>1
  <1>8. CASE History!FetchDone(i)
    <2>1. /\ fetches[i].answer # None /\ history' = fetches[i].answer /\ fetches' = History!RemoveAt(fetches, i)
          /\ source' = IF fetches[i].newest THEN "last" ELSE "older"
      BY <1>8 DEF History!FetchDone
    <2>2. history' \in Seq(Nat)
      BY <1>2, <2>1
    <2>3. (\A j \in DOMAIN fetches : Clean(fetches[j])) => (source' # "older" => History!Listed' \cap History!Forgotten = {})
      BY <2>1 DEF History!Listed
    <2> HIDE DEF F, Clean
    <2> QED
      BY <1>5, <1>7, <2>1, <2>2, <2>3
  <1>9. CASE History!FetchFails(i)
    <2>1. fetches' = History!RemoveAt(fetches, i) /\ UNCHANGED <<history, source>>
      BY <1>9 DEF History!FetchFails
    <2>2. history' \in Seq(Nat) /\ History!Listed' = History!Listed
      BY <2>1 DEF History!IInv, History!Shape, History!Listed
    <2> HIDE DEF F, Clean
    <2> QED
      BY <1>5, <1>7, <2>1, <2>2
  <1> QED
    BY <1>6, <1>8, <1>9

\* Before the first alert nothing is stored, listed or wiped.
LEMMA HistoryInit == History!Init => History!IInv
  <1> SUFFICES ASSUME History!Init PROVE History!IInv
    OBVIOUS
  <1>1. \A S : <<>> \in Seq(S)
    OBVIOUS
  <1>2. DOMAIN <<>> = {} /\ History!IsFiniteSet({})
    BY FiniteSame, FS_EmptySet
  <1>3. History!Shape
    BY <1>1, <1>2 DEF History!Init, History!Shape
  <1>4. History!StoreClean /\ History!FeedQuiet /\ History!FeedClean /\ History!ListClean
    BY <1>2 DEF History!Init, History!Erased, History!Forgotten, History!StoreClean, History!FeedQuiet, History!FeedClean, History!ListClean
  <1> QED
    BY <1>3, <1>4 DEF History!IInv

\* Every step of the collector and of the browser keeps the invariant.
LEMMA HistoryNext ==
    ASSUME History!IInv, [History!Next]_History!vars, HistoryCap \in Nat, Limit \in Nat
    PROVE  History!IInv'
  <1>1. CASE UNCHANGED History!vars
    <2>1. /\ UNCHANGED <<stage, feed, fetches, history, source, missed, wiped, History!Erased, History!Forgotten>>
          /\ UNCHANGED <<alerts, queue, writing, rows, telling, clearing>>
      BY <1>1 DEF History!vars, History!store, History!browser, History!wipe, History!Erased, History!Forgotten
    <2> QED
      BY <2>1, BrowserSame DEF History!IInv, History!Shape, History!StoreClean
  <1> QED
    BY <1>1, StoreStep, TellStep, ClearStep, ClearTellStep, SocketStep, SnapshotStep,
       AlertStep, FetchStep DEF History!Next

\* At rest no snapshot is to come, so the list itself is clean.
LEMMA HistoryClean == History!IInv => History!WipeHonoured
  <1> SUFFICES ASSUME History!IInv PROVE History!WipeHonoured
    OBVIOUS
  <1>1. DOMAIN <<>> = {}
    OBVIOUS
  <1>2. History!AtRest => stage # "closed" /\ ~clearing /\ ~History!Reset(0)
    BY <1>1 DEF History!AtRest, History!Reset
  <1> QED
    BY <1>2 DEF History!IInv, History!WipeHonoured, History!StoreClean, History!ListClean, History!Erased,
                History!Forgotten

\* list_recent: a row that is left out has Limit newer ones before it.
LEMMA LeftOut ==
    ASSUME History!Shape, rows \subseteq DOMAIN alerts, Limit \in Nat,
           NEW s \in History!ListRecent, NEW n \in rows, n \notin History!ToSet(s)
    PROVE  History!BeyondLimit(n)
  <1> DEFINE k == IF Cardinality(rows) < Limit THEN Cardinality(rows) ELSE Limit
             N == {m \in DOMAIN alerts : History!Newer(m, n)}
  <1>1. /\ s \in [1 .. k -> rows]
        /\ \A i, j \in 1 .. k : i < j => History!Newer(s[i], s[j])
        /\ \A i \in 1 .. k : History!Newer(s[i], n)
    BY FiniteSame DEF History!ListRecent
  <1>2. IsFiniteSet(rows) /\ Cardinality(rows) \in Nat /\ k \in Nat
    BY FiniteSame, FS_CardinalityType DEF History!Shape
  <1>3. IsFiniteSet(N)
    <2>1. DOMAIN alerts = 1 .. Len(alerts) /\ Len(alerts) \in Nat
      BY DEF History!Shape
    <2>2. IsFiniteSet(DOMAIN alerts)
      BY <2>1, FS_Interval
    <2> QED
      BY <2>2, FS_Subset
  <1>4. \A m \in DOMAIN alerts : ~History!Newer(m, m)
    <2> TAKE m \in DOMAIN alerts
    <2> DEFINE R == [ts : 0 .. MaxTs, kind : History!Kinds]
    <2>0. alerts \in Seq(R)
      BY DEF History!Shape
    <2>1. alerts[m] \in R
      <3> HIDE DEF R
      <3> QED
        BY <2>0, ElementOfSeq
    <2>2. m \in Nat
      BY DEF History!Shape
    <2>3. alerts[m].ts \in Int
      BY <2>1
    <2> QED
      BY <2>2, <2>3 DEF History!Newer
  <1>5. IsFiniteSet(1 .. k) /\ Cardinality(1 .. k) = k
    <2> HIDE DEF k
    <2> QED
      BY <1>2, FS_Interval
  <1> HIDE DEF k
  <1>6. \A i, j \in 1 .. k : s[i] = s[j] => i = j
    <2> SUFFICES ASSUME NEW i \in 1 .. k, NEW j \in 1 .. k, s[i] = s[j], i # j
                 PROVE  FALSE
      OBVIOUS
    <2>1. i < j \/ j < i
      BY <1>2
    <2>2. History!Newer(s[i], s[i])
      BY <1>1, <2>1
    <2> QED
      BY <1>1, <1>4, <2>2
  <1>7. s \in Injection(1 .. k, rows)
    BY <1>1, <1>6 DEF Injection, IsInjective
  <1>8. CASE k = Cardinality(rows)
    <2>1. s \in Surjection(1 .. k, rows)
      BY <1>2, <1>5, <1>7, <1>8, FS_Injection
    <2>2. \E i \in 1 .. k : s[i] = n
      BY <2>1 DEF Surjection
    <2> QED
      BY <1>1, <2>2 DEF History!ToSet
  <1>9. CASE k = Limit
    <2>1. s \in [1 .. k -> N]
      BY <1>1
    <2> HIDE DEF N
    <2>2. s \in Injection(1 .. k, N)
      BY <1>6, <2>1 DEF Injection, IsInjective
    <2>3. k <= Cardinality(N) /\ Cardinality(N) \in Nat
      BY <1>3, <1>5, <2>2, FS_Injection, FS_CardinalityType
    <2> QED
      BY <1>9, <2>3, FiniteSame DEF History!BeyondLimit, N
  <1> QED
    BY <1>8, <1>9 DEF k

\* An alert accepted later does not bring an older one back within the limit.
LEMMA BeyondStays ==
    ASSUME History!Shape, NEW r \in [ts : 0 .. MaxTs, kind : History!Kinds],
           alerts' = Append(alerts, r), Limit \in Nat,
           NEW n \in DOMAIN alerts, History!BeyondLimit(n)
    PROVE  History!BeyondLimit(n)'
  <1> DEFINE A == {m \in DOMAIN alerts : History!Newer(m, n)}
             B == {m \in DOMAIN alerts' : History!Newer(m, n)'}
  <1>1. /\ alerts' \in Seq([ts : 0 .. MaxTs, kind : History!Kinds])
        /\ \A m \in DOMAIN alerts : m \in DOMAIN alerts' /\ alerts'[m] = alerts[m]
    BY AppendFacts DEF History!Shape
  <1>2. A \subseteq B
    BY <1>1 DEF History!Newer
  <1>3. IsFiniteSet(B)
    <2>1. DOMAIN alerts' = 1 .. Len(alerts') /\ Len(alerts') \in Nat
      BY <1>1
    <2>2. IsFiniteSet(DOMAIN alerts')
      BY <2>1, FS_Interval
    <2> QED
      BY <2>2, FS_Subset
  <1>4. Cardinality(A) >= Limit
    BY FiniteSame DEF History!BeyondLimit
  <1> HIDE DEF A, B
  <1>5. Cardinality(A) <= Cardinality(B) /\ Cardinality(A) \in Nat /\ Cardinality(B) \in Nat
    BY <1>2, <1>3, FS_Subset, FS_CardinalityType
  <1>6. Cardinality(B) >= Limit
    BY <1>4, <1>5
  <1>7. History!Cardinality(B) >= Limit
    BY <1>6, FiniteSame
  <1> QED
    BY <1>7 DEF History!BeyondLimit, B

\* The list and the answers stay as good as they were while nothing stored when
\* the browser asked comes back to the table.
LEMMA GapSame ==
    ASSUME History!GapInv, History!QueueFresh', UNCHANGED <<fetches, history, source, heard>>,
           \A n \in rows' \cap atAsk' :
              n \in rows \cap atAsk /\ (History!BeyondLimit(n) => History!BeyondLimit(n)')
    PROVE  History!GapInv'
  <1>1. History!HeardListed'
    BY DEF History!GapInv, History!HeardListed, History!Listed
  <1>2. \A L : History!Covers(L) => \A n \in rows' \cap atAsk' : n \in L \/ History!BeyondLimit(n)'
    BY DEF History!Covers
  <1>3. History!AnswersCover'
    BY <1>2 DEF History!GapInv, History!AnswersCover, History!Covers, History!Listed
  <1> QED
    BY <1>1, <1>3 DEF History!GapInv

\* add_alert, spawn_writer, spawn_retention, clear_all: the table changes.
LEMMA StoreGap ==
    ASSUME History!IInv, History!GapInv, Limit \in Nat,
           \/ \E kind \in History!Kinds, ts \in 0 .. MaxTs : History!Accept(kind, ts)
           \/ History!Receive \/ History!Insert \/ History!Prune \/ History!Clear
    PROVE  History!GapInv'
  <1>0. UNCHANGED <<fetches, history, source, heard, atAsk>>
    BY DEF History!Accept, History!Receive, History!Insert, History!Prune, History!Clear, History!browser
  <1> DEFINE R == [ts : 0 .. MaxTs, kind : History!Kinds]
  <1>s. History!Shape /\ alerts \in Seq(R) /\ queue \in Seq(Nat)
    BY DEF History!IInv, History!Shape
  <1>f. History!QueueFresh
    BY DEF History!GapInv
  <1>1. ASSUME NEW kind \in History!Kinds, NEW ts \in 0 .. MaxTs, History!Accept(kind, ts)
        PROVE  History!GapInv'
    <2> DEFINE n == Len(alerts) + 1
               r == [ts |-> ts, kind |-> kind]
    <2>1. /\ alerts' = Append(alerts, r) /\ rows' = rows /\ writing' = writing
          /\ queue' = queue \/ queue' = Append(queue, n)
      BY <1>1 DEF History!Accept
    <2>2. r \in R /\ n \in Nat
      BY <1>s
    <2>3. n \notin DOMAIN alerts
      BY <1>s
    <2> HIDE DEF r, R
    <2>4. n \in DOMAIN alerts' /\ \A m \in DOMAIN alerts : m \in DOMAIN alerts'
      BY <1>s, <2>1, <2>2, AppendFacts
    <2> HIDE DEF n
    <2>5. CASE queue' = queue
      <3>1. History!QueueFresh'
        BY <1>0, <1>f, <2>1, <2>4, <2>5 DEF History!QueueFresh
      <3> QED
        BY <1>0, <1>f, <1>s, <2>1, <2>2, <3>1, GapSame, BeyondStays DEF R, History!QueueFresh
    <2>6. CASE queue' = Append(queue, n)
      <3>0. /\ \A k \in DOMAIN queue : queue'[k] = queue[k]
            /\ \A k \in DOMAIN queue' : k \in DOMAIN queue \/ (k = Len(queue) + 1 /\ queue'[k] = n)
        BY <1>s, <2>2, <2>6, AppendFacts
      <3>1. ASSUME NEW k \in DOMAIN queue'
            PROVE  queue'[k] \in DOMAIN alerts' \ (rows' \cup atAsk')
        BY <1>0, <1>f, <2>1, <2>3, <2>4, <3>0 DEF History!QueueFresh
      <3>2. ASSUME NEW k \in DOMAIN queue', NEW j \in DOMAIN queue', j # k
            PROVE  queue'[j] # queue'[k]
        BY <1>f, <2>3, <3>0, <3>2 DEF History!QueueFresh
      <3>3. rows' \cup atAsk' \subseteq DOMAIN alerts'
        BY <1>0, <1>f, <2>1, <2>4 DEF History!QueueFresh
      <3>4. writing' # None => /\ writing' \in DOMAIN alerts' \ (rows' \cup atAsk')
                               /\ \A k \in DOMAIN queue' : queue'[k] # writing'
        BY <1>0, <1>f, <2>1, <2>3, <2>4, <3>0 DEF History!QueueFresh
      <3>5. History!QueueFresh'
        BY <3>1, <3>2, <3>3, <3>4 DEF History!QueueFresh
      <3> QED
        BY <1>0, <1>f, <1>s, <2>1, <2>2, <3>5, GapSame, BeyondStays DEF R, History!QueueFresh
    <2> QED
      BY <2>1, <2>5, <2>6
  <1>2. CASE History!Receive
    <2> DEFINE h == Head(queue)
    <2>1. /\ queue # <<>> /\ queue' = Tail(queue) /\ alerts' = alerts
          /\ rows' = rows /\ writing' = h
      BY <1>2 DEF History!Receive
    <2>2. /\ h = queue[1] /\ 1 \in DOMAIN queue
          /\ \A k \in DOMAIN queue' : k \in Nat /\ k + 1 \in DOMAIN queue /\ queue'[k] = queue[k + 1]
      BY <1>s, <2>1, TailFacts
    <2>3. \A k \in DOMAIN queue' : k \in Nat /\ k # 0
      <3>1. queue' \in Seq(Nat)
        BY <1>s, <2>1, TailFacts
      <3> QED
        BY <3>1
    <2>4. h \in DOMAIN alerts /\ h \notin atAsk /\ h \notin rows
      BY <1>f, <2>2 DEF History!QueueFresh
    <2> HIDE DEF h
    <2>5. ASSUME NEW k \in DOMAIN queue'
          PROVE  queue'[k] \in DOMAIN alerts' \ (rows' \cup atAsk') /\ queue'[k] # h
      <3>1. k + 1 \in DOMAIN queue /\ queue'[k] = queue[k + 1] /\ k + 1 # 1
        BY <2>2, <2>3
      <3>2. queue[k + 1] # h
        BY <1>f, <2>2, <3>1 DEF History!QueueFresh
      <3> QED
        BY <1>0, <1>f, <2>1, <3>1, <3>2 DEF History!QueueFresh
    <2>6. ASSUME NEW k \in DOMAIN queue', NEW j \in DOMAIN queue', j # k
          PROVE  queue'[j] # queue'[k]
      <3>1. j + 1 # k + 1
        BY <2>3, <2>6
      <3> QED
        BY <1>f, <2>2, <3>1 DEF History!QueueFresh
    <2>7. History!QueueFresh'
      BY <1>0, <1>f, <2>1, <2>4, <2>5, <2>6 DEF History!QueueFresh
    <2>8. \A n : History!BeyondLimit(n) => History!BeyondLimit(n)'
      BY <2>1 DEF History!BeyondLimit, History!Newer
    <2> QED
      BY <1>0, <2>1, <2>4, <2>7, <2>8, GapSame
  <1>3. CASE History!Insert
    <2>1. /\ writing # None /\ writing' = None /\ alerts' = alerts /\ queue' = queue
          /\ rows' \subseteq rows \cup {writing}
      BY <1>3 DEF History!Insert
    <2>2. writing \in DOMAIN alerts /\ writing \notin atAsk /\ \A k \in DOMAIN queue : queue[k] # writing
      BY <1>f, <2>1 DEF History!QueueFresh
    <2>3. History!QueueFresh'
      BY <1>0, <1>f, <2>1, <2>2 DEF History!QueueFresh
    <2>4. \A n : History!BeyondLimit(n) => History!BeyondLimit(n)'
      BY <2>1 DEF History!BeyondLimit, History!Newer
    <2> QED
      BY <1>0, <2>1, <2>2, <2>3, <2>4, GapSame
  <1>4. CASE History!Prune \/ History!Clear
    <2>1. rows' \subseteq rows /\ queue' = queue /\ writing' = writing /\ alerts' = alerts
      BY <1>4 DEF History!Prune, History!Clear
    <2>2. History!QueueFresh'
      BY <1>0, <1>f, <2>1 DEF History!QueueFresh
    <2>3. \A n : History!BeyondLimit(n) => History!BeyondLimit(n)'
      BY <2>1 DEF History!BeyondLimit, History!Newer
    <2> QED
      BY <1>0, <2>1, <2>2, <2>3, GapSame
  <1> QED
    BY <1>1, <1>2, <1>3, <1>4

\* Tell, the socket, and what changes nothing of this.
LEMMA QuietGap ==
    ASSUME History!GapInv, UNCHANGED <<alerts, queue, writing, rows, atAsk, fetches, history, source, heard>>
    PROVE  History!GapInv'
  <1>1. History!QueueFresh'
    BY DEF History!GapInv, History!QueueFresh
  <1>2. \A n : History!BeyondLimit(n) => History!BeyondLimit(n)'
    BY DEF History!BeyondLimit, History!Newer
  <1> QED
    BY <1>1, <1>2, GapSame

\* handle, "snapshot": a new question, and nothing listed or heard.
LEMMA SnapshotGap ==
    ASSUME History!IInv, History!GapInv, History!OnSnapshot
    PROVE  History!GapInv'
  <1>1. /\ history' = <<>> /\ heard' = {} /\ atAsk' = rows /\ source' = "nothing"
        /\ UNCHANGED <<alerts, queue, writing, rows>>
    BY DEF History!OnSnapshot, History!store
  <1>2. \A i \in DOMAIN fetches' : fetches'[i].newest => fetches'[i].answer = None
    BY AskFacts DEF History!IInv
  <1>3. History!QueueFresh'
    BY <1>1 DEF History!GapInv, History!QueueFresh
  <1>4. History!HeardListed'
    BY <1>1 DEF History!HeardListed
  <1>5. History!AnswersCover'
    BY <1>1, <1>2 DEF History!AnswersCover
  <1> QED
    BY <1>3, <1>4, <1>5 DEF History!GapInv

\* handle, "alert": a list that is not full afterwards has lost nothing.
LEMMA AlertGap ==
    ASSUME History!IInv, History!GapInv, History!OnAlert, HistoryCap \in Nat
    PROVE  History!GapInv'
  <1> DEFINE h == Head(feed)
             n == IF Len(history) < HistoryCap THEN Len(history) + 1 ELSE HistoryCap
  <1>1. /\ history' = SubSeq(<<h>> \o history, 1, n) /\ heard' = heard \cup {h}
        /\ UNCHANGED <<alerts, queue, writing, rows, atAsk, fetches, source>>
    BY DEF History!OnAlert, History!store
  <1>2. history \in Seq(Nat) /\ Len(history) \in Nat /\ h \in Nat
    BY DEF History!IInv, History!Shape, History!OnAlert
  <1>3. n \in Nat /\ n <= Len(history) + 1
    BY <1>2
  <1>4. n < HistoryCap => Len(history) < HistoryCap /\ n = Len(history) + 1
    BY <1>2
  <1> HIDE DEF h, n
  <1>5. /\ Len(history') = n
        /\ n = Len(history) + 1 => History!Listed \cup {h} \subseteq History!Listed'
    <2>1. history' = SubSeq(<<h>> \o history, 1, n)
      BY <1>1
    <2> HIDE <1>1
    <2>2. /\ Len(SubSeq(<<h>> \o history, 1, n)) = n
          /\ n = Len(history) + 1 =>
                {h} \cup History!ToSet(history) \subseteq History!ToSet(SubSeq(<<h>> \o history, 1, n))
      BY <1>2, <1>3, PushFacts
    <2> QED
      BY <2>1, <2>2 DEF History!Listed
  <1>6. \A m : History!BeyondLimit(m) => History!BeyondLimit(m)'
    BY <1>1 DEF History!BeyondLimit, History!Newer
  <1>7. History!QueueFresh'
    BY <1>1 DEF History!GapInv, History!QueueFresh
  <1>8. ASSUME Len(history') < HistoryCap
        PROVE  Len(history) < HistoryCap /\ History!Listed \cup {h} \subseteq History!Listed'
    BY <1>4, <1>5, <1>8
  <1>9. History!HeardListed'
    BY <1>1, <1>8 DEF History!GapInv, History!HeardListed
  <1>10. History!AnswersCover'
    <2>1. \A L : History!Covers(L) => \A m \in rows' \cap atAsk' : m \in L \/ History!BeyondLimit(m)'
      BY <1>1, <1>6 DEF History!Covers
    <2>2. \A i \in DOMAIN fetches' :
             fetches'[i].newest /\ fetches'[i].answer # None => History!Covers(History!ToSet(fetches[i].answer))'
      BY <1>1, <2>1 DEF History!GapInv, History!AnswersCover, History!Covers
    <2>3. source' = "last" /\ Len(history') < HistoryCap => History!Covers(History!Listed)'
      BY <1>1, <1>8, <2>1 DEF History!GapInv, History!AnswersCover, History!Covers
    <2> QED
      BY <1>1, <2>2, <2>3 DEF History!AnswersCover
  <1> QED
    BY <1>7, <1>9, <1>10 DEF History!GapInv

\* fetchHistory: the answer to the last question holds what was stored when it
\* was asked and still is, up to the limit; the list is that answer.
LEMMA FetchGap ==
    ASSUME History!IInv, History!GapInv, Limit \in Nat, NEW i \in DOMAIN fetches,
           History!Select(i) \/ History!FetchDone(i) \/ History!FetchFails(i)
    PROVE  History!GapInv'
  <1> DEFINE F == [newest : BOOLEAN, answer : Seq(Nat) \cup {None}]
             Good(f) == f.newest /\ f.answer # None => History!Covers(History!ToSet(f.answer))
  <1>1. UNCHANGED <<alerts, queue, writing, rows, atAsk>>
    BY DEF History!Select, History!FetchDone, History!FetchFails, History!store
  <1>2. fetches \in Seq(F) /\ fetches[i] \in F
    <2>1. fetches \in Seq(F)
      BY DEF History!IInv, History!Shape
    <2> HIDE DEF F
    <2> QED
      BY <2>1, ElementOfSeq
  <1>3. History!QueueFresh'
    BY <1>1 DEF History!GapInv, History!QueueFresh
  <1>4. \A m : History!BeyondLimit(m)' <=> History!BeyondLimit(m)
    BY <1>1 DEF History!BeyondLimit, History!Newer
  <1>5. \A j \in DOMAIN fetches : Good(fetches[j])
    BY DEF History!GapInv, History!AnswersCover
  <1>6. ASSUME \A j \in DOMAIN fetches' : Good(fetches'[j]), History!HeardListed',
               source' = "last" /\ Len(history') < HistoryCap => History!Covers(History!ToSet(history'))
        PROVE  History!GapInv'
    <2>1. \A L : History!Covers(L) => \A m \in rows' \cap atAsk' : m \in L \/ History!BeyondLimit(m)'
      BY <1>1, <1>4 DEF History!Covers
    <2>2. History!AnswersCover'
      BY <1>6, <2>1 DEF History!AnswersCover, History!Covers, History!Listed
    <2> QED
      BY <1>3, <1>6, <2>2 DEF History!GapInv
  <1>7. CASE History!Select(i)
    <2>1. PICK s \in History!ListRecent : fetches' = [fetches EXCEPT ![i].answer = s]
      BY <1>7 DEF History!Select
    <2>2. UNCHANGED <<history, source, heard>>
      BY <1>7 DEF History!Select
    <2>3. DEFINE f == [fetches[i] EXCEPT !.answer = s]
    <2>4. f.answer = s
      BY <1>2
    <2>5. History!Covers(History!ToSet(s))
      BY LeftOut DEF History!Covers, History!IInv, History!GapInv, History!QueueFresh
    <2>6. Good(f)
      BY <2>4, <2>5
    <2>7. fetches' = [fetches EXCEPT ![i] = f]
      BY <2>1
    <2> HIDE DEF f, F, Good
    <2>8. DOMAIN fetches' = DOMAIN fetches /\ \A j \in DOMAIN fetches : fetches'[j] = IF j = i THEN f ELSE fetches[j]
      BY <1>2, <2>7
    <2>9. \A j \in DOMAIN fetches' : Good(fetches'[j])
      BY <1>5, <2>6, <2>8
    <2>10. History!HeardListed' /\ (source' = "last" /\ Len(history') < HistoryCap => History!Covers(History!ToSet(history')))
      BY <2>2 DEF History!GapInv, History!HeardListed, History!AnswersCover, History!Listed
    <2> QED
      BY <1>6, <2>9, <2>10
  <1>8. ASSUME fetches' = History!RemoveAt(fetches, i)
        PROVE  \A j \in DOMAIN fetches' : Good(fetches'[j])
    <2> HIDE DEF F, Good
    <2>1. \A k \in DOMAIN fetches' : \E j \in DOMAIN fetches : fetches'[k] = fetches[j]
      BY <1>2, <1>8, RemoveFacts
    <2> QED
      BY <1>5, <2>1
  <1>9. CASE History!FetchDone(i)
    <2>1. /\ fetches[i].answer # None /\ history' = fetches[i].answer /\ fetches' = History!RemoveAt(fetches, i)
          /\ source' = (IF fetches[i].newest THEN "last" ELSE "older") /\ heard' = {}
      BY <1>9 DEF History!FetchDone
    <2>2. source' = "last" => History!Covers(History!ToSet(history'))
      BY <1>5, <2>1
    <2>3. History!HeardListed'
      BY <2>1 DEF History!HeardListed
    <2> HIDE DEF Good
    <2> QED
      BY <1>6, <1>8, <2>1, <2>2, <2>3
  <1>10. CASE History!FetchFails(i)
    <2>1. fetches' = History!RemoveAt(fetches, i) /\ UNCHANGED <<history, source, heard>>
      BY <1>10 DEF History!FetchFails
    <2>2. History!HeardListed' /\ (source' = "last" /\ Len(history') < HistoryCap => History!Covers(History!ToSet(history')))
      BY <2>1 DEF History!GapInv, History!HeardListed, History!AnswersCover, History!Listed
    <2> HIDE DEF Good
    <2> QED
      BY <1>6, <1>8, <2>1, <2>2
  <1> QED
    BY <1>7, <1>9, <1>10

LEMMA GapInit == History!Init => History!GapInv
  <1> SUFFICES ASSUME History!Init PROVE History!GapInv
    OBVIOUS
  <1>1. DOMAIN <<>> = {}
    OBVIOUS
  <1> QED
    BY <1>1 DEF History!Init, History!GapInv, History!QueueFresh, History!HeardListed, History!AnswersCover

LEMMA GapNext ==
    ASSUME History!IInv, History!GapInv, [History!Next]_History!vars, HistoryCap \in Nat, Limit \in Nat
    PROVE  History!GapInv'
  <1>1. ASSUME UNCHANGED History!vars \/ History!Tell \/ History!ClearTell \/ History!Open
                 \/ History!Subscribe \/ History!Close
        PROVE  UNCHANGED <<alerts, queue, writing, rows, atAsk, fetches, history, source, heard>>
    BY <1>1 DEF History!vars, History!store, History!browser, History!Tell, History!ClearTell,
                History!Open, History!Subscribe, History!Close
  <1> QED
    BY <1>1, QuietGap, StoreGap, SnapshotGap, AlertGap, FetchGap DEF History!Next

LEMMA GapsExplained == History!GapInv => History!HistoryGapsExplained
  BY DEF History!GapInv, History!HistoryGapsExplained, History!HeardListed, History!AnswersCover,
         History!Covers

-----------------------------------------------------------------------------
(* What a browser shows of the firing map.                                 *)

\* app.js handle: the list after the events that were sent, one event more or
\* one event less.
LEMMA LeadsToEmpty ==
    ASSUME NEW s, NEW fp, NEW v
    PROVE  LeadsTo(<<>>, s, fp, v) <=> ((fp \in s) <=> v)
  <1>1. DOMAIN <<>> = {}
    OBVIOUS
  <1> QED
    BY <1>1 DEF LeadsTo

LEMMA LeadsToAppend ==
    ASSUME NEW u \in Seq(Event), NEW e \in Event, NEW s, NEW fp, NEW v
    PROVE  /\ ~Settles(e, fp) /\ LeadsTo(u, s, fp, v) => LeadsTo(Append(u, e), s, fp, v)
           /\ Settles(e, fp) /\ (Says(e, fp) <=> v) => LeadsTo(Append(u, e), s, fp, v)
  <1> DEFINE a == Append(u, e)
             n == Len(u) + 1
  <1>1. n \in DOMAIN a /\ a[n] = e /\ \A k \in DOMAIN u : k \in DOMAIN a /\ a[k] = u[k]
    BY AppendFacts
  <1>2. \A k \in DOMAIN a : k \in DOMAIN u \/ k = n
    BY AppendFacts
  <1>3. \A k \in DOMAIN u : n > k /\ ~(k > n)
    <2>1. DOMAIN u = 1 .. Len(u) /\ Len(u) \in Nat
      OBVIOUS
    <2> QED
      BY <2>1
  <1>4. ~(n > n)
    BY LenProperties
  <1> HIDE DEF a, n
  <1>5. ASSUME ~Settles(e, fp), LeadsTo(u, s, fp, v)
        PROVE  LeadsTo(a, s, fp, v)
    <2>1. ASSUME NEW k \in DOMAIN a, Settles(a[k], fp),
                 \A j \in DOMAIN a : j > k => ~Settles(a[j], fp)
          PROVE  Says(a[k], fp) <=> v
      <3>1. k \in DOMAIN u /\ a[k] = u[k]
        BY <1>1, <1>2, <1>5, <2>1
      <3>2. \A j \in DOMAIN u : j > k => ~Settles(u[j], fp)
        BY <1>1, <2>1
      <3> QED
        BY <1>5, <2>1, <3>1, <3>2 DEF LeadsTo
    <2>2. ASSUME \A k \in DOMAIN a : ~Settles(a[k], fp)
          PROVE  (fp \in s) <=> v
      BY <1>1, <1>5, <2>2 DEF LeadsTo
    <2> QED
      BY <2>1, <2>2 DEF LeadsTo
  <1>6. ASSUME Settles(e, fp), Says(e, fp) <=> v
        PROVE  LeadsTo(a, s, fp, v)
    <2>1. ASSUME NEW k \in DOMAIN a,
                 \A j \in DOMAIN a : j > k => ~Settles(a[j], fp)
          PROVE  k = n
      BY <1>1, <1>2, <1>3, <1>6, <2>1
    <2> QED
      BY <1>1, <1>6, <2>1 DEF LeadsTo
  <1> QED
    BY <1>5, <1>6 DEF a

LEMMA LeadsToTail ==
    ASSUME NEW u \in Seq(Event), u # <<>>, NEW s, NEW fp, NEW v, LeadsTo(u, s, fp, v)
    PROVE  LeadsTo(Tail(u), ShownAfter(s, Head(u)), fp, v)
  <1> DEFINE t == Tail(u)
             s2 == ShownAfter(s, Head(u))
  <1>1. /\ Head(u) = u[1] /\ 1 \in DOMAIN u /\ u[1] \in Event
        /\ \A k \in DOMAIN t : k + 1 \in DOMAIN u /\ t[k] = u[k + 1]
        /\ \A k \in DOMAIN u : k > 1 => k - 1 \in DOMAIN t /\ t[k - 1] = u[k]
    <2>1. 1 \in DOMAIN u
      BY TailFacts
    <2>2. u[1] \in Event
      BY <2>1, ElementOfSeq
    <2> QED
      BY <2>1, <2>2, TailFacts
  <1>2. DOMAIN u \subseteq Nat \ {0} /\ DOMAIN t \subseteq Nat \ {0}
    <2>1. t \in Seq(Event)
      BY TailFacts
    <2>2. DOMAIN u = 1 .. Len(u) /\ Len(u) \in Nat /\ DOMAIN t = 1 .. Len(t) /\ Len(t) \in Nat
      BY <2>1, LenProperties
    <2> QED
      BY <2>2
  <1>3. /\ Settles(u[1], fp) => ((fp \in s2) <=> Says(u[1], fp))
        /\ ~Settles(u[1], fp) => ((fp \in s2) <=> (fp \in s))
    <2>1. CASE u[1] \in [type : {"alert"}, fp : Fps, state : States]
      BY <1>1, <2>1 DEF Settles, Says, ShownAfter, States
    <2>2. CASE u[1] \in [type : {"snapshot"}, alerts : SUBSET Fps]
      BY <1>1, <2>2 DEF Settles, Says, ShownAfter
    <2>3. CASE u[1] = HostEvent
      BY <1>1, <2>3 DEF Settles, Says, ShownAfter, HostEvent
    <2> QED
      BY <1>1, <2>1, <2>2, <2>3 DEF Event
  <1> HIDE DEF t, s2
  <1>4. ASSUME NEW k \in DOMAIN t, Settles(t[k], fp),
               \A j \in DOMAIN t : j > k => ~Settles(t[j], fp)
        PROVE  Says(t[k], fp) <=> v
    <2>1. k + 1 \in DOMAIN u /\ t[k] = u[k + 1]
      BY <1>1
    <2>2. ASSUME NEW j \in DOMAIN u, j > k + 1
          PROVE  ~Settles(u[j], fp)
      <3>1. k \in Nat \ {0} /\ j \in Nat \ {0}
        BY <1>2
      <3>2. j > 1 /\ j - 1 > k
        BY <2>2, <3>1
      <3>3. j - 1 \in DOMAIN t /\ t[j - 1] = u[j]
        BY <1>1, <3>2
      <3> QED
        BY <1>4, <3>2, <3>3
    <2> QED
      BY <1>4, <2>1, <2>2 DEF LeadsTo
  <1>5. ASSUME \A k \in DOMAIN t : ~Settles(t[k], fp)
        PROVE  (fp \in s2) <=> v
    <2>1. ASSUME NEW j \in DOMAIN u, j > 1
          PROVE  ~Settles(u[j], fp)
      BY <1>1, <1>5, <2>1
    <2>2. CASE Settles(u[1], fp)
      BY <1>1, <1>3, <2>1, <2>2 DEF LeadsTo
    <2>3. CASE ~Settles(u[1], fp)
      <3>1. ASSUME NEW j \in DOMAIN u
            PROVE  ~Settles(u[j], fp)
        <4>1. j = 1 \/ j > 1
          BY <1>2
        <4> QED
          BY <2>1, <2>3, <4>1
      <3> QED
        BY <1>3, <2>3, <3>1 DEF LeadsTo
    <2> QED
      BY <2>2, <2>3
  <1> QED
    BY <1>4, <1>5 DEF LeadsTo, t, s2

\* Every event to come names a fingerprint and a state.
LEMMA UntoldType ==
    ASSUME IInv
    PROVE  Untold \subseteq Fps \X States
  <1> USE DEF IInv, TypeOK
  <1>1. ASSUME NEW c \in Conns, handler[c].stage = "telling"
        PROVE  <<handler[c].fp, handler[c].state>> \in Fps \X States
    BY <1>1 DEF HandlersKnow, Fps, AgentFps
  <1>2. ASSUME NEW p \in syslog
        PROVE  <<<<p, "syslog_event">>, "firing">> \in Fps \X States
    BY DEF Fps, PeerFps, States
  <1>3. ASSUME NEW o \in Operators, request[o] # None
        PROVE  <<request[o].fp, "resolved">> \in Fps \X States
    BY <1>3 DEF Request, States
  <1>4. ASSUME scan # None, scan.tell # None
        PROVE  scan.tell \in Fps \X States
    BY <1>4 DEF Scan, Fps
  <1> HIDE DEF IInv, TypeOK
  <1> QED
    BY <1>1, <1>2, <1>3, <1>4 DEF Untold

\* The steps of the collector, as a browser sees them.  A change of the firing
\* map makes an event to come of it; an event is told as it was made; nothing
\* else tells of an alert.
Quietly ==
    /\ feed' = feed \/ Broadcast(HostEvent)
    /\ Untold \subseteq Untold'
    /\ Turned \subseteq UntoldFps'

Telling(u) ==
    /\ u \in Untold /\ Untold \ {u} \subseteq Untold'
    /\ firing' = firing
    /\ Broadcast(AlertEvent(u[1], u[2]))

\* Untold is what its four sources say.
LEMMA UntoldSources ==
    ASSUME NEW u
    PROVE  u \in Untold <=>
              \/ \E c \in Conns : handler[c].stage = "telling" /\ u = <<handler[c].fp, handler[c].state>>
              \/ \E p \in syslog : u = <<<<p, "syslog_event">>, "firing">>
              \/ \E o \in Operators : request[o] # None /\ u = <<request[o].fp, "resolved">>
              \/ scan # None /\ scan.tell # None /\ u = scan.tell
  BY DEF Untold

LEMMA UntoldSources2 ==
    ASSUME NEW u
    PROVE  u \in Untold' <=>
              \/ \E c \in Conns : handler'[c].stage = "telling" /\ u = <<handler'[c].fp, handler'[c].state>>
              \/ \E p \in syslog' : u = <<<<p, "syslog_event">>, "firing">>
              \/ \E o \in Operators : request'[o] # None /\ u = <<request'[o].fp, "resolved">>
              \/ scan' # None /\ scan'.tell # None /\ u = scan'.tell
  BY DEF Untold

LEMMA IngestSeen ==
    ASSUME IInv, NEW c \in Conns, Ingest(c)
    PROVE  Quietly \/ \E u \in Fps \X States : Telling(u)
  <1> USE DEF IInv
  <1>0. handler \in [Conns -> Handler] /\ handler[c] \in Handler /\ UNCHANGED <<syslog, request, scan>>
    BY DEF TypeOK, Ingest, Hello, Heartbeat, AlertRead, AlertApply, AlertTell, Disconnect
  <1>1. ASSUME firing' = firing, feed' = feed \/ Broadcast(HostEvent), handler[c].stage # "telling",
               NEW v, handler' = [handler EXCEPT ![c] = v]
        PROVE  Quietly
    <2>1. \A d \in Conns : handler[d].stage = "telling" => handler'[d] = handler[d]
      BY <1>0, <1>1
    <2>2. Untold \subseteq Untold'
      BY <1>0, <2>1, UntoldSources, UntoldSources2
    <2>3. Turned = {}
      BY <1>1 DEF Turned
    <2> QED
      BY <1>1, <2>2, <2>3 DEF Quietly
  <1>2. ASSUME \/ \E ts \in Stamps : \/ \E m \in BOOLEAN : Hello(c, ts, m)
                                     \/ Heartbeat(c, ts)
                                     \/ \E m \in Metrics, st \in States : AlertRead(c, m, st, ts)
               \/ Disconnect(c)
        PROVE  Quietly
    <2>1. firing' = firing /\ (feed' = feed \/ Broadcast(HostEvent)) /\ handler[c].stage = "reading"
      BY <1>2 DEF Hello, Heartbeat, AlertRead, Disconnect, Speaks
    <2>2. \E v : handler' = [handler EXCEPT ![c] = v]
      <3>1. ASSUME NEW ts, NEW m, Hello(c, ts, m)
            PROVE  handler' = [handler EXCEPT ![c] = [handler[c] EXCEPT !.greeted = TRUE]]
        BY <1>0, <3>1 DEF Hello
      <3>2. ASSUME NEW ts, Heartbeat(c, ts)
            PROVE  handler' = [handler EXCEPT ![c] = handler[c]]
        BY <1>0, <3>2 DEF Heartbeat
      <3>3. ASSUME NEW ts, NEW m, NEW st, AlertRead(c, m, st, ts)
            PROVE  \E v : handler' = [handler EXCEPT ![c] = v]
        BY <1>0, <3>3 DEF AlertRead
      <3>4. ASSUME Disconnect(c)
            PROVE  handler' = [handler EXCEPT ![c] = Idle(handler[c].greeted /\ FALSE)]
        BY <1>0, <3>4 DEF Disconnect, Idle
      <3> QED
        BY <1>2, <3>1, <3>2, <3>3, <3>4
    <2> QED
      BY <1>1, <2>1, <2>2
  <1>3. ASSUME AlertApply(c)
        PROVE  Quietly
    <2> DEFINE fp == handler[c].fp
               st == handler[c].state
    <2>1. /\ handler[c].stage = "applying" /\ ApplyAlert(fp, st) /\ feed' = feed
          /\ handler' = [handler EXCEPT ![c] =
                 IF Changed(fp, st) THEN [handler[c] EXCEPT !.stage = "telling"] ELSE Idle(handler[c].greeted)]
      BY <1>0, <1>3 DEF AlertApply
    <2>2. fp \in Fps /\ st \in States
      BY <2>1 DEF HandlersKnow, Fps, AgentFps
    <2>3. \A d \in Conns : handler[d].stage = "telling" => handler'[d] = handler[d]
      BY <1>0, <2>1
    <2>4. Untold \subseteq Untold'
      BY <1>0, <2>3, UntoldSources, UntoldSources2
    <2>5. CASE Changed(fp, st)
      <3>1. handler'[c] = [handler[c] EXCEPT !.stage = "telling"]
        BY <1>0, <2>1, <2>5
      <3>2. handler'[c].stage = "telling" /\ handler'[c].fp = fp /\ handler'[c].state = st
        BY <1>0, <3>1 DEF Handler
      <3>3. <<fp, st>> \in Untold'
        BY <3>2, UntoldSources2
      <3>4. fp \in UntoldFps'
        BY <3>3 DEF UntoldFps
      <3>5. Turned \subseteq {fp}
        BY <2>1 DEF ApplyAlert, Turned
      <3> QED
        BY <2>1, <2>4, <3>4, <3>5 DEF Quietly
    <2>6. CASE ~Changed(fp, st)
      <3>1. Turned = {}
        BY <2>1, <2>6 DEF ApplyAlert, Turned, Changed
      <3> QED
        BY <2>1, <2>4, <3>1 DEF Quietly
    <2> QED
      BY <2>5, <2>6
  <1>4. ASSUME AlertTell(c)
        PROVE  \E u \in Fps \X States : Telling(u)
    <2> DEFINE u == <<handler[c].fp, handler[c].state>>
    <2>1. /\ handler[c].stage = "telling" /\ firing' = firing
          /\ Broadcast(AlertEvent(u[1], u[2]))
      BY <1>4 DEF AlertTell
    <2>2. u \in Untold
      BY <2>1, UntoldSources
    <2>3. \A d \in Conns : d # c => handler'[d] = handler[d]
      BY <1>0, <1>4 DEF AlertTell
    <2>4. Untold \ {u} \subseteq Untold'
      BY <1>0, <2>3, UntoldSources, UntoldSources2
    <2> QED
      BY <2>1, <2>2, <2>4, UntoldType DEF Telling
  <1> QED
    BY <1>2, <1>3, <1>4 DEF Ingest

LEMMA SyslogSeen ==
    ASSUME IInv, NEW p \in Peers, SyslogApply(p) \/ SyslogTell(p)
    PROVE  Quietly \/ \E u \in Fps \X States : Telling(u)
  <1> DEFINE u == <<<<p, "syslog_event">>, "firing">>
  <1>0. UNCHANGED <<handler, request, scan>>
    BY DEF SyslogApply, SyslogTell
  <1>1. CASE SyslogApply(p)
    <2>1. syslog' = syslog \cup {p} /\ firing' = firing \cup {u[1]} /\ feed' = feed
      BY <1>1 DEF SyslogApply, ApplyAlert
    <2>2. Untold \subseteq Untold' /\ u \in Untold'
      BY <1>0, <2>1, UntoldSources, UntoldSources2
    <2>3. u[1] \in UntoldFps' /\ Turned \subseteq {u[1]}
      BY <2>1, <2>2 DEF UntoldFps, Turned
    <2> QED
      BY <2>1, <2>2, <2>3 DEF Quietly
  <1>2. CASE SyslogTell(p)
    <2>1. p \in syslog /\ syslog' = syslog \ {p} /\ firing' = firing /\ Broadcast(AlertEvent(u[1], u[2]))
      BY <1>2 DEF SyslogTell
    <2>2. u \in Untold
      BY <2>1, UntoldSources
    <2>3. Untold \ {u} \subseteq Untold'
      BY <1>0, <2>1, UntoldSources, UntoldSources2
    <2> QED
      BY <2>1, <2>2, <2>3, UntoldType DEF Telling
  <1> QED
    BY <1>1, <1>2

LEMMA ResolveSeen ==
    ASSUME IInv, NEW o \in Operators, Resolve(o)
    PROVE  Quietly \/ \E u \in Fps \X States : Telling(u)
  <1>0. /\ request \in [Operators -> Request \cup {None}] /\ None \notin Request
        /\ UNCHANGED <<handler, syslog, scan>>
    BY NoneAssumption DEF IInv, TypeOK, Resolve, ResolveRemove, ResolveDecrement, ResolveTell
  <1>1. ASSUME NEW fp \in Fps, ResolveRemove(o, fp)
        PROVE  Quietly
    <2>1. /\ request[o] = None /\ firing' = firing \ {fp} /\ feed' = feed
          /\ request' = [request EXCEPT ![o] = [stage |-> "removed", fp |-> fp]]
      BY <1>1 DEF ResolveRemove
    <2>2. [stage |-> "removed", fp |-> fp] \in Request
      BY DEF Request
    <2>3. request'[o] # None /\ request'[o].fp = fp
      BY <1>0, <2>1, <2>2
    <2>4. \A q \in Operators : request[q] # None => request'[q] = request[q]
      BY <1>0, <2>1
    <2>5. Untold \subseteq Untold' /\ <<fp, "resolved">> \in Untold'
      BY <1>0, <2>3, <2>4, UntoldSources, UntoldSources2
    <2>6. fp \in UntoldFps' /\ Turned \subseteq {fp}
      BY <2>1, <2>5 DEF UntoldFps, Turned
    <2> QED
      BY <2>1, <2>5, <2>6 DEF Quietly
  <1>2. CASE ResolveDecrement(o)
    <2>1. /\ request[o] # None /\ firing' = firing /\ feed' = feed
          /\ request' = [request EXCEPT ![o] = [request[o] EXCEPT !.stage = "telling"]]
      BY <1>0, <1>2 DEF ResolveDecrement
    <2>2. /\ [request[o] EXCEPT !.stage = "telling"] \in Request
          /\ [request[o] EXCEPT !.stage = "telling"].fp = request[o].fp
      BY <1>0, <2>1 DEF Request
    <2>3. \A q \in Operators : request[q] # None => request'[q] # None /\ request'[q].fp = request[q].fp
      BY <1>0, <2>1, <2>2
    <2>4. Untold \subseteq Untold'
      BY <1>0, <2>3, UntoldSources, UntoldSources2
    <2>5. Turned = {}
      BY <2>1 DEF Turned
    <2> QED
      BY <2>1, <2>4, <2>5 DEF Quietly
  <1>3. CASE ResolveTell(o)
    <2> DEFINE u == <<request[o].fp, "resolved">>
    <2>1. /\ request[o] # None /\ firing' = firing /\ Broadcast(AlertEvent(u[1], u[2]))
          /\ request' = [request EXCEPT ![o] = None]
      BY <1>3 DEF ResolveTell
    <2>2. u \in Untold
      BY <2>1, UntoldSources
    <2>3. \A q \in Operators : q # o => request'[q] = request[q]
      BY <1>0, <2>1
    <2>4. Untold \ {u} \subseteq Untold'
      BY <1>0, <2>3, UntoldSources, UntoldSources2
    <2> QED
      BY <2>1, <2>2, <2>4, UntoldType DEF Telling
  <1> QED
    BY <1>1, <1>2, <1>3 DEF Resolve

LEMMA WatchSeen ==
    ASSUME IInv, Watch
    PROVE  Quietly \/ \E u \in Fps \X States : Telling(u)
  <1>0. /\ scan \in Scan \cup {None} /\ None \notin Scan
        /\ UNCHANGED <<handler, syslog, request>>
    BY NoneAssumption DEF IInv, TypeOK, Watch, WatchScan, WatchHost, WatchTell, WatchSleep
  <1>1. ASSUME scan = None \/ scan.tell = None
        PROVE  Untold \subseteq Untold'
    BY <1>0, <1>1, UntoldSources, UntoldSources2
  <1>2. CASE WatchScan \/ WatchSleep
    <2>1. (scan = None \/ scan.tell = None) /\ firing' = firing /\ feed' = feed
      BY <1>2 DEF WatchScan, WatchSleep
    <2>2. Turned = {}
      BY <2>1 DEF Turned
    <2> QED
      BY <1>1, <2>1, <2>2 DEF Quietly
  <1>3. ASSUME NEW h \in Agents, WatchHost(h)
        PROVE  Quietly
    <2> DEFINE fp == OfflineFp(h)
    <2>1. scan # None /\ scan.tell = None
      BY <1>3 DEF WatchHost
    <2>2. scan \in Scan
      BY <1>0, <2>1
    <2>3. CASE online[h] = Verdict(h)
      <3>1. firing' = firing /\ feed' = feed
        BY <1>3, <2>3 DEF WatchHost
      <3>2. Turned = {}
        BY <3>1 DEF Turned
      <3> QED
        BY <1>1, <2>1, <3>1, <3>2 DEF Quietly
    <2>4. CASE online[h] # Verdict(h)
      <3> DEFINE tell == IF Verdict(h) = "offline" THEN <<fp, "firing">>
                         ELSE IF fp \in firing THEN <<fp, "resolved">> ELSE None
      <3>1. /\ Broadcast(HostEvent)
            /\ scan' = [scan EXCEPT !.todo = @ \ {h}, !.tell = tell]
            /\ firing' = IF Verdict(h) = "offline" THEN firing \cup {fp} ELSE firing \ {fp}
        BY <1>3, <2>4 DEF WatchHost, ApplyAlert
      <3>2. fp \in Fps
        BY DEF OfflineFp, Fps, AgentFps
      <3>3. tell # None => tell[1] = fp /\ tell \in Fps \X States
        BY <3>2 DEF States
      <3>4. scan'.tell = tell
        BY <2>2, <3>1 DEF Scan
      <3>5. scan' # None
        <4>1. tell \in (AgentFps \X States) \cup {None}
          BY DEF OfflineFp, AgentFps, States
        <4> HIDE DEF tell
        <4>2. scan' \in Scan
          BY <2>2, <3>1, <4>1 DEF Scan
        <4> QED
          BY <1>0, <4>2
      <3>6. tell = None => firing' = firing
        <4>1. <<fp, "firing">> # None /\ <<fp, "resolved">> # None
          BY <3>2, GuiAssumption DEF States
        <4> QED
          BY <3>1, <4>1
      <3>7. Turned \subseteq {fp}
        BY <3>1 DEF Turned
      <3> HIDE DEF tell
      <3>8. CASE tell = None
        <4>1. Turned = {}
          BY <3>6, <3>8 DEF Turned
        <4> QED
          BY <1>1, <2>1, <3>1, <4>1 DEF Quietly
      <3>9. CASE tell # None
        <4>1. tell \in Untold'
          BY <3>4, <3>5, <3>9, UntoldSources2
        <4>2. fp \in UntoldFps'
          BY <3>3, <3>9, <4>1 DEF UntoldFps
        <4> QED
          BY <1>1, <2>1, <3>1, <3>7, <4>2 DEF Quietly
      <3> QED
        BY <3>8, <3>9
    <2> QED
      BY <2>3, <2>4
  <1>4. CASE WatchTell
    <2> DEFINE u == scan.tell
    <2>1. scan # None /\ u # None /\ firing' = firing /\ Broadcast(AlertEvent(u[1], u[2]))
      BY <1>4 DEF WatchTell
    <2>2. u \in Untold
      BY <2>1, UntoldSources
    <2>3. Untold \ {u} \subseteq Untold'
      BY <1>0, UntoldSources, UntoldSources2
    <2> QED
      BY <2>1, <2>2, <2>3, UntoldType DEF Telling
  <1> QED
    BY <1>2, <1>3, <1>4 DEF Watch

\* fanout: an event joins what a receiver has not read, and a receiver that has
\* lost nothing by it had lost nothing before.
LEMMA BroadcastFacts ==
    ASSUME GuiTypeOK, NEW e \in Event, Broadcast(e)
    PROVE  /\ feed' \in [Subscribers -> Receiver \cup {None}]
           /\ \A b \in Subscribers :
                 /\ feed'[b] # None <=> feed[b] # None
                 /\ feed[b] # None /\ ~feed'[b].lagged =>
                       ~feed[b].lagged /\ feed'[b].unread = Append(feed[b].unread, e)
  <1> SUFFICES ASSUME NEW b \in Subscribers
               PROVE  /\ feed'[b] \in Receiver \cup {None}
                      /\ feed'[b] # None <=> feed[b] # None
                      /\ feed[b] # None /\ ~feed'[b].lagged =>
                            ~feed[b].lagged /\ feed'[b].unread = Append(feed[b].unread, e)
    BY DEF Broadcast
  <1>0. None \notin Receiver
    BY GuiAssumption
  <1>1. feed'[b] = IF feed[b] = None THEN None ELSE Push(feed[b], e)
    BY DEF Broadcast
  <1>2. CASE feed[b] = None
    BY <1>1, <1>2
  <1>3. CASE feed[b] # None
    <2> DEFINE f == feed[b]
               u == f.unread
    <2>1. f \in Receiver
      BY <1>3 DEF GuiTypeOK
    <2>2. u \in Seq(Event) /\ f.lagged \in BOOLEAN /\ f = [unread |-> u, lagged |-> f.lagged]
      BY <2>1 DEF Receiver
    <2>3. Append(u, e) \in Seq(Event)
      BY <2>2, AppendFacts
    <2>4. CASE Len(u) < RingCap
      <3>1. feed'[b] = [unread |-> Append(u, e), lagged |-> f.lagged]
        BY <1>1, <1>3, <2>2, <2>4 DEF Push
      <3>2. feed'[b] \in Receiver
        BY <2>2, <2>3, <3>1 DEF Receiver
      <3>3. feed'[b] # None
        BY <1>0, <3>2
      <3>4. feed'[b].unread = Append(u, e) /\ feed'[b].lagged = f.lagged
        <4> DEFINE a == Append(u, e)
                   g == f.lagged
        <4> HIDE DEF a, g
        <4>1. feed'[b] = [unread |-> a, lagged |-> g]
          BY <3>1 DEF a, g
        <4>2. feed'[b].unread = a /\ feed'[b].lagged = g
          BY <4>1
        <4> QED
          BY <4>2 DEF a, g
      <3> QED
        BY <1>3, <3>2, <3>3, <3>4
    <2>5. CASE ~(Len(u) < RingCap)
      <3>1. feed'[b] = [unread |-> Append(Tail(u), e), lagged |-> TRUE]
        BY <1>1, <1>3, <2>5 DEF Push
      <3>2. u # <<>>
        BY <2>5, CollectorAssumption
      <3>3. Tail(u) \in Seq(Event)
        BY <2>2, <3>2, TailFacts
      <3>4. Append(Tail(u), e) \in Seq(Event)
        BY <3>3, AppendFacts
      <3>5. feed'[b] \in Receiver
        BY <3>1, <3>4 DEF Receiver
      <3>6. feed'[b] # None
        BY <1>0, <3>5
      <3>7. feed'[b].lagged
        BY <3>1
      <3> QED
        BY <1>3, <3>5, <3>6, <3>7, Zenon
    <2> QED
      BY <2>4, <2>5
  <1> QED
    BY <1>2, <1>3

\* What is suspected after a step.
LEMMA SuspectFacts ==
    ASSUME suspect' = [b \in Subscribers |-> SuspectNext(b)], NEW b \in Subscribers
    PROVE  /\ Overtaken' \subseteq suspect'[b]
           /\ stage[b] \in {"reading", "unsubscribed"} => suspect[b] \cup Turned \subseteq suspect'[b]
           /\ stage[b] = "live" => suspect[b] \subseteq suspect'[b]
  <1>1. suspect'[b] = SuspectNext(b)
    OBVIOUS
  <1> QED
    BY <1>1 DEF SuspectNext

\* An alert that a browser is not suspected on is told, and a wipe's snapshot
\* shows it, as it is in the firing map.
LEMMA NotOvertaken ==
    ASSUME SuspectCovers, NEW b \in Subscribers, NEW fp \in Fps \ suspect[b]
    PROVE  /\ \A u \in Untold : u[1] = fp => (u[2] = "firing" <=> fp \in firing)
           /\ \A w \in Wipes : clear[w] # None => (fp \in clear[w] <=> fp \in firing)
  <1>1. fp \notin Overtaken
    BY DEF SuspectCovers
  <1>2. ASSUME NEW u \in Untold, u[1] = fp
        PROVE  u[2] = "firing" <=> fp \in firing
    <2>1. ASSUME (u[2] = "firing") # (u[1] \in firing)
          PROVE  FALSE
      <3>1. u[1] \in Overtaken
        BY <2>1 DEF Overtaken
      <3> QED
        BY <1>1, <1>2, <3>1
    <2> QED
      BY <1>2, <2>1
  <1>3. ASSUME NEW w \in Wipes, clear[w] # None
        PROVE  fp \in clear[w] <=> fp \in firing
    BY <1>1, <1>3 DEF Overtaken
  <1> QED
    BY <1>2, <1>3

\* A step that leaves the sockets as they are and sends e to every receiver, or
\* nothing.
Sends(e, sent) == IF sent THEN e \in Event /\ Broadcast(e) ELSE feed' = feed

\* What e settles is as e says, and what is no longer to come was told by e.

LEMMA SendingStep ==
    ASSUME GuiInv, NEW e, NEW sent \in BOOLEAN, Sends(e, sent), UNCHANGED <<stage, shown>>,
           clear' \in [Wipes -> (SUBSET Fps) \cup {None}],
           suspect' = [b \in Subscribers |-> SuspectNext(b)],
           \A b \in Subscribers : \A fp \in Fps \ suspect[b] : fp \notin UntoldFps' =>
              /\ fp \notin Turned
              /\ sent /\ Settles(e, fp) => (Says(e, fp) <=> fp \in firing)
              /\ fp \in UntoldFps => sent /\ Settles(e, fp)
    PROVE  GuiInv'
  <1> USE DEF GuiInv
  <1>1. GuiTypeOK'
    BY BroadcastFacts DEF Sends, GuiTypeOK
  <1>2. SuspectCovers'
    BY SuspectFacts DEF SuspectCovers
  <1>3. ReadingAgrees'
    <2> SUFFICES ASSUME NEW b \in Subscribers, stage'[b] \in {"reading", "unsubscribed"},
                        NEW fp \in Fps \ suspect'[b]
                 PROVE  (fp \in shown'[b]) <=> (fp \in firing')
      BY DEF ReadingAgrees, Fps, AgentFps, PeerFps
    <2>1. fp \notin suspect[b] /\ fp \notin Turned
      BY SuspectFacts
    <2>2. (fp \in firing) <=> (fp \in firing')
      BY <2>1 DEF Turned
    <2> QED
      BY <2>1, <2>2 DEF ReadingAgrees
  <1>4. FeedAgrees'
    <2> SUFFICES ASSUME NEW b \in Subscribers, stage'[b] = "live", ~feed'[b].lagged,
                        NEW fp \in Fps \ suspect'[b], fp \notin UntoldFps'
                 PROVE  LeadsTo(feed'[b].unread, shown'[b], fp, fp \in firing')
      BY DEF FeedAgrees, Fps, AgentFps, PeerFps
    <2>1. fp \in Fps \ suspect[b] /\ feed[b] # None /\ stage[b] = "live"
      BY SuspectFacts DEF GuiTypeOK
    <2>2. (fp \in firing) <=> (fp \in firing')
      BY <2>1 DEF Turned
    <2>3. CASE ~sent
      <3>0. feed' = feed
        BY <2>3 DEF Sends
      <3>1. LeadsTo(feed[b].unread, shown[b], fp, fp \in firing)
        BY <2>1, <2>3, <3>0 DEF FeedAgrees
      <3> QED
        BY <2>2, <3>0, <3>1 DEF LeadsTo
    <2>4. CASE sent
      <3>1. e \in Event /\ Broadcast(e)
        BY <2>4 DEF Sends
      <3>2. ~feed[b].lagged /\ feed'[b].unread = Append(feed[b].unread, e)
        BY <2>1, <3>1, BroadcastFacts
      <3>3. feed[b].unread \in Seq(Event)
        BY <2>1 DEF GuiTypeOK, Receiver
      <3>4. CASE Settles(e, fp)
        <4>1. Says(e, fp) <=> fp \in firing'
          BY <2>1, <2>2, <2>4, <3>4
        <4> DEFINE v == fp \in firing'
        <4> HIDE DEF v
        <4>2. Says(e, fp) <=> v
          BY <4>1 DEF v
        <4>3. LeadsTo(Append(feed[b].unread, e), shown[b], fp, v)
          BY <3>1, <3>3, <3>4, <4>2, LeadsToAppend
        <4> QED
          BY <3>2, <4>3 DEF v
      <3>5. CASE ~Settles(e, fp)
        <4>1. LeadsTo(feed[b].unread, shown[b], fp, fp \in firing)
          BY <2>1, <3>2, <3>5 DEF FeedAgrees
        <4>2. LeadsTo(feed[b].unread, shown[b], fp, fp \in firing')
          BY <2>2, <4>1 DEF LeadsTo
        <4> QED
          BY <3>1, <3>2, <3>3, <3>5, <4>2, LeadsToAppend
      <3> QED
        BY <3>4, <3>5
    <2> QED
      BY <2>3, <2>4
  <1> QED
    BY <1>1, <1>2, <1>3, <1>4

\* The collector's own steps, which leave the sockets alone.
LEMMA CollectorSeen ==
    ASSUME IInv, CollectorStep
    PROVE  Quietly \/ \E u \in Fps \X States : Telling(u)
  <1>1. CASE WriterTakes \/ Tick
    <2>1. UNCHANGED <<firing, feed, handler, syslog, request, scan>>
      BY <1>1 DEF WriterTakes, Tick
    <2>2. Untold' = Untold /\ Turned = {}
      BY <2>1 DEF Untold, Turned
    <2> QED
      BY <2>1, <2>2 DEF Quietly
  <1> QED
    BY <1>1, IngestSeen, SyslogSeen, ResolveSeen, WatchSeen DEF CollectorStep

LEMMA CollectorGui ==
    ASSUME IInv, GuiInv, CollectorStep, suspect' = [b \in Subscribers |-> SuspectNext(b)]
    PROVE  GuiInv'
  <1>0. UNCHANGED <<stage, shown, clear>> /\ clear' \in [Wipes -> (SUBSET Fps) \cup {None}]
    BY DEF CollectorStep, GuiInv, GuiTypeOK
  <1>1. CASE Quietly
    <2>1. PICK sent \in BOOLEAN : Sends(HostEvent, sent)
      BY <1>1 DEF Quietly, Sends, Event
    <2>2. \A fp : ~Settles(HostEvent, fp)
      BY DEF Settles, HostEvent
    <2>3. UntoldFps \subseteq UntoldFps' /\ Turned \subseteq UntoldFps'
      BY <1>1 DEF Quietly, UntoldFps
    <2> QED
      BY <1>0, <2>1, <2>2, <2>3, SendingStep
  <1>2. ASSUME NEW u \in Fps \X States, Telling(u)
        PROVE  GuiInv'
    <2> DEFINE e == AlertEvent(u[1], u[2])
    <2>1. e \in Event /\ \A fp : (Settles(e, fp) <=> fp = u[1]) /\ (Says(e, fp) <=> u[2] = "firing")
      BY DEF AlertEvent, Event, Settles, Says
    <2>2. u \in Untold /\ Untold \ {u} \subseteq Untold' /\ firing' = firing /\ Broadcast(e)
      BY <1>2 DEF Telling
    <2>3. Sends(e, TRUE) /\ Turned = {}
      BY <2>1, <2>2 DEF Sends, Turned
    <2>4. UntoldFps \subseteq UntoldFps' \cup {u[1]}
      BY <2>2 DEF UntoldFps
    <2> HIDE DEF e
    <2> QED
      BY <1>0, <2>1, <2>2, <2>3, <2>4, SendingStep, NotOvertaken DEF GuiInv
  <1> QED
    BY <1>1, <1>2, CollectorSeen

\* http.rs api_clear_history: the snapshot shows every alert that the browsers
\* are not suspected on as it is.
LEMMA ClearGui ==
    ASSUME IInv, GuiInv, NEW w \in Wipes, ClearHistory(w) \/ ClearTell(w),
           suspect' = [b \in Subscribers |-> SuspectNext(b)]
    PROVE  GuiInv'
  <1>0. /\ UNCHANGED <<stage, shown, firing, handler, syslog, request, scan>>
        /\ clear \in [Wipes -> (SUBSET Fps) \cup {None}] /\ firing \subseteq Fps
    BY DEF ClearHistory, ClearTell, vars, IInv, TypeOK, GuiInv, GuiTypeOK
  <1>1. Untold' = Untold /\ UntoldFps' = UntoldFps /\ Turned = {}
    BY <1>0 DEF Untold, UntoldFps, Turned
  <1>2. clear' \in [Wipes -> (SUBSET Fps) \cup {None}]
    BY <1>0 DEF ClearHistory, ClearTell
  <1>3. CASE ClearHistory(w)
    <2>1. Sends(HostEvent, FALSE)
      BY <1>3 DEF ClearHistory, vars, Sends
    <2> QED
      BY <1>0, <1>1, <1>2, <2>1, SendingStep
  <1>4. CASE ClearTell(w)
    <2> DEFINE e == [type |-> "snapshot", alerts |-> clear[w]]
    <2>1. clear[w] # None /\ clear[w] \subseteq Fps /\ Broadcast(e)
      BY <1>0, <1>4 DEF ClearTell
    <2>2. e \in Event /\ \A fp : Settles(e, fp) /\ (Says(e, fp) <=> fp \in clear[w])
      BY <2>1 DEF Event, Settles, Says
    <2> HIDE DEF e
    <2>3. Sends(e, TRUE)
      BY <2>1, <2>2 DEF Sends
    <2>4. \A b \in Subscribers : \A fp \in Fps \ suspect[b] : Says(e, fp) <=> fp \in firing
      BY <2>1, <2>2, NotOvertaken DEF GuiInv
    <2> QED
      BY <1>0, <1>1, <1>2, <2>2, <2>3, <2>4, SendingStep
  <1> QED
    BY <1>3, <1>4

\* A step of one browser: the others keep what they have, and it is itself right
\* about what nobody suspects.
LEMMA OneBrowser ==
    ASSUME GuiInv, NEW b \in Subscribers,
           UNCHANGED <<firing, handler, syslog, request, scan, clear>>,
           suspect' = [d \in Subscribers |-> SuspectNext(d)],
           GuiTypeOK',
           \A d \in Subscribers \ {b} :
              stage'[d] = stage[d] /\ feed'[d] = feed[d] /\ shown'[d] = shown[d],
           stage'[b] \in {"reading", "unsubscribed"} =>
              \A fp \in Fps \ suspect'[b] : (fp \in shown'[b]) <=> (fp \in firing),
           stage'[b] = "live" /\ ~feed'[b].lagged =>
              \A fp \in Fps \ suspect'[b] :
                 fp \in UntoldFps \/ LeadsTo(feed'[b].unread, shown'[b], fp, fp \in firing)
    PROVE  GuiInv'
  <1> USE DEF GuiInv
  <1>1. UntoldFps' = UntoldFps /\ Fps' = Fps
    BY DEF Untold, UntoldFps, Fps, AgentFps, PeerFps
  <1>2. SuspectCovers'
    BY SuspectFacts DEF SuspectCovers
  <1>3. ASSUME NEW d \in Subscribers, stage'[d] \in {"reading", "unsubscribed"},
               NEW fp \in Fps \ suspect'[d]
        PROVE  (fp \in shown'[d]) <=> (fp \in firing')
    <2>1. CASE d = b
      BY <1>3, <2>1
    <2>2. CASE d # b
      <3>1. fp \notin suspect[d] /\ stage[d] = stage'[d] /\ shown'[d] = shown[d]
        BY <1>3, <2>2, SuspectFacts
      <3> QED
        BY <1>3, <3>1 DEF ReadingAgrees
    <2> QED
      BY <2>1, <2>2
  <1>4. ASSUME NEW d \in Subscribers, stage'[d] = "live", ~feed'[d].lagged,
               NEW fp \in Fps \ suspect'[d], fp \notin UntoldFps
        PROVE  LeadsTo(feed'[d].unread, shown'[d], fp, fp \in firing')
    <2>1. CASE d = b
      BY <1>4, <2>1
    <2>2. CASE d # b
      <3>1. /\ fp \notin suspect[d] /\ stage[d] = "live" /\ ~feed[d].lagged
            /\ feed'[d] = feed[d] /\ shown'[d] = shown[d]
        BY <1>4, <2>2, SuspectFacts
      <3>2. LeadsTo(feed[d].unread, shown[d], fp, fp \in firing)
        BY <1>4, <3>1 DEF FeedAgrees
      <3> QED
        BY <3>1, <3>2
    <2> QED
      BY <2>1, <2>2
  <1>5. ReadingAgrees'
    BY <1>1, <1>3 DEF ReadingAgrees
  <1>6. FeedAgrees'
    BY <1>1, <1>4 DEF FeedAgrees
  <1> QED
    BY <1>2, <1>5, <1>6

\* ws_subscribe.rs handle_socket and app.js handle, step by step.
LEMMA SocketGui ==
    ASSUME IInv, GuiInv, NEW b \in Subscribers,
           Open(b) \/ SendSnapshot(b) \/ Subscribe(b) \/ Close(b) \/ Lagged(b) \/ Receive(b),
           suspect' = [d \in Subscribers |-> SuspectNext(d)]
    PROVE  GuiInv'
  <1>0. UNCHANGED <<firing, handler, syslog, request, scan, clear>>
    BY DEF Open, SendSnapshot, Subscribe, Close, Lagged, Receive, SetFeed, vars
  <1>1. /\ stage \in [Subscribers -> {"closed", "reading", "unsubscribed", "live"}]
        /\ shown \in [Subscribers -> SUBSET Fps] /\ feed \in [Subscribers -> Receiver \cup {None}]
        /\ clear \in [Wipes -> (SUBSET Fps) \cup {None}] /\ firing \subseteq Fps
        /\ \A d \in Subscribers : (feed[d] # None) <=> (stage[d] = "live")
    BY DEF GuiInv, GuiTypeOK, IInv, TypeOK
  <1>2. None \notin Receiver /\ <<>> \in Seq(Event)
    BY GuiAssumption
  <1>3. CASE Open(b)
    <2>1. /\ stage[b] = "closed" /\ feed' = feed
          /\ stage' = [stage EXCEPT ![b] = "reading"] /\ shown' = [shown EXCEPT ![b] = firing]
      BY <1>3 DEF Open, vars
    <2>2. GuiTypeOK'
      BY <1>0, <1>1, <2>1 DEF GuiTypeOK
    <2> QED
      BY <1>0, <1>1, <2>1, <2>2, OneBrowser
  <1>4. CASE SendSnapshot(b)
    <2>1. /\ stage[b] = "reading" /\ feed' = feed /\ shown' = shown
          /\ stage' = [stage EXCEPT ![b] = "unsubscribed"]
      BY <1>4 DEF SendSnapshot, vars
    <2>2. GuiTypeOK'
      BY <1>0, <1>1, <2>1 DEF GuiTypeOK
    <2>3. \A fp \in Fps \ suspect'[b] : (fp \in shown'[b]) <=> (fp \in firing)
      BY <2>1, SuspectFacts DEF GuiInv, ReadingAgrees
    <2> QED
      BY <1>0, <1>1, <2>1, <2>2, <2>3, OneBrowser
  <1>5. CASE Subscribe(b)
    <2> DEFINE f == [unread |-> <<>>, lagged |-> FALSE]
    <2>1. /\ stage[b] = "unsubscribed" /\ feed' = [feed EXCEPT ![b] = f] /\ shown' = shown
          /\ stage' = [stage EXCEPT ![b] = "live"]
      BY <1>5 DEF Subscribe, SetFeed
    <2>2. f \in Receiver
      BY <1>2 DEF Receiver
    <2>3. f.unread = <<>>
      OBVIOUS
    <2> HIDE DEF f
    <2>4. GuiTypeOK'
      BY <1>0, <1>1, <1>2, <2>1, <2>2 DEF GuiTypeOK
    <2>5. ASSUME NEW fp \in Fps \ suspect'[b]
          PROVE  LeadsTo(feed'[b].unread, shown'[b], fp, fp \in firing)
      <3>1. (fp \in shown[b]) <=> (fp \in firing)
        BY <2>1, SuspectFacts DEF GuiInv, ReadingAgrees
      <3>2. feed'[b].unread = <<>>
        BY <1>1, <2>1, <2>3
      <3> DEFINE v == fp \in firing
      <3> HIDE DEF v
      <3>3. (fp \in shown[b]) <=> v
        BY <3>1 DEF v
      <3>4. LeadsTo(<<>>, shown[b], fp, v)
        BY <3>3, LeadsToEmpty
      <3> QED
        BY <2>1, <3>2, <3>4 DEF v
    <2> QED
      BY <1>0, <1>1, <2>1, <2>4, <2>5, OneBrowser
  <1>6. CASE Close(b) \/ Lagged(b)
    <2>1. /\ feed' = [feed EXCEPT ![b] = None] /\ shown' = shown
          /\ stage' = [stage EXCEPT ![b] = "closed"]
      BY <1>6 DEF Close, Lagged, SetFeed
    <2>2. GuiTypeOK'
      BY <1>0, <1>1, <2>1 DEF GuiTypeOK
    <2> QED
      BY <1>0, <1>1, <2>1, <2>2, OneBrowser
  <1>7. CASE Receive(b)
    <2> DEFINE u == feed[b].unread
               s == ShownAfter(shown[b], Head(u))
               f == [feed[b] EXCEPT !.unread = Tail(u)]
    <2>1. /\ stage[b] = "live" /\ ~feed[b].lagged /\ u # <<>> /\ stage' = stage
          /\ feed' = [feed EXCEPT ![b] = f] /\ shown' = [shown EXCEPT ![b] = s]
      BY <1>1, <1>7 DEF Receive, SetFeed
    <2>2. feed[b] \in Receiver
      BY <1>1, <2>1
    <2>3. u \in Seq(Event)
      BY <2>2 DEF Receiver
    <2>4. Tail(u) \in Seq(Event) /\ Head(u) \in Event
      <3>1. Tail(u) \in Seq(Event) /\ Head(u) = u[1] /\ 1 \in DOMAIN u
        BY <2>1, <2>3, TailFacts
      <3> QED
        BY <2>3, <3>1, ElementOfSeq
    <2>5. f \in Receiver /\ f.unread = Tail(u)
      BY <2>2, <2>4 DEF Receiver
    <2>6. s \subseteq Fps
      <3>1. shown[b] \subseteq Fps
        BY <1>1
      <3>2. CASE Head(u) \in [type : {"alert"}, fp : Fps, state : States]
        BY <3>1, <3>2 DEF ShownAfter, States
      <3>3. CASE Head(u) \in [type : {"snapshot"}, alerts : SUBSET Fps]
        BY <3>3 DEF ShownAfter
      <3>4. CASE Head(u) = HostEvent
        BY <3>1, <3>4 DEF ShownAfter, HostEvent
      <3> QED
        BY <2>4, <3>2, <3>3, <3>4 DEF Event
    <2>7. ASSUME NEW fp \in Fps \ suspect'[b], fp \notin UntoldFps
          PROVE  LeadsTo(Tail(u), s, fp, fp \in firing)
      <3>1. LeadsTo(u, shown[b], fp, fp \in firing)
        BY <2>1, <2>7, SuspectFacts DEF GuiInv, FeedAgrees
      <3> QED
        BY <2>1, <2>3, <3>1, LeadsToTail
    <2> HIDE DEF u, s, f
    <2>8. GuiTypeOK'
      BY <1>0, <1>1, <1>2, <2>1, <2>5, <2>6 DEF GuiTypeOK
    <2>9. feed'[b].unread = Tail(u) /\ shown'[b] = s
      BY <1>1, <2>1, <2>5
    <2>10. \A d \in Subscribers \ {b} :
              stage'[d] = stage[d] /\ feed'[d] = feed[d] /\ shown'[d] = shown[d]
      BY <1>1, <2>1
    <2>11. stage'[b] = "live"
      BY <2>1
    <2>12. \A fp \in Fps \ suspect'[b] :
              fp \in UntoldFps \/ LeadsTo(feed'[b].unread, shown'[b], fp, fp \in firing)
      BY <2>7, <2>9
    <2> QED
      BY <1>0, <2>8, <2>10, <2>11, <2>12, OneBrowser, Zenon
  <1> QED
    BY <1>3, <1>4, <1>5, <1>6, <1>7

\* A new process has no subscriber and nothing to tell.
LEMMA FreshGui ==
    ASSUME firing = {}, syslog = {}, scan = None, handler = [c \in Conns |-> Idle(FALSE)],
           request = [o \in Operators |-> None], clear = [w \in Wipes |-> None]
    PROVE  Untold = {} /\ Overtaken = {}
  <1>1. \A c \in Conns : handler[c].stage = "reading"
    BY DEF Idle
  <1>2. Untold = {}
    BY <1>1, UntoldSources
  <1> QED
    BY <1>2 DEF Overtaken

LEMMA GuiInitInv == GuiInit => GuiInv
  <1> SUFFICES ASSUME GuiInit PROVE GuiInv
    OBVIOUS
  <1>1. Overtaken = {}
    BY FreshGui DEF GuiInit, Init
  <1>2. GuiTypeOK
    BY DEF GuiInit, Init, GuiTypeOK
  <1> QED
    BY <1>1, <1>2 DEF GuiInit, GuiInv, SuspectCovers, ReadingAgrees, FeedAgrees

LEMMA RestartGui ==
    ASSUME GuiInv, RestartAll, suspect' = [b \in Subscribers |-> SuspectNext(b)]
    PROVE  GuiInv'
  <1>1. /\ stage' = [b \in Subscribers |-> "closed"] /\ feed' = [b \in Subscribers |-> None]
        /\ clear' = [w \in Wipes |-> None] /\ shown' = shown
    BY DEF RestartAll, Restart
  <1>2. GuiTypeOK'
    BY <1>1 DEF GuiInv, GuiTypeOK
  <1>3. SuspectCovers'
    BY SuspectFacts DEF SuspectCovers
  <1> QED
    BY <1>1, <1>2, <1>3 DEF GuiInv, ReadingAgrees, FeedAgrees

\* A step of GuiFeed is a step of the collector, or leaves it alone.
LEMMA GuiStepIsNext ==
    ASSUME IInv, GuiStep
    PROVE  IInv'
  <1>1. CASE CollectorStep \/ RestartAll
    <2>1. Next
      BY <1>1 DEF CollectorStep, RestartAll, Next
    <2> QED
      BY <2>1, NextIInv
  <1>2. CASE ~(CollectorStep \/ RestartAll)
    <2>1. UNCHANGED <<now, hosts, firing, queued, handler, syslog, request, online, scan, leaked>>
      BY <1>2 DEF GuiStep, ClearHistory, ClearTell, Open, SendSnapshot, Subscribe, Close, Lagged,
                  Receive, SetFeed, vars
    <2> QED
      BY <2>1 DEF IInv, TypeOK, Books, Balanced, Of, OwedIn, Owes, HandlersKnow, Known, ScanKnows,
                  OfflineAlertJustified, OfflineFp
  <1> QED
    BY <1>1, <1>2

LEMMA GuiNextInv ==
    ASSUME IInv, GuiInv, [GuiNext]_allVars
    PROVE  IInv' /\ GuiInv'
  <1>1. CASE GuiNext
    <2>1. IInv'
      BY <1>1, GuiStepIsNext DEF GuiNext
    <2>2. GuiInv'
      BY <1>1, CollectorGui, ClearGui, SocketGui, RestartGui DEF GuiNext, GuiStep
    <2> QED
      BY <2>1, <2>2
  <1>2. CASE UNCHANGED allVars
    <2>1. UNCHANGED vars /\ UNCHANGED <<stage, shown, clear, suspect>>
      BY <1>2 DEF allVars, gui
    <2>2. IInv'
      BY <2>1, NextIInv
    <2>3. UNCHANGED <<feed, firing, handler, syslog, request, scan>>
      BY <2>1 DEF vars
    <2>4. Untold' = Untold
      BY <2>3 DEF Untold
    <2>5. Overtaken' = Overtaken /\ UntoldFps' = UntoldFps
      BY <2>1, <2>3, <2>4 DEF Overtaken, UntoldFps
    <2>6. GuiInv'
      BY <2>1, <2>3, <2>5 DEF GuiInv, GuiTypeOK, SuspectCovers, ReadingAgrees, FeedAgrees
    <2> QED
      BY <2>2, <2>6
  <1> QED
    BY <1>1, <1>2

\* A browser that has received everything has no event left that leads elsewhere.
LEMMA GuiAgrees == GuiInv => ViewAgrees
  <1> SUFFICES ASSUME GuiInv, NEW b \in Subscribers, CaughtUp(b),
                      NEW fp \in Fps \ (suspect[b] \cup UntoldFps)
               PROVE  (fp \in shown[b]) <=> (fp \in firing)
    BY DEF ViewAgrees, UntoldFps
  <1>1. LeadsTo(<<>>, shown[b], fp, fp \in firing)
    BY DEF CaughtUp, GuiInv, FeedAgrees
  <1> DEFINE v == fp \in firing
  <1> HIDE DEF v
  <1>2. LeadsTo(<<>>, shown[b], fp, v)
    BY <1>1 DEF v
  <1>3. (fp \in shown[b]) <=> v
    BY <1>2, LeadsToEmpty
  <1> QED
    BY <1>3 DEF v

\* ws_subscribe.rs, http.rs, app.js handle: for every number of browsers, agents,
\* syslog senders, operators and history wipes, every ring capacity and every
\* interleaving, a browser that has received everything shows exactly the firing
\* map, but for the alerts it is suspected on and those still to be broadcast;
\* and a receiver exists exactly while its socket is subscribed.
THEOREM FeedIsTruthful == GuiSpec => [](GuiTypeOK /\ ViewAgrees)
  <1>1. GuiInit => IInv /\ GuiInv
    BY InitIInv, GuiInitInv DEF GuiInit
  <1>2. IInv /\ GuiInv /\ [GuiNext]_allVars => (IInv /\ GuiInv)'
    BY GuiNextInv
  <1>3. IInv /\ GuiInv => GuiTypeOK /\ ViewAgrees
    BY GuiAgrees DEF GuiInv
  <1> QED
    BY <1>1, <1>2, <1>3, PTL DEF GuiSpec

-----------------------------------------------------------------------------
(* The parts side by side.                                                 *)

\* A behaviour of MCBrowser follows one part, and the others stand still.
LEMMA OneScene ==
    ASSUME [BrowserNext]_browserVars
    PROVE  /\ scene' = scene
           /\ scene \in GuiScenes => [GuiNext]_allVars
           /\ scene = "history" => [History!Next]_History!vars
           /\ scene = "notify" => [Notify!Next]_Notify!vars
  <1>1. CASE UNCHANGED browserVars
    BY <1>1 DEF browserVars, guiOnly, historyOnly, notifyOnly, allVars, vars, gui,
       History!vars, History!store, History!browser, History!wipe, Notify!vars
  <1>2. CASE BrowserNext
    BY <1>2 DEF BrowserNext, GuiScenes
  <1> QED
    BY <1>1, <1>2

\* ws_subscribe.rs, app.js handle: the property that MCBrowser checks, for every
\* value of the constants.
THEOREM BrowsersAgree == BrowserSpec => []ViewsAgree
  <1> DEFINE I == scene \in GuiScenes => IInv /\ GuiInv
  <1>1. BrowserInit => I
    BY InitIInv, GuiInitInv DEF BrowserInit, GuiScenes, GuiInit
  <1>2. I /\ [BrowserNext]_browserVars => I'
    BY OneScene, GuiNextInv
  <1>3. I => ViewsAgree
    BY GuiAgrees DEF ViewsAgree
  <1> QED
    BY <1>1, <1>2, <1>3, PTL DEF BrowserSpec

\* app.js shouldNotify, handle: an alarm that is new to a loaded browser whose
\* user wants it pops up, and only once until its resolution is seen, however
\* often the browser reconnects and the settings change; the exception is one
\* that was resolved while the browser was away.
THEOREM AlarmsPopOnce == BrowserSpec => []AlarmPopsOnce
  <1> DEFINE I == scene = "notify" => Notify!IInv
  <1>1. BrowserInit => I
    BY NotifyFacts DEF BrowserInit, GuiScenes
  <1>2. I /\ [BrowserNext]_browserVars => I'
    BY OneScene, NotifyStep
  <1>3. I => AlarmPopsOnce
    BY NotifyFacts DEF AlarmPopsOnce
  <1> QED
    BY <1>1, <1>2, <1>3, PTL DEF BrowserSpec

\* store.rs clear_all and spawn_writer, http.rs api_clear_history, app.js
\* fetchHistory: for every capacity, limit and number of alerts, wipes,
\* connections and fetches, of the alerts accepted before a wipe only those come
\* back to the table that were queued or in the writer's hand, and a browser at
\* rest lists none but these and the one whose broadcast was still to come.  The
\* two exceptions are those of the property: an overtaken answer, and a wipe told
\* between the browser's snapshot and its subscription.
THEOREM WipesAreHonoured ==
    ASSUME HistoryCap \in Nat, Limit \in Nat
    PROVE  BrowserSpec => []WipeHonoured
  <1> DEFINE I == scene = "history" => History!IInv
  <1>1. BrowserInit => I
    BY HistoryInit DEF BrowserInit, GuiScenes
  <1>2. I /\ [BrowserNext]_browserVars => I'
    BY OneScene, HistoryNext
  <1>3. I => WipeHonoured
    BY HistoryClean DEF WipeHonoured
  <1> QED
    BY <1>1, <1>2, <1>3, PTL DEF BrowserSpec

\* app.js fetchHistory, pushHistory, store.rs list_recent: for every capacity,
\* limit and number of alerts, wipes, connections and fetches, a stored alert
\* that a browser at rest does not list was not pushed since the answer came, and
\* if it was in the table when the browser asked, then as many newer alerts as
\* the answer holds were accepted.
THEOREM GapsAreExplained ==
    ASSUME HistoryCap \in Nat, Limit \in Nat
    PROVE  BrowserSpec => []HistoryGapsExplained
  <1> DEFINE I == scene = "history" => History!IInv /\ History!GapInv
  <1>1. BrowserInit => I
    BY HistoryInit, GapInit DEF BrowserInit, GuiScenes
  <1>2. I /\ [BrowserNext]_browserVars => I'
    BY OneScene, HistoryNext, GapNext
  <1>3. I => HistoryGapsExplained
    BY GapsExplained DEF HistoryGapsExplained
  <1> QED
    BY <1>1, <1>2, <1>3, PTL DEF BrowserSpec
=============================================================================
