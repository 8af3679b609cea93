-------------------------- MODULE CollectorProofs --------------------------
(***************************************************************************)
(* For every number of hosts, metrics, connections and operators: the      *)
(* collector's types, what a firing_count is made of, and that host_offline *)
(* fires only on a verdict.                                                *)
(***************************************************************************)
EXTENDS Collector, FiniteSetTheorems, TLAPS

Of(S, h) == {fp \in S : fp[1] = h}

Owes(v, h) == v # None /\ v.stage = "removed" /\ v.fp[1] = h

OwedIn(r, h) == {o \in Operators : Owes(r[o], h)}

\* The books of one host, as a relation between the four pieces of state.
Balanced(H, F, R, L, h) ==
    IF H[h] = None
    THEN Of(F, h) = {} /\ OwedIn(R, h) = {} /\ L[h] = 0
    ELSE H[h].firing_count = Cardinality(Of(F, h)) + Cardinality(OwedIn(R, h)) + L[h]

Books == \A h \in Agents : Balanced(hosts, firing, request, leaked, h)

\* A handler about to apply an alert has made its host known.
HandlersKnow ==
    \A c \in Conns : handler[c].stage # "reading" =>
        /\ handler[c].fp \in Agents \X Metrics
        /\ handler[c].state \in States
        /\ Known(handler[c].fp[1])

\* Hosts are never forgotten: those of a pass are still known when judged.
ScanKnows ==
    scan # None => \A h \in scan.todo : Known(h) /\ scan.clone[h] # None

IInv == TypeOK /\ Books /\ HandlersKnow /\ ScanKnows /\ OfflineAlertJustified

-----------------------------------------------------------------------------
(* Sets of alerts and of requests.                                         *)

\* A host has finitely many fingerprints.
LEMMA OfFinite ==
    ASSUME NEW S \in SUBSET Fps, NEW h \in Agents
    PROVE  IsFiniteSet(Of(S, h))
<1>1. IsFiniteSet({h}) /\ IsFiniteSet(Metrics \cup {"host_offline"})
  BY FS_Singleton, FS_AddElement, CollectorAssumption
<1>2. IsFiniteSet({h} \X (Metrics \cup {"host_offline"}))
  BY <1>1, FS_Product
<1>3. Of(S, h) \subseteq {h} \X (Metrics \cup {"host_offline"})
  BY CollectorAssumption DEF Of, Fps, AgentFps, PeerFps
<1> QED BY <1>2, <1>3, FS_Subset

\* Adding a fingerprint adds one to its own host, if it was not there.
LEMMA OfAdd ==
    ASSUME NEW S \in SUBSET Fps, NEW fp \in Fps, NEW h \in Agents
    PROVE  /\ fp[1] = h /\ fp \notin S
                => Cardinality(Of(S \cup {fp}, h)) = Cardinality(Of(S, h)) + 1
           /\ ~(fp[1] = h /\ fp \notin S) => Of(S \cup {fp}, h) = Of(S, h)
<1>1. ASSUME fp[1] = h, fp \notin S
      PROVE  Cardinality(Of(S \cup {fp}, h)) = Cardinality(Of(S, h)) + 1
  <2>1. Of(S \cup {fp}, h) = Of(S, h) \cup {fp} /\ fp \notin Of(S, h)
    BY <1>1 DEF Of
  <2> QED BY <2>1, OfFinite, FS_AddElement
<1> QED BY <1>1 DEF Of

\* Removing a fingerprint takes one from its own host, if it was there.
LEMMA OfRemove ==
    ASSUME NEW S \in SUBSET Fps, NEW fp \in Fps, NEW h \in Agents
    PROVE  /\ fp[1] = h /\ fp \in S
                => /\ Cardinality(Of(S \ {fp}, h)) = Cardinality(Of(S, h)) - 1
                   /\ Of(S, h) # {}
           /\ ~(fp[1] = h /\ fp \in S) => Of(S \ {fp}, h) = Of(S, h)
<1>1. ASSUME fp[1] = h, fp \in S
      PROVE  Cardinality(Of(S \ {fp}, h)) = Cardinality(Of(S, h)) - 1 /\ Of(S, h) # {}
  <2>1. Of(S \ {fp}, h) = Of(S, h) \ {fp} /\ fp \in Of(S, h)
    BY <1>1 DEF Of
  <2>2. Cardinality(Of(S, h) \ {fp}) = Cardinality(Of(S, h)) - 1
    BY <2>1, OfFinite, FS_RemoveElement
  <2> QED BY <2>1, <2>2
<1> QED BY <1>1 DEF Of

\* Cardinalities of both sets are natural numbers.
LEMMA Counts ==
    ASSUME NEW S \in SUBSET Fps, NEW r, NEW h \in Agents
    PROVE  /\ Cardinality(Of(S, h)) \in Nat
           /\ IsFiniteSet(OwedIn(r, h)) /\ Cardinality(OwedIn(r, h)) \in Nat
<1>1. IsFiniteSet(OwedIn(r, h))
  BY FS_Subset, CollectorAssumption DEF OwedIn
<1> QED BY <1>1, OfFinite, FS_CardinalityType

\* Writing one request changes the owed decrements of h by that request only.
LEMMA OwedPut ==
    ASSUME NEW r \in [Operators -> Request \cup {None}], NEW o \in Operators,
           NEW v \in Request \cup {None}, NEW h \in Agents
    PROVE  LET r2 == [r EXCEPT ![o] = v]
           IN  /\ ~Owes(r[o], h) /\ Owes(v, h) =>
                      Cardinality(OwedIn(r2, h)) = Cardinality(OwedIn(r, h)) + 1
               /\ Owes(r[o], h) /\ ~Owes(v, h) =>
                      /\ Cardinality(OwedIn(r2, h)) = Cardinality(OwedIn(r, h)) - 1
                      /\ OwedIn(r, h) # {}
               /\ (Owes(r[o], h) <=> Owes(v, h)) => OwedIn(r2, h) = OwedIn(r, h)
<1> DEFINE r2 == [r EXCEPT ![o] = v]
<1>0. \A q \in Operators : r2[q] = IF q = o THEN v ELSE r[q]
  OBVIOUS
<1> HIDE DEF r2
<1>f. IsFiniteSet(OwedIn(r, h))
  BY Counts
<1>1. ASSUME ~Owes(r[o], h), Owes(v, h)
      PROVE  Cardinality(OwedIn(r2, h)) = Cardinality(OwedIn(r, h)) + 1
  <2>1. OwedIn(r2, h) = OwedIn(r, h) \cup {o} /\ o \notin OwedIn(r, h)
    BY <1>0, <1>1 DEF OwedIn
  <2> QED BY <1>f, <2>1, FS_AddElement
<1>2. ASSUME Owes(r[o], h), ~Owes(v, h)
      PROVE  Cardinality(OwedIn(r2, h)) = Cardinality(OwedIn(r, h)) - 1 /\ OwedIn(r, h) # {}
  <2>1. OwedIn(r2, h) = OwedIn(r, h) \ {o} /\ o \in OwedIn(r, h)
    BY <1>0, <1>2 DEF OwedIn
  <2> QED BY <1>f, <2>1, FS_RemoveElement, ZenonT(60)
<1>3. ASSUME Owes(r[o], h) <=> Owes(v, h)
      PROVE  OwedIn(r2, h) = OwedIn(r, h)
  BY <1>0, <1>3 DEF OwedIn
<1> QED BY <1>1, <1>2, <1>3 DEF r2

-----------------------------------------------------------------------------
(* The three ways hosts is written.                                        *)

HostMap == [Agents -> HostInfo \cup {None}]

\* No count changes, no host is forgotten, a new host starts at zero.
SameCounts(H, G) ==
    \A h \in Agents :
        /\ H[h] # None => G[h] # None /\ G[h].firing_count = H[h].firing_count
        /\ H[h] = None => G[h] = None \/ G[h].firing_count = 0

\* touch_host writes one host's record and leaves its counts and the others alone.
LEMMA TouchFacts ==
    ASSUME NEW h \in Agents, NEW ts \in Nat, hosts \in HostMap
    PROVE  /\ Touch(h, ts) \in HostMap
           /\ SameCounts(hosts, Touch(h, ts))
           /\ Touch(h, ts)[h] # None
<1>1. CASE Known(h)
  <2>1. hosts[h] \in HostInfo
    BY <1>1 DEF HostMap, Known
  <2> DEFINE i == [hosts[h] EXCEPT !.last_seen = ts]
  <2>2. i \in HostInfo /\ i.firing_count = hosts[h].firing_count
    BY <2>1 DEF HostInfo
  <2>3. i # None
    BY <2>2, NoneAssumption
  <2>4. Touch(h, ts) = [hosts EXCEPT ![h] = i]
    BY <1>1 DEF Touch
  <2> HIDE DEF i
  <2>5. Touch(h, ts) \in HostMap /\ Touch(h, ts)[h] = i
    BY <2>2, <2>4 DEF HostMap
  <2>6. \A g \in Agents : g # h => Touch(h, ts)[g] = hosts[g]
    BY <2>4 DEF HostMap
  <2>7. SameCounts(hosts, Touch(h, ts))
    BY <1>1, <2>2, <2>3, <2>5, <2>6 DEF SameCounts, Known
  <2> QED BY <2>3, <2>5, <2>7
<1>2. CASE ~Known(h)
  <2> DEFINE i == [last_seen |-> ts, firing_count |-> 0, maintenance |-> FALSE]
  <2>2. i \in HostInfo /\ i.firing_count = 0
    BY DEF HostInfo
  <2>3. i # None
    BY <2>2, NoneAssumption
  <2>4. Touch(h, ts) = [hosts EXCEPT ![h] = i]
    BY <1>2 DEF Touch
  <2> HIDE DEF i
  <2> QED BY <1>2, <2>2, <2>3, <2>4 DEF HostMap, SameCounts, Known
<1> QED BY <1>1, <1>2

\* register_hello keeps a known host's count and starts a new host at zero.
LEMMA RegisterFacts ==
    ASSUME NEW h \in Agents, NEW ts \in Nat, NEW m \in BOOLEAN, hosts \in HostMap
    PROVE  /\ Register(h, ts, m) \in HostMap
           /\ SameCounts(hosts, Register(h, ts, m))
<1>1. CASE Known(h)
  <2>1. hosts[h] \in HostInfo
    BY <1>1 DEF HostMap, Known
  <2> DEFINE i == [hosts[h] EXCEPT !.maintenance = m]
  <2>2. i \in HostInfo /\ i.firing_count = hosts[h].firing_count
    BY <2>1 DEF HostInfo
  <2>3. i # None
    BY <2>2, NoneAssumption
  <2>4. Register(h, ts, m) = [hosts EXCEPT ![h] = i]
    BY <1>1 DEF Register
  <2> HIDE DEF i
  <2>5. Register(h, ts, m) \in HostMap /\ Register(h, ts, m)[h] = i
    BY <2>2, <2>4 DEF HostMap
  <2>6. \A g \in Agents : g # h => Register(h, ts, m)[g] = hosts[g]
    BY <2>4 DEF HostMap
  <2>7. SameCounts(hosts, Register(h, ts, m))
    BY <1>1, <2>2, <2>3, <2>5, <2>6 DEF SameCounts, Known
  <2> QED BY <2>3, <2>5, <2>7
<1>2. CASE ~Known(h)
  <2> DEFINE i == [last_seen |-> ts, firing_count |-> 0, maintenance |-> m]
  <2>2. i \in HostInfo /\ i.firing_count = 0
    BY DEF HostInfo
  <2>3. i # None
    BY <2>2, NoneAssumption
  <2>4. Register(h, ts, m) = [hosts EXCEPT ![h] = i]
    BY <1>2 DEF Register
  <2> HIDE DEF i
  <2> QED BY <1>2, <2>2, <2>3, <2>4 DEF HostMap, SameCounts, Known
<1> QED BY <1>1, <1>2

\* Bump moves one count by delta, clamped, and makes no host known.
LEMMA BumpFacts ==
    ASSUME NEW h, NEW delta \in {1, -1}, hosts \in HostMap
    PROVE  /\ Bump(h, delta) \in HostMap
           /\ \A g \in Agents :
                 /\ (Bump(h, delta)[g] = None) <=> (hosts[g] = None)
                 /\ g # h => Bump(h, delta)[g] = hosts[g]
           /\ h \in Agents /\ hosts[h] # None =>
                 /\ delta = 1 => Bump(h, delta)[h].firing_count = hosts[h].firing_count + 1
                 /\ delta = -1 /\ hosts[h].firing_count > 0 =>
                        Bump(h, delta)[h].firing_count = hosts[h].firing_count - 1
<1>1. CASE h \in Agents /\ hosts[h] # None
  <2>1. hosts[h] \in HostInfo /\ hosts[h].firing_count \in Nat
    BY <1>1 DEF HostMap, HostInfo
  <2> DEFINE n == hosts[h].firing_count + delta
             k == IF n < 0 THEN 0 ELSE n
             i == [hosts[h] EXCEPT !.firing_count = k]
  <2>k. /\ k \in Nat
        /\ delta = 1 => k = hosts[h].firing_count + 1
        /\ delta = -1 /\ hosts[h].firing_count > 0 => k = hosts[h].firing_count - 1
    BY <2>1
  <2>4. Bump(h, delta) = [hosts EXCEPT ![h] = i]
    BY <1>1 DEF Bump
  <2> HIDE DEF k
  <2>2. i \in HostInfo /\ i.firing_count = k
    BY <2>1, <2>k DEF HostInfo
  <2>3. i # None
    BY <2>2, NoneAssumption
  <2> HIDE DEF i
  <2> QED BY <1>1, <2>k, <2>2, <2>3, <2>4 DEF HostMap
<1>2. CASE ~(h \in Agents /\ hosts[h] # None)
  BY <1>2 DEF Bump
<1> QED BY <1>1, <1>2

-----------------------------------------------------------------------------
(* The books through the steps that write hosts, firing or request.        *)

StateTypes ==
    /\ hosts \in HostMap
    /\ firing \subseteq Fps
    /\ request \in [Operators -> Request \cup {None}]
    /\ leaked \in [Agents -> Nat]

\* The books depend only on the alerts, the counts, the leaks and the requests.
LEMMA SameCountsBooks ==
    ASSUME StateTypes, Books, SameCounts(hosts, hosts'),
           UNCHANGED <<firing, request, leaked>>
    PROVE  Books'
<1> SUFFICES ASSUME NEW h \in Agents
             PROVE  Balanced(hosts', firing, request, leaked, h)
  BY DEF Books
<1>1. Balanced(hosts, firing, request, leaked, h)
  BY DEF Books
<1>2. CASE hosts[h] # None
  BY <1>1, <1>2 DEF Balanced, SameCounts
<1>3. CASE hosts[h] = None
  <2>1. Of(firing, h) = {} /\ OwedIn(request, h) = {} /\ leaked[h] = 0
    BY <1>1, <1>3 DEF Balanced
  <2>2. hosts'[h] = None \/ hosts'[h].firing_count = 0
    BY <1>3 DEF SameCounts
  <2> QED BY <2>1, <2>2, FS_EmptySet DEF Balanced
<1> QED BY <1>2, <1>3

\* apply_alert keeps the books of every host, given that its own is known.
LEMMA ApplyBooks ==
    ASSUME StateTypes, Books, NEW fp \in Fps, NEW st \in States,
           fp[1] \in Agents => Known(fp[1]),
           ApplyAlert(fp, st), UNCHANGED <<request, leaked>>
    PROVE  /\ hosts' \in HostMap /\ firing' \subseteq Fps
           /\ Books'
           /\ \A h \in Agents : Known(h)' <=> Known(h)
<1> USE DEF StateTypes
<1>1. CASE st = "firing" /\ fp \notin firing
  <2>1. hosts' = Bump(fp[1], 1) /\ firing' = firing \cup {fp}
    BY <1>1 DEF ApplyAlert
  <2>2. /\ Bump(fp[1], 1) \in HostMap
        /\ \A g \in Agents :
              /\ (Bump(fp[1], 1)[g] = None) <=> (hosts[g] = None)
              /\ g # fp[1] => Bump(fp[1], 1)[g] = hosts[g]
        /\ fp[1] \in Agents /\ hosts[fp[1]] # None =>
              Bump(fp[1], 1)[fp[1]].firing_count = hosts[fp[1]].firing_count + 1
    BY BumpFacts
  <2>3. ASSUME NEW h \in Agents
        PROVE  Balanced(hosts', firing', request, leaked, h)
    <3>1. Balanced(hosts, firing, request, leaked, h)
      BY DEF Books
    <3>2. CASE h = fp[1]
      <4>1. hosts[h] # None /\ hosts'[h] # None
        BY <2>1, <2>2, <3>2 DEF Known
      <4>2. Cardinality(Of(firing', h)) = Cardinality(Of(firing, h)) + 1
        BY <1>1, <2>1, <3>2, OfAdd
      <4>3. hosts'[h].firing_count = hosts[h].firing_count + 1
        BY <2>1, <2>2, <3>2, <4>1
      <4>4. hosts[h].firing_count \in Nat /\ Cardinality(Of(firing, h)) \in Nat
            /\ Cardinality(OwedIn(request, h)) \in Nat /\ leaked[h] \in Nat
        BY <4>1, Counts DEF HostMap, HostInfo
      <4> QED BY <3>1, <4>1, <4>2, <4>3, <4>4 DEF Balanced
    <3>3. CASE h # fp[1]
      <4>1. Of(firing', h) = Of(firing, h) /\ hosts'[h] = hosts[h]
        BY <2>1, <2>2, <3>3, OfAdd
      <4> QED BY <3>1, <4>1 DEF Balanced
    <3> QED BY <3>2, <3>3
  <2> QED BY <2>1, <2>2, <2>3 DEF Books, Known
<1>2. CASE st = "resolved" /\ fp \in firing
  <2>1. hosts' = Bump(fp[1], -1) /\ firing' = firing \ {fp}
    BY <1>2 DEF ApplyAlert
  <2>2. /\ Bump(fp[1], -1) \in HostMap
        /\ \A g \in Agents :
              /\ (Bump(fp[1], -1)[g] = None) <=> (hosts[g] = None)
              /\ g # fp[1] => Bump(fp[1], -1)[g] = hosts[g]
        /\ fp[1] \in Agents /\ hosts[fp[1]] # None /\ hosts[fp[1]].firing_count > 0 =>
              Bump(fp[1], -1)[fp[1]].firing_count = hosts[fp[1]].firing_count - 1
    BY BumpFacts
  <2>3. ASSUME NEW h \in Agents
        PROVE  Balanced(hosts', firing', request, leaked, h)
    <3>1. Balanced(hosts, firing, request, leaked, h)
      BY DEF Books
    <3>2. CASE h = fp[1]
      <4>1. hosts[h] # None /\ hosts'[h] # None
        BY <2>1, <2>2, <3>2 DEF Known
      <4>2. Cardinality(Of(firing', h)) = Cardinality(Of(firing, h)) - 1
        BY <1>2, <2>1, <3>2, OfRemove
      <4>4. hosts[h].firing_count \in Nat /\ Cardinality(Of(firing, h)) \in Nat
            /\ Cardinality(OwedIn(request, h)) \in Nat /\ leaked[h] \in Nat
            /\ Cardinality(Of(firing', h)) \in Nat
        BY <2>1, <4>1, Counts DEF HostMap, HostInfo
      <4>5. hosts[h].firing_count > 0
        BY <3>1, <4>1, <4>2, <4>4 DEF Balanced
      <4>3. hosts'[h].firing_count = hosts[h].firing_count - 1
        BY <2>1, <2>2, <3>2, <4>1, <4>5
      <4> QED BY <3>1, <4>1, <4>2, <4>3, <4>4 DEF Balanced
    <3>3. CASE h # fp[1]
      <4>1. Of(firing', h) = Of(firing, h) /\ hosts'[h] = hosts[h]
        BY <2>1, <2>2, <3>3, OfRemove
      <4> QED BY <3>1, <4>1 DEF Balanced
    <3> QED BY <3>2, <3>3
  <2> QED BY <2>1, <2>2, <2>3 DEF Books, Known
<1>3. CASE ~(st = "firing" /\ fp \notin firing) /\ ~(st = "resolved" /\ fp \in firing)
  <2>1. firing' = firing /\ hosts' = hosts
    BY <1>3 DEF ApplyAlert, States
  <2> QED BY <2>1 DEF Books, Known
<1> QED BY <1>1, <1>2, <1>3

\* api_resolve: the removal turns a firing alert into an owed decrement.
LEMMA ResolveRemoveBooks ==
    ASSUME StateTypes, Books, NEW o \in Operators, NEW fp \in Fps, ResolveRemove(o, fp)
    PROVE  Books' /\ StateTypes'
<1> USE DEF StateTypes
<1> DEFINE v == [stage |-> "removed", fp |-> fp]
<1>1. v \in Request /\ v # None /\ \A h : Owes(v, h) <=> fp[1] = h
  <2>1. v \in Request
    BY DEF Request
  <2>2. v # None
    BY <2>1, NoneAssumption
  <2> QED BY <2>1, <2>2 DEF Owes
<1> HIDE DEF v
<1>2. /\ fp \in firing /\ firing' = firing \ {fp}
      /\ request[o] = None /\ request' = [request EXCEPT ![o] = v]
      /\ UNCHANGED <<hosts, leaked>>
  BY DEF ResolveRemove, v
<1>3. ASSUME NEW h \in Agents
      PROVE  Balanced(hosts, firing', request', leaked, h)
  <2>1. Balanced(hosts, firing, request, leaked, h)
    BY DEF Books
  <2>0. ~Owes(request[o], h)
    BY <1>2 DEF Owes
  <2>4. Owes(v, h) <=> h = fp[1]
    BY <1>1
  <2>5. v \in Request \cup {None}
    BY <1>1
  <2>6. /\ Owes(v, h) => Cardinality(OwedIn([request EXCEPT ![o] = v], h))
                               = Cardinality(OwedIn(request, h)) + 1
        /\ ~Owes(v, h) => OwedIn([request EXCEPT ![o] = v], h) = OwedIn(request, h)
    BY <2>0, <2>5, OwedPut
  <2>2. CASE h = fp[1]
    <3>1. /\ Cardinality(Of(firing', h)) = Cardinality(Of(firing, h)) - 1
          /\ Of(firing, h) # {}
      BY <1>2, <2>2, OfRemove
    <3>2. Cardinality(OwedIn(request', h)) = Cardinality(OwedIn(request, h)) + 1
      BY <1>2, <2>2, <2>4, <2>6
    <3>3. hosts[h] # None
      BY <2>1, <3>1 DEF Balanced
    <3>4. Cardinality(Of(firing, h)) \in Nat /\ Cardinality(OwedIn(request, h)) \in Nat
          /\ leaked[h] \in Nat
      BY Counts
    <3> QED BY <2>1, <3>1, <3>2, <3>3, <3>4 DEF Balanced
  <2>3. CASE h # fp[1]
    <3>1. Of(firing', h) = Of(firing, h)
      BY <1>2, <2>3, OfRemove
    <3>2. OwedIn(request', h) = OwedIn(request, h)
      BY <1>2, <2>3, <2>4, <2>6
    <3> QED BY <2>1, <3>1, <3>2 DEF Balanced
  <2> QED BY <2>2, <2>3
<1> QED BY <1>1, <1>2, <1>3 DEF Books

\* The decrement settles what the request owed; the clamp does not engage.
LEMMA ResolveDecrementBooks ==
    ASSUME StateTypes, Books, NEW o \in Operators, ResolveDecrement(o)
    PROVE  /\ Books' /\ StateTypes'
           /\ \A h \in Agents : Known(h)' <=> Known(h)
<1> USE DEF StateTypes
<1> DEFINE r == request[o]
           v == [r EXCEPT !.stage = "telling"]
           b == r.fp[1]
<1>0. r \in Request /\ r # None /\ r.stage = "removed" /\ r.fp \in Fps
  BY DEF ResolveDecrement, Request
<1>1. v \in Request /\ v # None /\ \A h : ~Owes(v, h)
  <2>1. v \in Request /\ v.stage = "telling"
    BY <1>0 DEF Request
  <2>2. v # None
    BY <2>1, NoneAssumption
  <2> QED BY <2>1, <2>2 DEF Owes
<1>2. /\ hosts' = Bump(b, -1) /\ request' = [request EXCEPT ![o] = v]
      /\ UNCHANGED <<firing, leaked>>
  BY DEF ResolveDecrement
<1>3. \A h : Owes(request[o], h) <=> b = h
  BY <1>0 DEF Owes
<1> HIDE DEF v, b, r
<1>4. /\ Bump(b, -1) \in HostMap
      /\ \A g \in Agents :
            /\ (Bump(b, -1)[g] = None) <=> (hosts[g] = None)
            /\ g # b => Bump(b, -1)[g] = hosts[g]
      /\ b \in Agents /\ hosts[b] # None /\ hosts[b].firing_count > 0 =>
            Bump(b, -1)[b].firing_count = hosts[b].firing_count - 1
  BY BumpFacts
<1>5. ASSUME NEW h \in Agents
      PROVE  Balanced(hosts', firing, request', leaked, h)
  <2>1. Balanced(hosts, firing, request, leaked, h)
    BY DEF Books
  <2>2. CASE h = b
    <3>1. /\ Cardinality(OwedIn(request', h)) = Cardinality(OwedIn(request, h)) - 1
          /\ OwedIn(request, h) # {}
      BY <1>1, <1>2, <1>3, <2>2, OwedPut
    <3>2. hosts[h] # None /\ hosts'[h] # None
      BY <1>2, <1>4, <2>1, <3>1 DEF Balanced
    <3>3. hosts[h].firing_count \in Nat /\ Cardinality(Of(firing, h)) \in Nat
          /\ Cardinality(OwedIn(request, h)) \in Nat /\ leaked[h] \in Nat
          /\ Cardinality(OwedIn(request', h)) \in Nat
      BY <3>2, Counts DEF HostMap, HostInfo
    <3>4. hosts[h].firing_count > 0
      BY <2>1, <3>1, <3>2, <3>3 DEF Balanced
    <3>5. hosts'[h].firing_count = hosts[h].firing_count - 1
      BY <1>2, <1>4, <2>2, <3>2, <3>4
    <3> QED BY <2>1, <3>1, <3>2, <3>3, <3>5 DEF Balanced
  <2>3. CASE h # b
    <3>1. OwedIn(request', h) = OwedIn(request, h)
      BY <1>1, <1>2, <1>3, <2>3, OwedPut, ZenonT(60)
    <3>2. hosts'[h] = hosts[h]
      BY <1>2, <1>4, <2>3
    <3> QED BY <2>1, <3>1, <3>2 DEF Balanced
  <2> QED BY <2>2, <2>3
<1> QED BY <1>1, <1>2, <1>4, <1>5 DEF Books, Known

-----------------------------------------------------------------------------
(* The inductive invariant.                                                *)

KnownStays == \A h \in Agents : Known(h) => Known(h)'

\* A handler waiting for its next frame is a handler, in stage reading.
LEMMA IdleType ==
    ASSUME NEW g \in BOOLEAN
    PROVE  Idle(g) \in Handler /\ Idle(g).stage = "reading"
BY DEF Idle, Handler

\* The collector starts with empty maps: the inductive invariant holds.
LEMMA InitIInv == Init => IInv
<1> SUFFICES ASSUME Init PROVE IInv
  OBVIOUS
<1>1. TypeOK
  <2>1. Idle(FALSE) \in Handler
    BY IdleType
  <2>2. handler \in [Conns -> Handler]
    BY <2>1 DEF Init
  <2>3. queued \in 0 .. WriterCap /\ now \in Nat
    BY CollectorAssumption DEF Init
  <2>4. hosts \in [Agents -> HostInfo \cup {None}] /\ request \in [Operators -> Request \cup {None}]
    BY DEF Init
  <2>5. /\ online \in [Agents -> {"unknown", "online", "offline"}]
        /\ leaked \in [Agents -> Nat]
    BY DEF Init
  <2>6. firing \subseteq Fps /\ syslog \subseteq Peers /\ scan \in Scan \cup {None}
    BY DEF Init
  <2> QED BY <2>2, <2>3, <2>4, <2>5, <2>6 DEF TypeOK
<1>2. Books
  <2> SUFFICES ASSUME NEW h \in Agents
               PROVE  Balanced(hosts, firing, request, leaked, h)
    BY DEF Books
  <2>1. Of(firing, h) = {} /\ OwedIn(request, h) = {}
    BY DEF Init, Of, OwedIn, Owes
  <2> QED BY <2>1 DEF Init, Balanced
<1>3. HandlersKnow
  <2>1. Idle(FALSE).stage = "reading"
    BY IdleType
  <2> QED BY <2>1 DEF Init, HandlersKnow
<1> QED BY <1>1, <1>2, <1>3 DEF Init, IInv, ScanKnows, OfflineAlertJustified

\* Each conjunct of TypeOK, for a step that expands no definition.
LEMMA TypesOf ==
    ASSUME TypeOK
    PROVE  StateTypes
BY DEF TypeOK, StateTypes, HostMap

\* What the handlers of ws_ingest.rs preserve.
LEMMA IngestIInv ==
    ASSUME IInv, NEW c \in Conns, Ingest(c)
    PROVE  IInv'
<1> USE DEF IInv
<1>0. StateTypes /\ hosts \in HostMap /\ ConnHost[c] \in Agents /\ handler[c] \in Handler
  BY TypesOf, CollectorAssumption DEF StateTypes, TypeOK
<1>g. handler[c].greeted \in BOOLEAN
  BY <1>0 DEF Handler
<1>s. Stamps \subseteq Nat
  BY CollectorAssumption DEF Stamps
<1>1. ASSUME NEW ts \in Stamps, NEW m \in BOOLEAN, Hello(c, ts, m)
      PROVE  IInv'
  <2> DEFINE H == Register(ConnHost[c], ts, m)
  <2>1. H \in HostMap /\ SameCounts(hosts, H)
    BY <1>0, <1>1, <1>s, RegisterFacts
  <2>2. /\ hosts' = H /\ handler' = [handler EXCEPT ![c].greeted = TRUE]
        /\ UNCHANGED <<now, firing, queued, syslog, request, online, scan, leaked>>
    BY <1>1 DEF Hello
  <2> HIDE DEF H
  <2>3. KnownStays
    BY <2>1, <2>2 DEF KnownStays, SameCounts, Known
  <2>4. TypeOK'
    <3>1. handler' \in [Conns -> Handler]
      BY <2>2, <1>0 DEF TypeOK, Handler
    <3> QED BY <2>1, <2>2, <3>1 DEF TypeOK, HostMap
  <2>5. Books'
    BY <1>0, <2>1, <2>2, SameCountsBooks
  <2>6. \A d \in Conns : /\ handler'[d].stage = handler[d].stage
                         /\ handler'[d].fp = handler[d].fp
                         /\ handler'[d].state = handler[d].state
    BY <2>2 DEF TypeOK, Handler
  <2>7. HandlersKnow'
    BY <2>3, <2>6 DEF HandlersKnow, KnownStays
  <2>8. ScanKnows' /\ OfflineAlertJustified'
    BY <2>2, <2>3 DEF TypeOK, Scan, ScanKnows, KnownStays, OfflineAlertJustified, OfflineFp
  <2> QED BY <2>4, <2>5, <2>7, <2>8
<1>2. ASSUME NEW ts \in Stamps, Heartbeat(c, ts)
      PROVE  IInv'
  <2> DEFINE H == Touch(ConnHost[c], ts)
  <2>1. H \in HostMap /\ SameCounts(hosts, H)
    BY <1>0, <1>2, <1>s, TouchFacts
  <2>2. /\ hosts' = H
        /\ UNCHANGED <<now, firing, queued, handler, syslog, request, online, scan, leaked>>
    BY <1>2 DEF Heartbeat
  <2> HIDE DEF H
  <2>3. KnownStays
    BY <2>1, <2>2 DEF KnownStays, SameCounts, Known
  <2>4. TypeOK'
    BY <2>1, <2>2 DEF TypeOK, HostMap
  <2>5. Books'
    BY <1>0, <2>1, <2>2, SameCountsBooks
  <2>7. HandlersKnow'
    BY <2>2, <2>3 DEF HandlersKnow, KnownStays
  <2>8. ScanKnows' /\ OfflineAlertJustified'
    BY <2>2, <2>3 DEF TypeOK, Scan, ScanKnows, KnownStays, OfflineAlertJustified, OfflineFp
  <2> QED BY <2>4, <2>5, <2>7, <2>8
<1>3. ASSUME NEW ts \in Stamps, NEW m \in Metrics, NEW st \in States,
             AlertRead(c, m, st, ts)
      PROVE  IInv'
  <2> DEFINE H == Touch(ConnHost[c], ts)
             fp == <<ConnHost[c], m>>
             r == [greeted |-> handler[c].greeted, stage |-> "applying",
                   fp |-> fp, state |-> st]
  <2>1. H \in HostMap /\ SameCounts(hosts, H) /\ H[ConnHost[c]] # None
    BY <1>0, <1>3, <1>s, TouchFacts
  <2>2. /\ hosts' = H /\ handler' = [handler EXCEPT ![c] = r]
        /\ UNCHANGED <<now, firing, queued, syslog, request, online, scan, leaked>>
    BY <1>3 DEF AlertRead
  <2>r. r \in Handler
    BY <1>0, <1>g, <1>3 DEF Handler, AgentFps
  <2>f. r.fp \in Agents \X Metrics /\ r.fp[1] = ConnHost[c] /\ r.state \in States
    BY <1>0, <1>3
  <2> HIDE DEF H, r
  <2>3. KnownStays
    BY <2>1, <2>2 DEF KnownStays, SameCounts, Known
  <2>4. TypeOK'
    BY <2>1, <2>2, <2>r DEF TypeOK, HostMap
  <2>5. Books'
    BY <1>0, <2>1, <2>2, SameCountsBooks
  <2>6. \A d \in Conns : handler'[d] = IF d = c THEN r ELSE handler[d]
    BY <2>2 DEF TypeOK
  <2>7. HandlersKnow'
    BY <2>1, <2>2, <2>3, <2>f, <2>6 DEF HandlersKnow, KnownStays, Known
  <2>8. ScanKnows' /\ OfflineAlertJustified'
    BY <2>2, <2>3 DEF TypeOK, Scan, ScanKnows, KnownStays, OfflineAlertJustified, OfflineFp
  <2> QED BY <2>4, <2>5, <2>7, <2>8
<1>4. ASSUME AlertApply(c)
      PROVE  IInv'
  <2> DEFINE fp == handler[c].fp
             st == handler[c].state
             r == IF Changed(fp, st) THEN [handler[c] EXCEPT !.stage = "telling"]
                  ELSE Idle(handler[c].greeted)
  <2>1. /\ handler[c].stage = "applying"
        /\ ApplyAlert(fp, st) /\ Persist
        /\ handler' = [handler EXCEPT ![c] = r]
        /\ UNCHANGED <<now, syslog, request, online, scan, leaked>>
    BY <1>4 DEF AlertApply
  <2>2. fp \in Agents \X Metrics /\ st \in States /\ Known(fp[1]) /\ fp \in Fps
    BY <2>1 DEF HandlersKnow, Fps, AgentFps
  <2>r. r \in Handler /\ (r.stage # "reading" => r.fp = fp /\ r.state = st)
    BY <1>0, <1>g, IdleType DEF Handler
  <2>h. fp[2] # "host_offline"
    BY <2>2, CollectorAssumption
  <2>a. firing' \ firing \subseteq {fp}
    BY <2>1 DEF ApplyAlert
  <2> HIDE DEF fp, st, r
  <2>3. /\ hosts' \in HostMap /\ firing' \subseteq Fps /\ Books'
        /\ \A h \in Agents : Known(h)' <=> Known(h)
    BY <1>0, <2>1, <2>2, ApplyBooks
  <2>4. TypeOK'
    BY <2>1, <2>3, <2>r, CollectorAssumption DEF TypeOK, HostMap, Persist
  <2>6. \A d \in Conns : handler'[d] = IF d = c THEN r ELSE handler[d]
    BY <2>1 DEF TypeOK
  <2>7. HandlersKnow'
    BY <2>2, <2>3, <2>r, <2>6 DEF HandlersKnow
  <2>8. ScanKnows'
    BY <2>1, <2>3 DEF ScanKnows, TypeOK, Scan
  <2>9. OfflineAlertJustified'
    BY <2>1, <2>a, <2>h DEF OfflineAlertJustified, OfflineFp
  <2> QED BY <2>3, <2>4, <2>7, <2>8, <2>9
<1>5. ASSUME AlertTell(c) \/ Disconnect(c)
      PROVE  IInv'
  <2>1. \E b \in BOOLEAN : handler' = [handler EXCEPT ![c] = Idle(b)]
    BY <1>5, <1>g DEF AlertTell, Disconnect
  <2>2. UNCHANGED <<now, hosts, firing, queued, syslog, request, online, scan, leaked>>
    BY <1>5 DEF AlertTell, Disconnect
  <2>3. PICK b \in BOOLEAN : handler' = [handler EXCEPT ![c] = Idle(b)]
    BY <2>1
  <2>i. Idle(b) \in Handler /\ Idle(b).stage = "reading"
    BY IdleType
  <2>4. TypeOK'
    BY <2>2, <2>3, <2>i DEF TypeOK
  <2>6. \A d \in Conns : handler'[d] = IF d = c THEN Idle(b) ELSE handler[d]
    BY <2>3 DEF TypeOK
  <2>7. HandlersKnow'
    BY <2>2, <2>i, <2>6 DEF HandlersKnow, Known
  <2>8. Books' /\ ScanKnows' /\ OfflineAlertJustified'
    BY <2>2 DEF Books, ScanKnows, Known, OfflineAlertJustified
  <2> QED BY <2>4, <2>7, <2>8
<1> QED BY <1>1, <1>2, <1>3, <1>4, <1>5 DEF Ingest

\* What syslog_in.rs preserves.
LEMMA SyslogIInv ==
    ASSUME IInv, NEW p \in Peers, SyslogApply(p) \/ SyslogTell(p)
    PROVE  IInv'
<1> USE DEF IInv
<1>0. StateTypes
  BY TypesOf
<1>1. ASSUME SyslogApply(p)
      PROVE  IInv'
  <2> DEFINE fp == <<p, "syslog_event">>
  <2>1. fp \in Fps /\ fp[1] \notin Agents /\ \A h : OfflineFp(h) # fp
    BY CollectorAssumption DEF Fps, PeerFps, OfflineFp
  <2>2. /\ ApplyAlert(fp, "firing") /\ syslog' = syslog \cup {p}
        /\ UNCHANGED <<now, queued, handler, request, online, scan, leaked>>
    BY <1>1 DEF SyslogApply
  <2>a. firing' \ firing \subseteq {fp}
    BY <2>2 DEF ApplyAlert
  <2> HIDE DEF fp
  <2>3. "firing" \in States
    BY DEF States
  <2>4. /\ hosts' \in HostMap /\ firing' \subseteq Fps /\ Books'
        /\ \A h \in Agents : Known(h)' <=> Known(h)
    BY <1>0, <2>1, <2>2, <2>3, ApplyBooks
  <2>5. TypeOK'
    BY <2>2, <2>4 DEF TypeOK, HostMap
  <2>6. HandlersKnow' /\ ScanKnows'
    BY <2>2, <2>4 DEF HandlersKnow, ScanKnows, TypeOK, Scan
  <2>7. OfflineAlertJustified'
    BY <2>1, <2>2, <2>a DEF OfflineAlertJustified
  <2> QED BY <2>4, <2>5, <2>6, <2>7
<1>2. ASSUME SyslogTell(p)
      PROVE  IInv'
  <2>1. /\ syslog' \subseteq syslog
        /\ UNCHANGED <<now, hosts, firing, queued, handler, request, online, scan, leaked>>
    BY <1>2 DEF SyslogTell
  <2> QED BY <2>1 DEF TypeOK, Books, HandlersKnow, ScanKnows, Known, OfflineAlertJustified
<1> QED BY <1>1, <1>2

\* What api_resolve preserves.
LEMMA ResolveIInv ==
    ASSUME IInv, NEW o \in Operators, Resolve(o)
    PROVE  IInv'
<1> USE DEF IInv
<1>0. StateTypes
  BY TypesOf
<1>1. ASSUME NEW fp \in Fps, ResolveRemove(o, fp)
      PROVE  IInv'
  <2>1. Books' /\ StateTypes'
    BY <1>0, <1>1, ResolveRemoveBooks
  <2>2. /\ firing' \subseteq firing
        /\ UNCHANGED <<now, hosts, queued, handler, syslog, online, scan, leaked>>
    BY <1>1 DEF ResolveRemove
  <2>3. TypeOK'
    BY <2>1, <2>2 DEF TypeOK, StateTypes, HostMap
  <2> QED BY <2>1, <2>2, <2>3
          DEF HandlersKnow, ScanKnows, Known, OfflineAlertJustified
<1>2. ASSUME ResolveDecrement(o)
      PROVE  IInv'
  <2>1. Books' /\ StateTypes' /\ \A h \in Agents : Known(h)' <=> Known(h)
    BY <1>0, <1>2, ResolveDecrementBooks
  <2>2. UNCHANGED <<now, firing, queued, handler, syslog, online, scan, leaked>>
    BY <1>2 DEF ResolveDecrement
  <2>3. TypeOK'
    BY <2>1, <2>2 DEF TypeOK, StateTypes, HostMap
  <2>4. HandlersKnow' /\ ScanKnows'
    BY <2>1, <2>2 DEF HandlersKnow, ScanKnows, TypeOK, Scan
  <2> QED BY <2>1, <2>2, <2>3, <2>4 DEF OfflineAlertJustified
<1>3. ASSUME ResolveTell(o)
      PROVE  IInv'
  <2>1. /\ request[o] # None /\ request[o].stage = "telling" /\ Persist
        /\ request' = [request EXCEPT ![o] = None]
        /\ UNCHANGED <<now, hosts, firing, handler, syslog, online, scan, leaked>>
    BY <1>3 DEF ResolveTell
  <2>2. \A h \in Agents : OwedIn(request', h) = OwedIn(request, h)
    BY <2>1 DEF OwedIn, Owes, TypeOK
  <2>3. Books'
    BY <2>1, <2>2 DEF Books, Balanced
  <2>4. TypeOK'
    BY <2>1, CollectorAssumption DEF TypeOK, Persist
  <2> QED BY <2>1, <2>3, <2>4
          DEF HandlersKnow, ScanKnows, Known, OfflineAlertJustified
<1> QED BY <1>1, <1>2, <1>3 DEF Resolve

\* Clearing host_offline without a decrement is what leaked counts.
LEMMA ClearOfflineBooks ==
    ASSUME StateTypes, Books, NEW h \in Agents, Known(h),
           firing' = firing \ {OfflineFp(h)},
           leaked' = [leaked EXCEPT ![h] = IF OfflineFp(h) \in firing THEN @ + 1 ELSE @],
           UNCHANGED <<hosts, request>>
    PROVE  Books'
<1> USE DEF StateTypes
<1> DEFINE fp == OfflineFp(h)
<1>1. fp \in Fps /\ fp[1] = h
  BY DEF OfflineFp, Fps, AgentFps
<1> SUFFICES ASSUME NEW g \in Agents
             PROVE  Balanced(hosts, firing', request, leaked', g)
  BY DEF Books
<1>2. Balanced(hosts, firing, request, leaked, g)
  BY DEF Books
<1> HIDE DEF fp
<1>3. CASE g = h /\ fp \in firing
  <2>1. leaked'[g] = leaked[g] + 1
    BY <1>3 DEF fp
  <2>2. Cardinality(Of(firing', g)) = Cardinality(Of(firing, g)) - 1
    BY <1>1, <1>3, OfRemove DEF fp
  <2>3. Cardinality(Of(firing, g)) \in Nat /\ Cardinality(OwedIn(request, g)) \in Nat
        /\ leaked[g] \in Nat
    BY Counts
  <2> QED BY <1>2, <1>3, <2>1, <2>2, <2>3 DEF Balanced, Known
<1>4. CASE ~(g = h /\ fp \in firing)
  <2>1. leaked'[g] = leaked[g]
    BY <1>4 DEF fp
  <2>2. Of(firing', g) = Of(firing, g)
    BY <1>1, <1>4, OfRemove DEF fp
  <2> QED BY <1>2, <2>1, <2>2 DEF Balanced
<1> QED BY <1>3, <1>4

\* What the offline watcher preserves.
LEMMA WatchHostIInv ==
    ASSUME IInv, NEW h \in Agents, WatchHost(h)
    PROVE  IInv'
<1> USE DEF IInv
<1> DEFINE v == Verdict(h)
           fp == OfflineFp(h)
<1>0. StateTypes
  BY TypesOf
<1>v. v \in {"online", "offline"}
  BY DEF Verdict
<1>f. fp \in Fps /\ fp \in AgentFps /\ fp[1] = h /\ \A g : OfflineFp(g) = fp => g = h
  BY DEF OfflineFp, Fps, AgentFps
<1>1. /\ scan # None /\ scan.tell = None /\ h \in scan.todo
      /\ online' = [online EXCEPT ![h] = v]
      /\ UNCHANGED <<now, queued, handler, syslog, request>>
  BY DEF WatchHost
<1>k. Known(h)
  BY <1>1 DEF ScanKnows
<1>2. scan \in Scan
  BY <1>1 DEF TypeOK
<1>n. \A x \in Scan : x # None
  BY NoneAssumption
<1>o. /\ online' \in [Agents -> {"unknown", "online", "offline"}]
      /\ \A g \in Agents : online'[g] = IF g = h THEN v ELSE online[g]
  BY <1>1, <1>v DEF TypeOK
<1>3. CASE online[h] = v
  <2>1. /\ scan' = [scan EXCEPT !.todo = @ \ {h}]
        /\ UNCHANGED <<hosts, firing>>
    BY <1>3 DEF WatchHost
  <2>2. leaked' = leaked
    BY <1>3 DEF WatchHost, TypeOK
  <2>3. scan' \in Scan /\ scan'.todo \subseteq scan.todo /\ scan'.clone = scan.clone
    BY <1>2, <2>1 DEF Scan
  <2>4. TypeOK'
    BY <1>1, <1>o, <2>1, <2>2, <2>3 DEF TypeOK
  <2>5. Books' /\ HandlersKnow'
    BY <1>1, <2>1, <2>2 DEF Books, HandlersKnow, Known
  <2>6. ScanKnows'
    BY <1>1, <2>1, <2>3 DEF ScanKnows, Known
  <2>7. OfflineAlertJustified'
    BY <1>3, <1>o, <2>1 DEF OfflineAlertJustified
  <2> QED BY <2>4, <2>5, <2>6, <2>7
<1>4. CASE online[h] # v /\ v = "offline"
  <2> DEFINE t == <<fp, "firing">>
  <2>1. /\ ApplyAlert(fp, "firing")
        /\ scan' = [scan EXCEPT !.todo = @ \ {h}, !.tell = t]
    BY <1>4 DEF WatchHost
  <2>2. leaked' = leaked
    BY <1>4 DEF WatchHost, TypeOK
  <2>t. t \in AgentFps \X States
    BY <1>f DEF States
  <2> HIDE DEF t, fp
  <2>3. scan' \in Scan /\ scan'.todo \subseteq scan.todo /\ scan'.clone = scan.clone
    BY <1>2, <2>1, <2>t DEF Scan
  <2>s. "firing" \in States
    BY DEF States
  <2>a. firing' \subseteq firing \cup {fp}
    BY <2>1 DEF ApplyAlert
  <2>b. /\ hosts' \in HostMap /\ firing' \subseteq Fps /\ Books'
        /\ \A g \in Agents : Known(g)' <=> Known(g)
    BY <1>0, <1>1, <1>f, <1>k, <2>1, <2>2, <2>s, ApplyBooks
  <2>4. TypeOK'
    BY <1>1, <1>o, <2>2, <2>3, <2>b DEF TypeOK, HostMap
  <2>5. HandlersKnow'
    BY <1>1, <2>b DEF HandlersKnow
  <2>6. ScanKnows'
    <3>1. scan.todo \subseteq Agents
      BY <1>2 DEF Scan
    <3> QED BY <1>1, <2>3, <2>b, <3>1 DEF ScanKnows
  <2>7. OfflineAlertJustified'
    BY <1>4, <1>f, <1>o, <2>a DEF OfflineAlertJustified
  <2> QED BY <2>4, <2>5, <2>6, <2>7, <2>b
<1>5. CASE online[h] # v /\ v = "online"
  <2> DEFINE t == IF fp \in firing THEN <<fp, "resolved">> ELSE None
  <2>1. /\ firing' = firing \ {fp} /\ UNCHANGED hosts
        /\ scan' = [scan EXCEPT !.todo = @ \ {h}, !.tell = t]
    BY <1>5 DEF WatchHost
  <2>2. leaked' = [leaked EXCEPT ![h] = IF fp \in firing THEN @ + 1 ELSE @]
    BY <1>5 DEF WatchHost
  <2>t. t \in (AgentFps \X States) \cup {None}
    BY <1>f DEF States
  <2>l. leaked' \in [Agents -> Nat]
    BY <2>2 DEF TypeOK
  <2>b. Books'
    BY <1>0, <1>1, <1>k, <2>1, <2>2, ClearOfflineBooks
  <2> HIDE DEF t, fp
  <2>3. scan' \in Scan /\ scan'.todo \subseteq scan.todo /\ scan'.clone = scan.clone
    BY <1>2, <2>1, <2>t DEF Scan
  <2>4. TypeOK'
    BY <1>1, <1>o, <2>1, <2>3, <2>l DEF TypeOK
  <2>5. HandlersKnow'
    BY <1>1, <2>1 DEF HandlersKnow, Known
  <2>6. ScanKnows'
    BY <1>1, <2>1, <2>3 DEF ScanKnows, Known
  <2>7. OfflineAlertJustified'
    BY <1>f, <1>o, <2>1 DEF OfflineAlertJustified, fp
  <2> QED BY <2>4, <2>5, <2>6, <2>7, <2>b
<1> QED BY <1>v, <1>3, <1>4, <1>5

\* What a whole scan of the offline watcher in main.rs preserves, snapshot to end.
LEMMA WatchIInv ==
    ASSUME IInv, Watch
    PROVE  IInv'
<1> USE DEF IInv
<1>1. ASSUME WatchScan
      PROVE  IInv'
  <2> DEFINE s == [at |-> now, clone |-> hosts, todo |-> {h \in Agents : Known(h)},
                   tell |-> None]
  <2>1. scan' = s /\ UNCHANGED <<now, hosts, firing, queued, handler, syslog, request,
                                 online, leaked>>
    BY <1>1 DEF WatchScan
  <2>2. s \in Scan
    BY DEF Scan, TypeOK
  <2>3. s.todo = {h \in Agents : Known(h)} /\ s.clone = hosts
    OBVIOUS
  <2> HIDE DEF s
  <2>4. TypeOK'
    BY <2>1, <2>2 DEF TypeOK
  <2>5. ScanKnows'
    BY <2>1, <2>3 DEF ScanKnows, Known
  <2> QED BY <2>1, <2>4, <2>5
          DEF Books, HandlersKnow, Known, OfflineAlertJustified
<1>2. ASSUME NEW h \in Agents, WatchHost(h)
      PROVE  IInv'
  BY <1>2, WatchHostIInv
<1>3. ASSUME WatchTell
      PROVE  IInv'
  <2>1. /\ scan # None /\ scan' = [scan EXCEPT !.tell = None]
        /\ UNCHANGED <<now, hosts, firing, queued, handler, syslog, request, online, leaked>>
    BY <1>3 DEF WatchTell
  <2>2. scan' \in Scan /\ scan'.todo = scan.todo /\ scan'.clone = scan.clone
    BY <2>1 DEF TypeOK, Scan
  <2>3. TypeOK'
    BY <2>1, <2>2 DEF TypeOK
  <2>4. ScanKnows'
    BY <2>1, <2>2 DEF ScanKnows, Known
  <2> QED BY <2>1, <2>3, <2>4
          DEF Books, HandlersKnow, Known, OfflineAlertJustified
<1>4. ASSUME WatchSleep
      PROVE  IInv'
  <2>1. /\ scan' = None
        /\ UNCHANGED <<now, hosts, firing, queued, handler, syslog, request, online, leaked>>
    BY <1>4 DEF WatchSleep
  <2> QED BY <2>1 DEF TypeOK, Books, HandlersKnow, Known, ScanKnows, OfflineAlertJustified
<1> QED BY <1>1, <1>2, <1>3, <1>4 DEF Watch

\* A restarted collector is in an initial state but for the clock.
LEMMA RestartIInv ==
    ASSUME IInv, Restart
    PROVE  IInv'
<1> USE DEF IInv
<1>1. Idle(FALSE) \in Handler /\ Idle(FALSE).stage = "reading"
  BY IdleType
<1>2. handler' \in [Conns -> Handler] /\ \A c \in Conns : handler'[c].stage = "reading"
  BY <1>1 DEF Restart
<1>3. TypeOK'
  <2>3. queued' \in 0 .. WriterCap /\ now' \in Nat
    BY CollectorAssumption DEF Restart, TypeOK
  <2>4. /\ hosts' \in [Agents -> HostInfo \cup {None}]
        /\ request' \in [Operators -> Request \cup {None}]
    BY DEF Restart
  <2>5. /\ online' \in [Agents -> {"unknown", "online", "offline"}]
        /\ leaked' \in [Agents -> Nat]
    BY DEF Restart
  <2>6. firing' \subseteq Fps /\ syslog' \subseteq Peers /\ scan' \in Scan \cup {None}
    BY DEF Restart
  <2> QED BY <1>2, <2>3, <2>4, <2>5, <2>6 DEF TypeOK
<1>4. Books'
  <2> SUFFICES ASSUME NEW h \in Agents
               PROVE  Balanced(hosts', firing', request', leaked', h)
    BY DEF Books
  <2>1. Of(firing', h) = {} /\ OwedIn(request', h) = {}
    BY DEF Restart, Of, OwedIn, Owes
  <2> QED BY <2>1 DEF Restart, Balanced
<1>5. HandlersKnow'
  BY <1>2 DEF HandlersKnow
<1> QED BY <1>3, <1>4, <1>5 DEF Restart, ScanKnows, OfflineAlertJustified

\* Every step of every task of the collector preserves the inductive invariant.
LEMMA NextIInv == IInv /\ [Next]_vars => IInv'
<1> SUFFICES ASSUME IInv, [Next]_vars PROVE IInv'
  OBVIOUS
<1>1. CASE \E c \in Conns : Ingest(c)
  BY <1>1, IngestIInv
<1>2. CASE \E p \in Peers : SyslogApply(p) \/ SyslogTell(p)
  BY <1>2, SyslogIInv
<1>3. CASE \E o \in Operators : Resolve(o)
  BY <1>3, ResolveIInv
<1>4. CASE Watch
  BY <1>4, WatchIInv
<1>5. CASE WriterTakes \/ Tick
  <2>1. UNCHANGED <<hosts, firing, handler, syslog, request, online, scan, leaked>>
    BY <1>5 DEF WriterTakes, Tick
  <2>2. queued' \in 0 .. WriterCap /\ now' \in Nat
    BY <1>5, CollectorAssumption DEF WriterTakes, Tick, IInv, TypeOK
  <2> QED BY <2>1, <2>2
          DEF IInv, TypeOK, Books, HandlersKnow, ScanKnows, Known, OfflineAlertJustified
<1>6. CASE Restart
  BY <1>6, RestartIInv
<1>7. CASE UNCHANGED vars
  BY <1>7 DEF vars, IInv, TypeOK, Books, HandlersKnow, ScanKnows, Known,
              OfflineAlertJustified
<1> QED BY <1>1, <1>2, <1>3, <1>4, <1>5, <1>6, <1>7 DEF Next

\* The inductive invariant holds in every reachable state of the collector.
LEMMA Invariance == Spec => []IInv
BY InitIInv, NextIInv, PTL DEF Spec

-----------------------------------------------------------------------------
(* The theorems.                                                           *)

\* The collector's maps, handlers, requests and watcher keep their types:
\* firing_count is a natural number, the writer's queue within its capacity.
THEOREM TypeCorrect == Spec => []TypeOK
<1>1. IInv => TypeOK
  BY DEF IInv
<1> QED BY <1>1, Invariance, PTL

\* firing_count is the firing alerts of the host plus the owed and the left-out
\* decrements, in every interleaving of the writers of state.rs, http.rs and
\* main.rs.  So it never understates, and neither clamp at zero is ever needed.
THEOREM CountsAccounted == Spec => []CountAccounted
<1>1. IInv => CountAccounted
  <2> SUFFICES ASSUME IInv, NEW h \in Agents, Known(h)
               PROVE  hosts[h].firing_count
                        = Cardinality(FiringOf(h)) + Cardinality(Owed(h)) + leaked[h]
    BY DEF CountAccounted
  <2>1. FiringOf(h) = Of(firing, h) /\ Owed(h) = OwedIn(request, h)
    BY DEF FiringOf, Of, Owed, OwedIn, Owes
  <2> QED BY <2>1 DEF IInv, Books, Balanced, Known
<1> QED BY <1>1, Invariance, PTL

\* host_offline is in the firing map only while the watcher's last verdict on
\* the host is offline (main.rs).
THEOREM OfflineJustified == Spec => []OfflineAlertJustified
<1>1. IInv => OfflineAlertJustified
  BY DEF IInv
<1> QED BY <1>1, Invariance, PTL
=============================================================================
