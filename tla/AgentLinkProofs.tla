-------------------------- MODULE AgentLinkProofs --------------------------
(***************************************************************************)
(* Theorems about the agent's way out (agent/src/bus.rs, transport.rs,     *)
(* main.rs) for all lane capacities, backoffs, numbers of messages and     *)
(* numbers of connections.                                                 *)
(***************************************************************************)
EXTENDS AgentLink, SequenceTheorems, TLAPS

(***************************************************************************)
(* Types.                                                                  *)
(***************************************************************************)

\* The state main builds before it queues its hello is well typed.
LEMMA InitType == Init => TypeOK
  <1> SUFFICES ASSUME Init PROVE TypeOK
    OBVIOUS
  <1>1. sent \in 0 .. MaxMsgs /\ conn \in 0 .. MaxConns /\ backoff \in MinBackoff .. MaxBackoff
    BY LinkAssumption DEF Init
  <1>2. /\ critical \in Seq(Message) /\ Len(critical) <= CritCap
        /\ normal \in Seq(Message) /\ Len(normal) <= NormCap
    BY LinkAssumption DEF Init
  <1>3. net \in [Conns -> Seq(Message)]
    BY DEF Init
  <1>4. received \in Seq([msg : Message, conn : Conns])
    BY DEF Init
  <1>5. overtook \in [1 .. MaxMsgs -> 0 .. MaxMsgs]
    BY LinkAssumption DEF Init
  <1> QED
    BY <1>1, <1>2, <1>3, <1>4, <1>5 DEF Init, TypeOK

\* try_send never overfills a lane, and appends or leaves the lane alone.
LEMMA TrySendType ==
    ASSUME NEW lane \in Seq(Message), NEW cap \in Nat, Len(lane) <= cap, NEW m \in Message
    PROVE  TrySend(lane, cap, m) \in Seq(Message) /\ Len(TrySend(lane, cap, m)) <= cap
  BY DEF TrySend

\* AlertSink::send keeps both lanes typed and within their capacities.
LEMMA SendType ==
    ASSUME TypeOK, NEW kind \in {"hello", "heartbeat", "alert"}, NEW crit \in BOOLEAN,
           Send(kind, crit)
    PROVE  /\ sent' \in 0 .. MaxMsgs
           /\ critical' \in Seq(Message) /\ Len(critical') <= CritCap
           /\ normal' \in Seq(Message) /\ Len(normal') <= NormCap
  <1> DEFINE m == [id |-> sent + 1, crit |-> crit]
  <1>1. sent \in Nat /\ sent < MaxMsgs /\ sent + 1 \in 1 .. MaxMsgs
    BY LinkAssumption DEF TypeOK, Send
  <1>2. m \in Message
    BY <1>1 DEF Message
  <1>3. CritCap \in Nat /\ NormCap \in Nat
    BY LinkAssumption
  <1>4. /\ TrySend(critical, CritCap, m) \in Seq(Message)
        /\ Len(TrySend(critical, CritCap, m)) <= CritCap
    BY <1>2, <1>3, TrySendType DEF TypeOK
  <1>5. /\ TrySend(normal, NormCap, m) \in Seq(Message)
        /\ Len(TrySend(normal, NormCap, m)) <= NormCap
    BY <1>2, <1>3, TrySendType DEF TypeOK
  <1>6. /\ sent' = sent + 1
        /\ critical' \in {critical, TrySend(critical, CritCap, m)}
        /\ normal' \in {normal, TrySend(normal, NormCap, m)}
    BY DEF Send
  <1> QED
    BY <1>1, <1>4, <1>5, <1>6 DEF TypeOK

\* Every step of the process, the transport and the network keeps the types.
LEMMA NextType ==
    ASSUME TypeOK, [Next]_vars
    PROVE  TypeOK'
  <1>1. CASE Boot
    BY <1>1, SendType DEF Boot, transport, TypeOK
  <1>2. CASE Beat
    BY <1>2, SendType DEF Beat, transport, TypeOK
  <1>3. CASE Stop
    BY <1>3, SendType DEF Stop, transport, TypeOK
  <1>4. ASSUME NEW crit \in BOOLEAN, ModuleAlert(crit)
        PROVE  TypeOK'
    BY <1>4, SendType DEF ModuleAlert, transport, TypeOK
  <1>5. CASE Exit
    <2>1. /\ critical' \in Seq(Message) /\ Len(critical') <= CritCap
          /\ normal' \in Seq(Message) /\ Len(normal') <= NormCap
      BY <1>5, LinkAssumption DEF Exit
    <2> QED
      BY <1>5, <2>1 DEF Exit, TypeOK
  <1>6. CASE ConnectOk
    BY <1>6, LinkAssumption DEF ConnectOk, TypeOK
  <1>7. CASE ConnectFail
    BY <1>7 DEF ConnectFail, TypeOK
  <1>8. CASE SleepDone
    <2>1. backoff' \in MinBackoff .. MaxBackoff
      BY <1>8, LinkAssumption DEF SleepDone, Doubled, TypeOK
    <2> QED
      BY <1>8, <2>1 DEF SleepDone, TypeOK
  <1>9. CASE PollCritical
    <2>1. CASE critical # <<>> /\ shipping' = Head(critical) /\ critical' = Tail(critical)
                 /\ UNCHANGED polling
      <3>1. /\ Head(critical) \in Message /\ Tail(critical) \in Seq(Message)
            /\ Len(Tail(critical)) <= CritCap
        BY <2>1, HeadTailProperties, LinkAssumption DEF TypeOK
      <3> QED
        BY <1>9, <2>1, <3>1 DEF PollCritical, TypeOK
    <2> QED
      BY <1>9, <2>1 DEF PollCritical, TypeOK
  <1>17. CASE PollNormal
    <2>1. CASE /\ normal # <<>> /\ shipping' = Head(normal) /\ normal' = Tail(normal)
               /\ polling' = "critical" /\ overtook' = Overtaken(Head(normal))
      <3>1. /\ Head(normal) \in Message /\ Tail(normal) \in Seq(Message)
            /\ Len(Tail(normal)) <= NormCap
        BY <2>1, HeadTailProperties, LinkAssumption DEF TypeOK
      <3>2. Head(normal).id \in 0 .. MaxMsgs
        BY <3>1, LinkAssumption DEF Message
      <3>3. overtook' \in [1 .. MaxMsgs -> 0 .. MaxMsgs]
        BY <2>1, <3>2 DEF Overtaken, TypeOK
      <3> QED
        BY <1>17, <2>1, <3>1, <3>3 DEF PollNormal, TypeOK
    <2> QED
      BY <1>17, <2>1 DEF PollNormal, TypeOK
  <1>18. CASE Ping \/ NoPing \/ PollSocket
    BY <1>18 DEF Ping, NoPing, PollSocket, Written, TypeOK
  <1>10. CASE SendOk
    <2>1. shipping \in Message /\ net \in [Conns -> Seq(Message)]
      BY <1>10 DEF SendOk, TypeOK
    <2>2. net' = [c \in Conns |-> IF c = conn THEN Append(net[c], shipping) ELSE net[c]]
      BY <1>10, <2>1 DEF SendOk
    <2>3. \A c \in Conns : Append(net[c], shipping) \in Seq(Message)
      BY <2>1
    <2>4. net' \in [Conns -> Seq(Message)]
      BY <2>1, <2>2, <2>3
    <2> QED
      BY <1>10, <2>4 DEF SendOk, Written, TypeOK
  <1>11. CASE SendFail
    BY <1>11 DEF SendFail, TypeOK
  <1>13. CASE Break \/ Vanish \/ GiveUp
    BY <1>13 DEF Break, Vanish, GiveUp, TypeOK
  <1>14. ASSUME NEW c \in Conns, Deliver(c)
         PROVE  TypeOK'
    <2>1. net[c] \in Seq(Message) /\ net[c] # <<>>
      BY <1>14 DEF Deliver, TypeOK
    <2>2. Head(net[c]) \in Message /\ Tail(net[c]) \in Seq(Message)
      BY <2>1
    <2>3. received' \in Seq([msg : Message, conn : Conns])
      BY <1>14, <2>2 DEF Deliver, TypeOK
    <2>4. net' \in [Conns -> Seq(Message)]
      BY <1>14, <2>2 DEF Deliver, TypeOK
    <2> QED
      BY <1>14, <2>3, <2>4 DEF Deliver, TypeOK
  <1>15. ASSUME NEW c \in Conns, Cut(c)
         PROVE  TypeOK'
    <2>1. net' \in [Conns -> Seq(Message)]
      BY <1>15 DEF Cut, TypeOK
    <2> QED
      BY <1>15, <2>1 DEF Cut, TypeOK
  <1>16. CASE UNCHANGED vars
    BY <1>16 DEF vars, TypeOK
  <1> QED
    BY <1>1, <1>2, <1>3, <1>4, <1>5, <1>6, <1>7, <1>8, <1>9, <1>10, <1>11, <1>13,
       <1>14, <1>15, <1>16, <1>17, <1>18 DEF Next

\* The lanes stay within their capacities, the backoff between its bounds and
\* everything else of its type, in every behaviour of the agent.
THEOREM TypeCorrect == Spec => []TypeOK
  <1>1. TypeOK /\ [Next]_vars => TypeOK'
    BY NextType
  <1> QED
    BY <1>1, InitType, PTL DEF Spec

-----------------------------------------------------------------------------
(***************************************************************************)
(* Order: what has left a lane precedes what is in it, along the whole way *)
(* from the lanes over ship() and the sockets to the collector.            *)
(***************************************************************************)

\* Nothing is under way before main sends its hello.
LEMMA InitOrder == Init => IInv
  <1> SUFFICES ASSUME Init PROVE IInv
    OBVIOUS
  <1>1. Len(critical) = 0 /\ Len(normal) = 0 /\ Len(received) = 0 /\ shipping = None
    BY DEF Init
  <1>2. \A c \in Conns : Len(net[c]) = 0
    BY DEF Init
  <1>3. \A m : ~Read(m) /\ ~OnWire(m) /\ ~InHand(m)
    BY <1>1, <1>2 DEF Read, OnWire, InHand
  <1>4. LanesOrdered
    BY <1>1 DEF LanesOrdered
  <1>5. LeftEarlier /\ PassedFresh /\ InHandLast
    BY <1>1, <1>3 DEF LeftEarlier, Left, PassedFresh, InHandLast
  <1>6. WireOrdered /\ ReadEarlier
    BY <1>1, <1>2 DEF WireOrdered, ReadEarlier
  <1>7. ReadOrdered
    BY <1>1 DEF ReadOrdered
  <1> QED
    BY <1>4, <1>5, <1>6, <1>7, InitType DEF IInv

\* A new message gets a number above all others: AlertSink::send appends it to
\* one lane or discards it.
LEMMA SendOrder ==
    ASSUME IInv, TypeOK', NEW kind \in {"hello", "heartbeat", "alert"}, NEW crit \in BOOLEAN,
           Send(kind, crit), UNCHANGED <<polling, shipping, net, received, overtook>>
    PROVE  IInv'
  <1> DEFINE m == [id |-> sent + 1, crit |-> crit]
  <1>1. /\ m.id = sent + 1 /\ m.crit = crit /\ sent' = sent + 1 /\ sent \in Nat
        /\ critical \in Seq(Message) /\ normal \in Seq(Message)
    BY LinkAssumption DEF Send, IInv, TypeOK
  <1>2. \/ critical' = critical /\ normal' = normal
        \/ critical' = Append(critical, m) /\ normal' = normal /\ m.crit
        \/ normal' = Append(normal, m) /\ critical' = critical /\ ~m.crit
    BY DEF Send, TrySend
  <1> HIDE DEF m
  <1>3. \A n \in Message : n.id \in Int
    BY DEF Message
  <1>4. /\ \A i \in 1 .. Len(critical) : critical[i] \in Message
        /\ \A i \in 1 .. Len(normal) : normal[i] \in Message
    BY <1>1, ElementOfSeq
  <1>5. LanesOrdered'
    <2> LanesOrdered
      BY DEF IInv
    <2>0. /\ \A i \in 1 .. Len(critical) : critical[i].id <= sent'
          /\ \A i \in 1 .. Len(normal) : normal[i].id <= sent'
      BY <1>1, <1>3, <1>4 DEF LanesOrdered
    <2>1. CASE critical' = critical /\ normal' = normal
      BY <2>0, <2>1, Zenon DEF LanesOrdered
    <2>2. CASE critical' = Append(critical, m) /\ normal' = normal /\ m.crit
      <3>1. /\ Len(critical') = Len(critical) + 1
            /\ \A i \in 1 .. Len(critical') :
                  critical'[i] = IF i = Len(critical) + 1 THEN m ELSE critical[i]
        BY <1>1, <2>2
      <3>2. \A i \in 1 .. Len(critical') : critical'[i].crit /\ critical'[i].id <= sent'
        BY <1>1, <1>3, <1>4, <2>2, <3>1 DEF IInv, LanesOrdered
      <3>3. \A i, j \in 1 .. Len(critical') : i < j => critical'[i].id < critical'[j].id
        <4> SUFFICES ASSUME NEW i \in 1 .. Len(critical'), NEW j \in 1 .. Len(critical'), i < j
                     PROVE  critical'[i].id < critical'[j].id
          OBVIOUS
        <4>1. /\ i \in 1 .. Len(critical) /\ critical'[i] = critical[i]
              /\ critical[i].id \in Int /\ critical[i].id <= sent
          BY <1>1, <1>3, <1>4, <3>1 DEF IInv, LanesOrdered
        <4>2. CASE j = Len(critical) + 1
          BY <1>1, <3>1, <4>1, <4>2
        <4>3. CASE j # Len(critical) + 1
          <5>1. j \in 1 .. Len(critical) /\ critical'[j] = critical[j]
            BY <1>1, <3>1, <4>3
          <5> QED
            BY <4>1, <5>1 DEF IInv, LanesOrdered
        <4> QED
          BY <4>2, <4>3
      <3>4. \A i \in 1 .. Len(critical'), j \in 1 .. Len(normal') :
                critical'[i].id # normal'[j].id
        BY <1>1, <1>3, <1>4, <2>2, <3>1 DEF IInv, LanesOrdered
      <3>5. /\ \A i \in 1 .. Len(normal') : ~normal'[i].crit /\ normal'[i].id <= sent'
            /\ \A i, j \in 1 .. Len(normal') : i < j => normal'[i].id < normal'[j].id
        BY <1>1, <1>3, <1>4, <2>2 DEF IInv, LanesOrdered
      <3> QED
        BY <3>2, <3>3, <3>4, <3>5 DEF LanesOrdered
    <2>3. CASE normal' = Append(normal, m) /\ critical' = critical /\ ~m.crit
      <3>1. /\ Len(normal') = Len(normal) + 1 /\ Len(normal) \in Nat
            /\ \A i \in 1 .. Len(normal') :
                  normal'[i] = IF i = Len(normal) + 1 THEN m ELSE normal[i]
        BY <1>1, <2>3
      <3>2. \A i \in 1 .. Len(normal') : ~normal'[i].crit /\ normal'[i].id <= sent'
        BY <1>1, <2>0, <2>3, <3>1 DEF LanesOrdered
      <3>3. \A i, j \in 1 .. Len(normal') : i < j => normal'[i].id < normal'[j].id
        <4> SUFFICES ASSUME NEW i \in 1 .. Len(normal'), NEW j \in 1 .. Len(normal'), i < j
                     PROVE  normal'[i].id < normal'[j].id
          OBVIOUS
        <4>1. i \in 1 .. Len(normal) /\ normal'[i] = normal[i]
          BY <3>1
        <4>2. normal[i].id \in Int /\ normal[i].id <= sent
          BY <1>3, <1>4, <4>1 DEF LanesOrdered
        <4>3. CASE j = Len(normal) + 1
          BY <1>1, <3>1, <4>1, <4>2, <4>3
        <4>4. CASE j # Len(normal) + 1
          <5>1. j \in 1 .. Len(normal) /\ normal'[j] = normal[j]
            BY <3>1, <4>4
          <5> QED
            BY <4>1, <5>1 DEF LanesOrdered
        <4> QED
          BY <4>3, <4>4
      <3>4. \A i \in 1 .. Len(critical), j \in 1 .. Len(normal') :
                critical[i].id # normal'[j].id
        <4> SUFFICES ASSUME NEW i \in 1 .. Len(critical), NEW j \in 1 .. Len(normal')
                     PROVE  critical[i].id # normal'[j].id
          OBVIOUS
        <4>1. critical[i].id \in Int /\ critical[i].id <= sent
          BY <1>3, <1>4 DEF LanesOrdered
        <4>2. CASE j = Len(normal) + 1
          BY <1>1, <3>1, <4>1, <4>2
        <4>3. CASE j # Len(normal) + 1
          <5>1. j \in 1 .. Len(normal) /\ normal'[j] = normal[j]
            BY <3>1, <4>3
          <5> QED
            BY <5>1 DEF LanesOrdered
        <4> QED
          BY <4>2, <4>3
      <3> QED
        BY <2>0, <2>3, <3>2, <3>3, <3>4, Zenon DEF LanesOrdered
    <2> QED
      BY <1>2, <2>1, <2>2, <2>3
  <1>6. LeftEarlier'
    <2> SUFFICES ASSUME NEW n \in Message, Left(n)'
                 PROVE  /\ n.id <= sent'
                        /\ \A i \in 1 .. Len(critical') : Precedes(n, critical'[i])
                        /\ \A i \in 1 .. Len(normal') : Precedes(n, normal'[i])
      BY DEF LeftEarlier, Precedes, Before
    <2>1. Left(n)
      BY DEF Left, Read, OnWire, InHand
    <2>2. /\ n.id <= sent
          /\ \A i \in 1 .. Len(critical) : Precedes(n, critical[i])
          /\ \A i \in 1 .. Len(normal) : Precedes(n, normal[i])
      BY <2>1 DEF IInv, LeftEarlier
    <2>3. Precedes(n, m)
      BY <1>1, <1>3, <2>2 DEF Precedes, Before
    <2>0. n.id <= sent'
      BY <1>1, <1>3, <2>2
    <2>4. CASE critical' = critical /\ normal' = normal
      BY <2>0, <2>2, <2>4, Zenon
    <2>5. CASE critical' = Append(critical, m) /\ normal' = normal
      <3>1. \A i \in 1 .. Len(critical') : critical'[i] = m \/ \E k \in 1 .. Len(critical) :
                                                critical'[i] = critical[k]
        BY <1>1, <2>5
      <3> QED
        BY <2>0, <2>2, <2>3, <2>5, <3>1
    <2>6. CASE normal' = Append(normal, m) /\ critical' = critical
      <3>1. \A i \in 1 .. Len(normal') : normal'[i] = m \/ \E k \in 1 .. Len(normal) :
                                              normal'[i] = normal[k]
        BY <1>1, <2>6
      <3> QED
        BY <2>0, <2>2, <2>3, <2>6, <3>1
    <2> QED
      BY <1>2, <2>4, <2>5, <2>6
  <1>7. InHandLast' /\ WireOrdered' /\ ReadEarlier' /\ ReadOrdered'
    BY DEF IInv, InHandLast, WireOrdered, ReadEarlier, ReadOrdered, Precedes, Before, Read, OnWire
  <1>8. PassedFresh'
    <2> SUFFICES ASSUME polling # "critical", NEW n \in Message, Left(n),
                        NEW i \in 1 .. Len(critical')
                 PROVE  n.id < critical'[i].id
      BY DEF PassedFresh, Left, Read, OnWire, InHand
    <2>1. n.id \in Int /\ n.id <= sent
      BY <1>3 DEF IInv, LeftEarlier
    <2>2. \A k \in 1 .. Len(critical) : n.id < critical[k].id
      BY DEF IInv, PassedFresh
    <2>3. (i \in 1 .. Len(critical) /\ critical'[i] = critical[i]) \/ critical'[i] = m
      BY <1>1, <1>2
    <2> QED
      BY <1>1, <2>1, <2>2, <2>3
  <1> QED
    BY <1>5, <1>6, <1>7, <1>8 DEF IInv

\* critical.recv() took the head of its lane, which precedes all that stays behind,
\* or found the lane empty.
LEMMA PollCriticalOrder ==
    ASSUME IInv, TypeOK', PollCritical
    PROVE  IInv'
  <1>1. /\ shipping = None /\ UNCHANGED <<sent, normal, net, received, overtook>>
        /\ critical \in Seq(Message) /\ normal \in Seq(Message) /\ polling = "critical"
    BY DEF PollCritical, Polls, IInv, TypeOK
  <1>2. \A n \in Message : n.id \in Int
    BY DEF Message
  <1>3. /\ \A i \in 1 .. Len(critical) : critical[i] \in Message
        /\ \A i \in 1 .. Len(normal) : normal[i] \in Message
    BY <1>1, ElementOfSeq
  <1>4. WireOrdered' /\ ReadEarlier' /\ ReadOrdered'
    BY <1>1 DEF IInv, WireOrdered, ReadEarlier, ReadOrdered, Precedes, Before
  <1>5. \A n : /\ Read(n)' = Read(n) /\ OnWire(n)' = OnWire(n)
               /\ ~InHand(n)
    BY <1>1 DEF Read, OnWire, InHand
  <1>6. CASE /\ critical # <<>> /\ shipping' = Head(critical)
             /\ critical' = Tail(critical) /\ UNCHANGED polling
    <2>1. /\ shipping' = critical[1] /\ 1 \in 1 .. Len(critical)
          /\ Len(critical') = Len(critical) - 1
          /\ \A i \in 1 .. Len(critical') :
                critical'[i] = critical[i + 1] /\ i + 1 \in 1 .. Len(critical)
      BY <1>1, <1>6, HeadTailProperties
    <2>2. LanesOrdered'
      <3> LanesOrdered
        BY DEF IInv
      <3>0. sent' = sent /\ normal' = normal
        BY <1>1
      <3>1. \A i \in 1 .. Len(critical') : critical'[i].crit /\ critical'[i].id <= sent'
        BY <2>1, <3>0 DEF LanesOrdered
      <3>2. \A i, j \in 1 .. Len(critical') : i < j => critical'[i].id < critical'[j].id
        BY <2>1 DEF LanesOrdered
      <3>3. \A i \in 1 .. Len(critical'), j \in 1 .. Len(normal') :
              critical'[i].id # normal'[j].id
        BY <2>1, <3>0, Zenon DEF LanesOrdered
      <3>4. /\ \A i \in 1 .. Len(normal') : ~normal'[i].crit /\ normal'[i].id <= sent'
            /\ \A i, j \in 1 .. Len(normal') : i < j => normal'[i].id < normal'[j].id
        BY <3>0, Zenon DEF LanesOrdered
      <3> QED
        BY <3>1, <3>2, <3>3, <3>4 DEF LanesOrdered
    <2>3. /\ shipping'.id <= sent
          /\ \A i \in 1 .. Len(critical') : Precedes(shipping', critical'[i])
          /\ \A i \in 1 .. Len(normal) : Precedes(shipping', normal[i])
      <3>1. /\ shipping'.id <= sent /\ shipping'.crit
            /\ \A i \in 1 .. Len(critical') : shipping'.id < critical'[i].id
            /\ \A i \in 1 .. Len(normal) : shipping'.id # normal[i].id /\ ~normal[i].crit
        <4> LanesOrdered
          BY DEF IInv
        <4>1. shipping'.id <= sent /\ shipping'.crit
          BY <2>1, Zenon DEF LanesOrdered
        <4>2. ASSUME NEW i \in 1 .. Len(critical') PROVE shipping'.id < critical'[i].id
          <5>1. critical'[i] = critical[i + 1] /\ i + 1 \in 1 .. Len(critical) /\ 1 < i + 1
            BY <2>1
          <5> QED
            BY <2>1, <5>1 DEF LanesOrdered
        <4>3. ASSUME NEW i \in 1 .. Len(normal)
              PROVE  shipping'.id # normal[i].id /\ ~normal[i].crit
          BY <2>1, Zenon DEF LanesOrdered
        <4> QED
          BY <4>1, <4>2, <4>3
      <3>2. \A i \in 1 .. Len(normal) : Precedes(shipping', normal[i])
        BY <3>1, Zenon DEF Precedes, Before
      <3>3. \A i \in 1 .. Len(critical') : Precedes(shipping', critical'[i])
        <4>1. /\ shipping'.id \in Int
              /\ \A i \in 1 .. Len(critical') : critical'[i].id \in Int
          BY <1>2, <1>3, <2>1
        <4> SUFFICES ASSUME NEW i \in 1 .. Len(critical')
                     PROVE  Precedes(shipping', critical'[i])
          OBVIOUS
        <4>2. shipping'.id < critical'[i].id /\ shipping'.id \in Int /\ critical'[i].id \in Int
          BY <3>1, <4>1
        <4>3. shipping'.id # critical'[i].id /\ ~(critical'[i].id < shipping'.id)
          BY <4>2
        <4> QED
          BY <4>2, <4>3, Zenon DEF Precedes, Before
      <3> QED
        BY <3>1, <3>2, <3>3
    <2>4. LeftEarlier'
      <3> SUFFICES ASSUME NEW n \in Message, Left(n) \/ n = shipping'
                   PROVE  /\ n.id <= sent
                          /\ \A i \in 1 .. Len(critical') : Precedes(n, critical'[i])
                          /\ \A i \in 1 .. Len(normal) : Precedes(n, normal[i])
        BY <1>1, <1>5 DEF LeftEarlier, Left, InHand, Precedes, Before
      <3>1. CASE n = shipping'
        BY <2>3, <3>1
      <3>2. CASE Left(n)
        BY <2>1, <3>2 DEF IInv, LeftEarlier
      <3> QED
        BY <3>1, <3>2
    <2>5. InHandLast'
      BY <1>1, <1>5, <2>1 DEF IInv, LeftEarlier, Left, InHandLast, Precedes, Before
    <2>6. PassedFresh'
      BY <1>1, <1>6 DEF PassedFresh
    <2> QED
      BY <1>4, <2>2, <2>4, <2>5, <2>6 DEF IInv
  <1>7. CASE critical = <<>> /\ polling' = "normal" /\ UNCHANGED <<shipping, critical>>
    <2>1. Len(critical') = 0
      BY <1>7
    <2>2. \A n : Left(n)' = Left(n)
      BY <1>1, <1>5, <1>7 DEF Left, InHand
    <2>3. LanesOrdered' /\ InHandLast'
      BY <1>1, <1>7 DEF IInv, LanesOrdered, InHandLast
    <2>4. LeftEarlier' /\ PassedFresh'
      BY <1>1, <1>7, <2>1, <2>2 DEF IInv, LeftEarlier, PassedFresh, Precedes, Before
    <2> QED
      BY <1>4, <2>3, <2>4 DEF IInv
  <1> QED
    BY <1>6, <1>7 DEF PollCritical

\* normal.recv() took the head of its lane: it precedes what stays behind there, and
\* is the one message that overtakes older critical ones, all of which came after
\* everything that left before.
LEMMA PollNormalOrder ==
    ASSUME IInv, TypeOK', PollNormal
    PROVE  IInv'
  <1>1. /\ shipping = None /\ UNCHANGED <<sent, critical, net, received>>
        /\ critical \in Seq(Message) /\ normal \in Seq(Message) /\ polling = "normal"
        /\ overtook \in [1 .. MaxMsgs -> 0 .. MaxMsgs] /\ net \in [Conns -> Seq(Message)]
        /\ received \in Seq([msg : Message, conn : Conns])
    BY DEF PollNormal, Polls, IInv, TypeOK
  <1>2. \A n \in Message : n.id \in Int /\ n.id \in 1 .. MaxMsgs
    BY DEF Message
  <1>3. /\ \A i \in 1 .. Len(critical) : critical[i] \in Message
        /\ \A i \in 1 .. Len(normal) : normal[i] \in Message
    BY <1>1, ElementOfSeq
  <1>5. \A n : /\ Read(n)' = Read(n) /\ OnWire(n)' = OnWire(n)
               /\ ~InHand(n) /\ (Left(n) <=> Read(n) \/ OnWire(n))
    BY <1>1 DEF Read, OnWire, InHand, Left
  <1>6. CASE normal = <<>> /\ polling' = "ping" /\ UNCHANGED <<shipping, normal, overtook>>
    <2>1. \A n : Left(n)' = Left(n)
      BY <1>1, <1>5, <1>6 DEF Left, InHand
    <2>2. LanesOrdered' /\ InHandLast'
      BY <1>1, <1>6 DEF IInv, LanesOrdered, InHandLast
    <2>3. LeftEarlier' /\ PassedFresh'
      BY <1>1, <1>6, <2>1 DEF IInv, LeftEarlier, PassedFresh, Precedes, Before
    <2>4. WireOrdered' /\ ReadEarlier' /\ ReadOrdered'
      <3>1. WireOrdered'
        BY <1>1, <1>6 DEF IInv, WireOrdered, Precedes
      <3>2. ReadEarlier' /\ ReadOrdered'
        BY <1>1, <1>6 DEF IInv, ReadEarlier, ReadOrdered, Precedes
      <3> QED
        BY <3>1, <3>2
    <2> QED
      BY <2>2, <2>3, <2>4 DEF IInv
  <1>7. CASE /\ normal # <<>> /\ shipping' = Head(normal) /\ normal' = Tail(normal)
             /\ polling' = "critical" /\ overtook' = Overtaken(Head(normal))
    <2>1. /\ shipping' = normal[1] /\ 1 \in 1 .. Len(normal)
          /\ Len(normal') = Len(normal) - 1
          /\ \A i \in 1 .. Len(normal') :
                normal'[i] = normal[i + 1] /\ i + 1 \in 1 .. Len(normal)
      BY <1>1, <1>7, HeadTailProperties
    <2>2. LanesOrdered'
      <3> LanesOrdered
        BY DEF IInv
      <3>1. /\ \A i \in 1 .. Len(normal') : ~normal'[i].crit /\ normal'[i].id <= sent'
            /\ \A i \in 1 .. Len(critical'), j \in 1 .. Len(normal') :
                  critical'[i].id # normal'[j].id
        BY <1>1, <2>1 DEF LanesOrdered
      <3>2. \A i, j \in 1 .. Len(normal') : i < j => normal'[i].id < normal'[j].id
        BY <2>1 DEF LanesOrdered
      <3> QED
        BY <1>1, <3>1, <3>2 DEF LanesOrdered
    <2>3. /\ \A i \in 1 .. Len(critical) :
                critical[i].id < normal[1].id => overtook'[critical[i].id] = normal[1].id
          /\ \A b \in 1 .. MaxMsgs :
                (\A i \in 1 .. Len(critical) : critical[i].id # b) => overtook'[b] = overtook[b]
      BY <1>2, <1>3, <1>7, <2>1 DEF Overtaken
    <2>4. \A n \in Message : Read(n) \/ OnWire(n) =>
              /\ n.id <= sent /\ overtook'[n.id] = overtook[n.id]
              /\ \A i \in 1 .. Len(critical) : n.id < critical[i].id
              /\ \A i \in 1 .. Len(normal) : Precedes(n, normal[i])
      <3> SUFFICES ASSUME NEW n \in Message, Left(n)
                   PROVE  /\ n.id <= sent /\ overtook'[n.id] = overtook[n.id]
                          /\ \A i \in 1 .. Len(critical) : n.id < critical[i].id
                          /\ \A i \in 1 .. Len(normal) : Precedes(n, normal[i])
        BY <1>5
      <3>1. /\ n.id <= sent
            /\ \A i \in 1 .. Len(normal) : Precedes(n, normal[i])
        BY DEF IInv, LeftEarlier
      <3>2. \A i \in 1 .. Len(critical) : n.id < critical[i].id
        BY <1>1 DEF IInv, PassedFresh
      <3>3. \A i \in 1 .. Len(critical) : critical[i].id # n.id
        BY <1>2, <1>3, <3>2
      <3> QED
        BY <1>2, <2>3, <3>1, <3>2, <3>3
    <2>5. /\ \A k \in 1 .. Len(received) :
                received[k].msg \in Message /\ Read(received[k].msg)
          /\ \A c \in Conns : \A i \in 1 .. Len(net[c]) :
                net[c][i] \in Message /\ OnWire(net[c][i])
      <3>1. \A k \in 1 .. Len(received) : received[k] \in [msg : Message, conn : Conns]
        BY <1>1, ElementOfSeq
      <3>2. \A c \in Conns : \A i \in 1 .. Len(net[c]) : net[c][i] \in Message
        BY <1>1, ElementOfSeq
      <3> QED
        BY <3>1, <3>2 DEF Read, OnWire
    <2>6. /\ \A k \in 1 .. Len(received) :
                overtook'[received[k].msg.id] = overtook[received[k].msg.id]
          /\ \A c \in Conns : \A i \in 1 .. Len(net[c]) :
                overtook'[net[c][i].id] = overtook[net[c][i].id]
      BY <2>4, <2>5
    <2>7. WireOrdered' /\ ReadEarlier' /\ ReadOrdered'
      <3>1. WireOrdered'
        <4>1. net' = net
          BY <1>1
        <4>2. \A c \in Conns : \A i, j \in 1 .. Len(net[c]) :
                  i < j => Precedes(net[c][i], net[c][j])'
          BY <2>6, <4>1 DEF IInv, WireOrdered, Precedes
        <4> QED
          BY <4>1, <4>2 DEF IInv, WireOrdered
      <3>2. ReadEarlier'
        BY <1>1, <2>6 DEF IInv, ReadEarlier, Precedes
      <3>3. ReadOrdered'
        BY <1>1, <2>6 DEF IInv, ReadOrdered, Precedes
      <3> QED
        BY <3>1, <3>2, <3>3
    <2>8. /\ normal[1] \in Message /\ normal[1].id <= sent /\ ~normal[1].crit
          /\ \A i \in 1 .. Len(critical) : critical[i].id # normal[1].id /\ critical[i].crit
          /\ \A i \in 1 .. Len(normal) : ~normal[i].crit
          /\ \A i \in 1 .. Len(normal') : normal[1].id < normal'[i].id
      <3>1. \A i \in 1 .. Len(normal') : normal[1].id < normal'[i].id
        <4> SUFFICES ASSUME NEW i \in 1 .. Len(normal') PROVE normal[1].id < normal'[i].id
          OBVIOUS
        <4>1. normal'[i] = normal[i + 1] /\ i + 1 \in 1 .. Len(normal) /\ 1 < i + 1
          BY <1>1, <2>1
        <4> QED
          BY <2>1, <4>1 DEF IInv, LanesOrdered
      <3> QED
        BY <1>3, <2>1, <3>1 DEF IInv, LanesOrdered
    <2>9. \A n : Left(n)' => Read(n) \/ OnWire(n) \/ n = normal[1]
      BY <1>5, <2>1 DEF Left, InHand
    <2>10. LeftEarlier'
      <3> SUFFICES ASSUME NEW n \in Message, Read(n) \/ OnWire(n) \/ n = normal[1]
                   PROVE  /\ n.id <= sent'
                          /\ \A i \in 1 .. Len(critical') : Precedes(n, critical[i])'
                          /\ \A i \in 1 .. Len(normal') : Precedes(n, normal[i])'
        BY <2>9 DEF LeftEarlier
      <3>1. CASE Read(n) \/ OnWire(n)
        <4>1. \A i \in 1 .. Len(critical') : Precedes(n, critical[i])'
          <5>1. \A i \in 1 .. Len(critical) : n.id \in Int /\ critical[i].id \in Int
            BY <1>2, <1>3
          <5>2. \A i \in 1 .. Len(critical) : n.id < critical[i].id
            BY <2>4, <3>1
          <5> QED
            BY <1>1, <5>1, <5>2 DEF Precedes, Before
        <4>2. \A i \in 1 .. Len(normal') : Precedes(n, normal[i])'
          <5> SUFFICES ASSUME NEW i \in 1 .. Len(normal') PROVE Precedes(n, normal[i])'
            OBVIOUS
          <5>1. Precedes(n, normal[i + 1]) /\ normal'[i] = normal[i + 1] /\ ~normal'[i].crit
            BY <2>1, <2>4, <2>8, <3>1
          <5> QED
            BY <5>1, Zenon DEF Precedes, Before
        <4> QED
          BY <1>1, <2>4, <3>1, <4>1, <4>2
      <3>2. CASE n = normal[1]
        <4>1. \A i \in 1 .. Len(critical') : Precedes(n, critical[i])'
          <5>1. n.id \in Int /\ \A i \in 1 .. Len(critical) : critical[i].id \in Int
            BY <1>2, <1>3
          <5> QED
            BY <1>1, <2>3, <2>8, <3>2, <5>1 DEF Precedes, Before
        <4>2. \A i \in 1 .. Len(normal') : Precedes(n, normal[i])'
          <5>1. /\ n.id \in Int
                /\ \A i \in 1 .. Len(normal') : normal'[i].id \in Int /\ ~normal'[i].crit
            BY <1>2, <1>3, <2>1, <2>8
          <5> QED
            BY <2>8, <3>2, <5>1 DEF Precedes, Before
        <4> QED
          BY <1>1, <2>8, <3>2, <4>1, <4>2
      <3> QED
        BY <3>1, <3>2
    <2>11. InHandLast'
      <3> SUFFICES ASSUME NEW n \in Message, Read(n) \/ OnWire(n)
                   PROVE  Precedes(n, shipping)'
        BY <1>5 DEF InHandLast
      <3>1. Precedes(n, normal[1])
        BY <2>1, <2>4
      <3> QED
        BY <2>1, <2>8, <3>1 DEF Precedes, Before
    <2>12. PassedFresh'
      BY <1>7 DEF PassedFresh
    <2> QED
      BY <2>2, <2>7, <2>10, <2>11, <2>12 DEF IInv
  <1> QED
    BY <1>6, <1>7 DEF PollNormal

\* A message that ship() gives up or that dies with the process leaves the order
\* of the others alone.
LEMMA LoseOrder ==
    ASSUME IInv, TypeOK', shipping' = None, UNCHANGED <<sent, net, received, overtook>>,
           \/ UNCHANGED <<critical, normal, polling>>
           \/ critical' = <<>> /\ normal' = <<>>
    PROVE  IInv'
  <1>1. WireOrdered' /\ ReadEarlier' /\ ReadOrdered' /\ InHandLast'
    BY DEF IInv, WireOrdered, ReadEarlier, ReadOrdered, InHandLast, Precedes, Before
  <1>2. \A n : Read(n)' = Read(n) /\ OnWire(n)' = OnWire(n) /\ ~InHand(n)'
    BY DEF Read, OnWire, InHand
  <1>3. LanesOrdered'
    BY DEF IInv, LanesOrdered
  <1>4. LeftEarlier'
    <2> SUFFICES ASSUME NEW n \in Message, Read(n) \/ OnWire(n)
                 PROVE  /\ n.id <= sent'
                        /\ \A i \in 1 .. Len(critical') : Precedes(n, critical'[i])
                        /\ \A i \in 1 .. Len(normal') : Precedes(n, normal'[i])
      BY <1>2 DEF LeftEarlier, Left, Precedes, Before
    <2> QED
      BY DEF IInv, LeftEarlier, Left
  <1>5. PassedFresh'
    <2>1. \A n : Left(n)' => Left(n)
      BY <1>2 DEF Left
    <2> QED
      BY <2>1 DEF IInv, PassedFresh
  <1> QED
    BY <1>1, <1>3, <1>4, <1>5 DEF IInv

\* ws.send puts the message in hand behind all others of the connection.
LEMMA SendOkOrder ==
    ASSUME IInv, TypeOK', SendOk
    PROVE  IInv'
  <1> DEFINE x == shipping
  <1>1. /\ x \in Message /\ x # None /\ shipping' = None
        /\ net \in [Conns -> Seq(Message)]
        /\ UNCHANGED <<sent, critical, normal, received, polling, overtook>>
        /\ net' = [net EXCEPT ![conn] = Append(@, x)]
    BY DEF SendOk, IInv, TypeOK
  <1> HIDE DEF x
  <1>2. \A c \in Conns :
            /\ net[c] \in Seq(Message) /\ Len(net[c]) \in Nat
            /\ \A i \in 1 .. Len(net[c]) : net[c][i] \in Message
    BY <1>1, ElementOfSeq
  <1>3. \A c \in Conns : c # conn => net'[c] = net[c]
    BY <1>1
  <1>4. conn \in Conns =>
            /\ Len(net'[conn]) = Len(net[conn]) + 1
            /\ \A i \in 1 .. Len(net'[conn]) :
                  net'[conn][i] = IF i = Len(net[conn]) + 1 THEN x ELSE net[conn][i]
    BY <1>1, <1>2
  <1>5. \A n : /\ Read(n)' = Read(n) /\ ~InHand(n)' /\ InHand(x)
               /\ OnWire(n)' => OnWire(n) \/ n = x
    <2>1. \A n : Read(n)' = Read(n) /\ ~InHand(n)' /\ InHand(x)
      BY <1>1 DEF Read, InHand, x
    <2> SUFFICES ASSUME NEW n, NEW c \in Conns, NEW i \in 1 .. Len(net'[c]), n = net'[c][i]
                 PROVE  OnWire(n) \/ n = x
      BY <2>1 DEF OnWire
    <2>2. CASE c # conn
      BY <1>3, <2>2 DEF OnWire
    <2>3. CASE c = conn
      <3>1. i = Len(net[c]) + 1 \/ (i \in 1 .. Len(net[c]) /\ n = net[c][i])
        BY <1>2, <1>4, <2>3
      <3> QED
        BY <1>4, <2>3, <3>1 DEF OnWire
    <2> QED
      BY <2>2, <2>3
  <1>6. LanesOrdered' /\ ReadOrdered' /\ InHandLast'
    BY <1>1 DEF IInv, LanesOrdered, ReadOrdered, InHandLast, Precedes, Before
  <1>7. LeftEarlier' /\ PassedFresh'
    <2>1. \A n : Left(n)' => Left(n)
      BY <1>5 DEF Left
    <2> QED
      BY <1>1, <2>1 DEF IInv, LeftEarlier, PassedFresh, Precedes, Before
  <1>8. \A n \in Message : Read(n) \/ OnWire(n) => Precedes(n, x)
    BY <1>1 DEF IInv, InHandLast, x
  <1>9. \A c \in Conns : \A i \in 1 .. Len(net[c]) : Precedes(net[c][i], x)
    BY <1>2, <1>8 DEF OnWire
  <1>10. WireOrdered'
    <2>1. ASSUME NEW c \in Conns, NEW i \in 1 .. Len(net'[c]), NEW j \in 1 .. Len(net'[c]), i < j
          PROVE  Precedes(net'[c][i], net'[c][j])
      <3>1. CASE c # conn
        BY <1>3, <2>1, <3>1 DEF IInv, WireOrdered
      <3>2. CASE c = conn
        <4>1. i \in 1 .. Len(net[c]) /\ net'[c][i] = net[c][i]
          BY <1>2, <1>4, <2>1, <3>2
        <4>2. CASE j = Len(net[c]) + 1
          BY <1>4, <1>9, <3>2, <4>1, <4>2
        <4>3. CASE j # Len(net[c]) + 1
          <5>1. j \in 1 .. Len(net[c]) /\ net'[c][j] = net[c][j]
            BY <1>2, <1>4, <3>2, <4>3
          <5> QED
            BY <2>1, <4>1, <5>1 DEF IInv, WireOrdered
        <4> QED
          BY <4>2, <4>3
      <3> QED
        BY <3>1, <3>2
    <2>2. ASSUME NEW c \in Conns, NEW d \in Conns, c # d,
                 NEW i \in 1 .. Len(net'[c]), NEW j \in 1 .. Len(net'[d])
          PROVE  net'[c][i].id # net'[d][j].id
      <3>1. \/ i \in 1 .. Len(net[c]) /\ net'[c][i] = net[c][i]
            \/ c = conn /\ net'[c][i] = x
        BY <1>2, <1>3, <1>4
      <3>2. \/ j \in 1 .. Len(net[d]) /\ net'[d][j] = net[d][j]
            \/ d = conn /\ net'[d][j] = x
        BY <1>2, <1>3, <1>4
      <3>3. CASE c = conn /\ net'[c][i] = x
        <4>1. j \in 1 .. Len(net[d]) /\ net'[d][j] = net[d][j]
          BY <2>2, <3>2, <3>3
        <4> QED
          BY <1>9, <3>3, <4>1 DEF Precedes, Before
      <3>4. CASE d = conn /\ net'[d][j] = x
        <4>1. i \in 1 .. Len(net[c]) /\ net'[c][i] = net[c][i]
          BY <2>2, <3>1, <3>4
        <4> QED
          BY <1>9, <3>4, <4>1 DEF Precedes, Before
      <3>5. CASE /\ i \in 1 .. Len(net[c]) /\ net'[c][i] = net[c][i]
                 /\ j \in 1 .. Len(net[d]) /\ net'[d][j] = net[d][j]
        BY <2>2, <3>5 DEF IInv, WireOrdered
      <3> QED
        BY <3>1, <3>2, <3>3, <3>4, <3>5
    <2> QED
      BY <1>1, <2>1, <2>2 DEF WireOrdered, Precedes
  <1>11. ReadEarlier'
    <2> SUFFICES ASSUME NEW k \in 1 .. Len(received), NEW c \in Conns, NEW i \in 1 .. Len(net'[c])
                 PROVE  /\ received[k].msg.id # net'[c][i].id
                        /\ received[k].conn = c => Precedes(received[k].msg, net'[c][i])
      BY <1>1 DEF ReadEarlier, Precedes
    <2>1. \/ i \in 1 .. Len(net[c]) /\ net'[c][i] = net[c][i]
          \/ net'[c][i] = x
      BY <1>2, <1>3, <1>4
    <2>2. received[k].msg \in Message /\ Read(received[k].msg)
      <3>1. received[k] \in [msg : Message, conn : Conns]
        BY ElementOfSeq DEF IInv, TypeOK
      <3> QED
        BY <3>1 DEF Read
    <2>3. Precedes(received[k].msg, x)
      BY <1>8, <2>2
    <2>4. CASE net'[c][i] = x
      BY <2>3, <2>4, Zenon DEF Precedes, Before
    <2>5. CASE i \in 1 .. Len(net[c]) /\ net'[c][i] = net[c][i]
      BY <2>5 DEF IInv, ReadEarlier
    <2> QED
      BY <2>1, <2>4, <2>5
  <1> QED
    BY <1>6, <1>7, <1>10, <1>11 DEF IInv

\* The collector reads the oldest frame of a connection.
LEMMA DeliverOrder ==
    ASSUME IInv, TypeOK', NEW c \in Conns, Deliver(c)
    PROVE  IInv'
  <1> DEFINE x == net[c][1]
  <1>1. /\ UNCHANGED <<sent, critical, normal, shipping, polling, overtook>>
        /\ net \in [Conns -> Seq(Message)] /\ net[c] # <<>>
        /\ net' = [net EXCEPT ![c] = Tail(@)]
        /\ received' = Append(received, [msg |-> x, conn |-> c])
        /\ received \in Seq([msg : Message, conn : Conns])
    BY DEF Deliver, IInv, TypeOK
  <1>2. \A d \in Conns :
            /\ net[d] \in Seq(Message) /\ Len(net[d]) \in Nat
            /\ \A i \in 1 .. Len(net[d]) : net[d][i] \in Message
    BY <1>1, ElementOfSeq
  <1>3. /\ \A d \in Conns : d # c => net'[d] = net[d]
        /\ 1 \in 1 .. Len(net[c])
        /\ Len(net'[c]) = Len(net[c]) - 1
        /\ \A i \in 1 .. Len(net'[c]) : i + 1 \in 1 .. Len(net[c]) /\ net'[c][i] = net[c][i + 1]
    BY <1>1, <1>2, HeadTailProperties
  <1>4. /\ Len(received') = Len(received) + 1 /\ Len(received) \in Nat
        /\ DOMAIN received = 1 .. Len(received) /\ DOMAIN received' = 1 .. Len(received')
        /\ \A i \in 1 .. Len(received) : received'[i] = received[i]
        /\ received'[Len(received) + 1].msg = x /\ received'[Len(received) + 1].conn = c
    BY <1>1, AppendProperties
  <1>5. x \in Message /\ OnWire(x)
    BY <1>2, <1>3 DEF OnWire
  <1> HIDE DEF x
  <1>6. \A n : /\ Read(n)' => Read(n) \/ n = x
               /\ OnWire(n)' => OnWire(n)
               /\ InHand(n)' = InHand(n)
    <2>1. \A n : Read(n)' => Read(n) \/ n = x
      BY <1>4 DEF Read
    <2>2. ASSUME NEW n, NEW d \in Conns, NEW i \in 1 .. Len(net'[d]), n = net'[d][i]
          PROVE  OnWire(n)
      BY <1>3, <2>2 DEF OnWire
    <2>3. \A n : InHand(n)' = InHand(n)
      BY <1>1 DEF InHand
    <2> QED
      BY <2>1, <2>2, <2>3 DEF OnWire
  <1>7. LanesOrdered'
    BY <1>1 DEF IInv, LanesOrdered
  <1>8. LeftEarlier' /\ PassedFresh'
    <2>1. \A n : Left(n)' => Left(n)
      BY <1>5, <1>6 DEF Left
    <2> QED
      BY <1>1, <2>1 DEF IInv, LeftEarlier, PassedFresh, Precedes, Before
  <1>9. InHandLast'
    BY <1>1, <1>5, <1>6 DEF IInv, InHandLast, Precedes, Before
  <1>10. WireOrdered'
    <2>1. ASSUME NEW d \in Conns, NEW i \in 1 .. Len(net'[d]), NEW j \in 1 .. Len(net'[d]), i < j
          PROVE  Precedes(net'[d][i], net'[d][j])
      <3>1. CASE d # c
        BY <1>3, <2>1, <3>1 DEF IInv, WireOrdered
      <3>2. CASE d = c
        <4>1. i + 1 < j + 1
          BY <1>2, <1>3, <2>1, <3>2
        <4> QED
          BY <1>3, <3>2, <4>1 DEF IInv, WireOrdered
      <3> QED
        BY <3>1, <3>2
    <2>2. ASSUME NEW d \in Conns, NEW e \in Conns, d # e,
                 NEW i \in 1 .. Len(net'[d]), NEW j \in 1 .. Len(net'[e])
          PROVE  net'[d][i].id # net'[e][j].id
      <3>1. PICK k \in 1 .. Len(net[d]) : net'[d][i] = net[d][k]
        BY <1>3
      <3>2. PICK l \in 1 .. Len(net[e]) : net'[e][j] = net[e][l]
        BY <1>3
      <3> QED
        BY <2>2, <3>1, <3>2 DEF IInv, WireOrdered
    <2> QED
      BY <1>1, <2>1, <2>2 DEF WireOrdered, Precedes
  <1>13. overtook' = overtook
    BY <1>1
  <1>11. ReadEarlier'
    <2> SUFFICES ASSUME NEW k \in 1 .. Len(received'), NEW d \in Conns, NEW i \in 1 .. Len(net'[d])
                 PROVE  /\ received'[k].msg.id # net'[d][i].id
                        /\ received'[k].conn = d => Precedes(received'[k].msg, net'[d][i])
      BY <1>13, Zenon DEF ReadEarlier, Precedes
    <2>1. PICK l \in 1 .. Len(net[d]) : net'[d][i] = net[d][l] /\ (d = c => l > 1)
      <3>1. CASE d = c
        <4>1. i + 1 \in 1 .. Len(net[d]) /\ net'[d][i] = net[d][i + 1] /\ i + 1 > 1
          BY <1>2, <1>3, <3>1
        <4> QED
          BY <4>1
      <3>2. CASE d # c
        BY <1>3, <3>2
      <3> QED
        BY <3>1, <3>2
    <2>2. CASE k \in 1 .. Len(received)
      BY <1>4, <2>1, <2>2 DEF IInv, ReadEarlier
    <2>3. CASE k = Len(received) + 1
      <3>1. received'[k].msg = net[c][1] /\ received'[k].conn = c
        BY <1>4, <2>3 DEF x
      <3>2. CASE d = c
        <4>1. Precedes(net[c][1], net[d][l])
          BY <1>2, <1>3, <2>1, <3>2 DEF IInv, WireOrdered
        <4> QED
          BY <2>1, <3>1, <3>2, <4>1 DEF Precedes, Before
      <3>3. CASE d # c
        BY <1>3, <2>1, <3>1, <3>3, SMTT(30) DEF IInv, WireOrdered
      <3> QED
        BY <3>2, <3>3
    <2> QED
      BY <1>4, <2>2, <2>3
  <1>12. ReadOrdered'
    <2> SUFFICES ASSUME NEW i \in 1 .. Len(received'), NEW j \in 1 .. Len(received'), i < j
                 PROVE  /\ received'[i].msg.id # received'[j].msg.id
                        /\ received'[i].conn = received'[j].conn
                             => Precedes(received'[i].msg, received'[j].msg)
      BY <1>13, Zenon DEF ReadOrdered, Precedes
    <2>1. i \in 1 .. Len(received) /\ received'[i] = received[i]
      BY <1>4
    <2>2. CASE j \in 1 .. Len(received)
      BY <1>4, <2>1, <2>2 DEF IInv, ReadOrdered, Precedes, Before
    <2>3. CASE j = Len(received) + 1
      <3>1. received'[j].msg = net[c][1] /\ received'[j].conn = c
        BY <1>4, <2>3 DEF x
      <3> QED
        BY <1>3, <2>1, <3>1 DEF IInv, ReadEarlier
    <2> QED
      BY <1>4, <2>2, <2>3
  <1> QED
    BY <1>7, <1>8, <1>9, <1>10, <1>11, <1>12 DEF IInv

\* Losing the frames of a broken connection leaves the others in order.
LEMMA CutOrder ==
    ASSUME IInv, TypeOK', NEW c \in Conns, Cut(c)
    PROVE  IInv'
  <1>1. /\ UNCHANGED <<sent, critical, normal, shipping, received, polling, overtook>>
        /\ net \in [Conns -> Seq(Message)]
        /\ net' = [net EXCEPT ![c] = <<>>]
    BY DEF Cut, IInv, TypeOK
  <1>2. /\ \A d \in Conns : d # c => net'[d] = net[d]
        /\ Len(net'[c]) = 0
    BY <1>1
  <1>3. \A n : /\ Read(n)' = Read(n) /\ InHand(n)' = InHand(n)
               /\ OnWire(n)' => OnWire(n)
    BY <1>1, <1>2 DEF Read, InHand, OnWire
  <1>4. LanesOrdered' /\ ReadOrdered'
    BY <1>1 DEF IInv, LanesOrdered, ReadOrdered, Precedes, Before
  <1>5. LeftEarlier' /\ PassedFresh' /\ InHandLast'
    <2>1. \A n : Left(n)' => Left(n)
      BY <1>3 DEF Left
    <2>2. LeftEarlier' /\ PassedFresh'
      BY <1>1, <2>1 DEF IInv, LeftEarlier, PassedFresh, Precedes, Before
    <2> QED
      BY <1>1, <1>3, <2>2 DEF IInv, InHandLast, Precedes, Before
  <1>6. \A d \in Conns : \A i \in 1 .. Len(net'[d]) : d # c
    BY <1>2
  <1>7. WireOrdered'
    <2>1. ASSUME NEW d \in Conns, NEW i \in 1 .. Len(net'[d]), NEW j \in 1 .. Len(net'[d]), i < j
          PROVE  Precedes(net'[d][i], net'[d][j])
      <3>1. net'[d] = net[d]
        BY <1>2, <1>6
      <3> QED
        BY <2>1, <3>1 DEF IInv, WireOrdered
    <2>2. ASSUME NEW d \in Conns, NEW e \in Conns, d # e,
                 NEW i \in 1 .. Len(net'[d]), NEW j \in 1 .. Len(net'[e])
          PROVE  net'[d][i].id # net'[e][j].id
      <3>1. net'[d] = net[d] /\ net'[e] = net[e]
        BY <1>2, <1>6
      <3> QED
        BY <2>2, <3>1 DEF IInv, WireOrdered
    <2> QED
      BY <1>1, <2>1, <2>2 DEF WireOrdered, Precedes
  <1>8. ReadEarlier'
    BY <1>1, <1>2, <1>6 DEF IInv, ReadEarlier, Precedes, Before
  <1> QED
    BY <1>4, <1>5, <1>7, <1>8 DEF IInv

\* Every step keeps the inductive invariant.
LEMMA NextOrder == IInv /\ [Next]_vars => IInv'
  <1> SUFFICES ASSUME IInv, [Next]_vars PROVE IInv'
    OBVIOUS
  <1>1. TypeOK'
    BY NextType DEF IInv
  <1>2. CASE /\ UNCHANGED <<sent, critical, normal, shipping, net, received, overtook>>
             /\ polling' # "critical" => polling # "critical"
    <2>1. LanesOrdered' /\ ReadEarlier' /\ ReadOrdered'
      <3>1. LanesOrdered'
        BY <1>2, Zenon DEF IInv, LanesOrdered
      <3>2. ReadEarlier' /\ ReadOrdered'
        BY <1>2 DEF IInv, ReadEarlier, ReadOrdered, Precedes, Before
      <3> QED
        BY <3>1, <3>2
    <2>4. WireOrdered'
      BY <1>2 DEF IInv, WireOrdered, Precedes, Before
    <2>2. \A n : Read(n)' = Read(n) /\ OnWire(n)' = OnWire(n) /\ Left(n)' = Left(n)
      BY <1>2 DEF Read, OnWire, InHand, Left
    <2>3. LeftEarlier' /\ PassedFresh' /\ InHandLast'
      BY <1>2, <2>2 DEF IInv, LeftEarlier, PassedFresh, InHandLast, Precedes, Before
    <2> QED
      BY <1>1, <2>1, <2>3, <2>4 DEF IInv
  <1>3. CASE Boot \/ Beat \/ Stop \/ \E crit \in BOOLEAN : ModuleAlert(crit)
    <2>1. /\ \E kind \in {"hello", "heartbeat", "alert"}, crit \in BOOLEAN : Send(kind, crit)
          /\ UNCHANGED <<polling, shipping, net, received, overtook>>
      BY <1>3 DEF Boot, Beat, Stop, ModuleAlert, transport
    <2> QED
      BY <1>1, <2>1, SendOrder
  <1>4. CASE Exit \/ SendFail
    <2>1. /\ shipping' = None /\ UNCHANGED <<sent, net, received, overtook>>
          /\ UNCHANGED <<critical, normal, polling>> \/ (critical' = <<>> /\ normal' = <<>>)
      BY <1>4 DEF Exit, SendFail
    <2> QED
      BY <1>1, <2>1, LoseOrder
  <1>5. CASE \/ ConnectOk \/ ConnectFail \/ SleepDone \/ Ping \/ NoPing \/ PollSocket
             \/ Break \/ Vanish \/ GiveUp \/ UNCHANGED vars
    <2>1. /\ UNCHANGED <<sent, critical, normal, shipping, net, received, overtook>>
          /\ polling' # "critical" => polling # "critical"
      BY <1>5 DEF ConnectOk, ConnectFail, SleepDone, Ping, NoPing, PollSocket, Polls, Break,
                  Vanish, GiveUp, vars
    <2> QED
      BY <1>2, <2>1
  <1> QED
    BY <1>1, <1>3, <1>4, <1>5, PollCriticalOrder, PollNormalOrder, SendOkOrder, DeliverOrder,
       CutOrder DEF Next

\* No message is read twice, on one connection neither lane is reordered, and a
\* critical alert is overtaken by one later message at most: for all capacities,
\* numbers of messages and numbers of reconnections (bus.rs send, transport.rs
\* pump, ship).
THEOREM DeliveryInOrder == Spec => []OnceInOrder
  <1>1. ASSUME IInv PROVE OnceInOrder
    <2>1. DOMAIN received = 1 .. Len(received)
      BY <1>1 DEF IInv, TypeOK
    <2>2. \A i \in 1 .. Len(received) : received[i].msg.id \in Int
      <3>1. \A i \in 1 .. Len(received) : received[i] \in [msg : Message, conn : Conns]
        BY <1>1, ElementOfSeq DEF IInv, TypeOK
      <3> QED
        BY <3>1 DEF Message
    <2>3. ASSUME NEW i \in 1 .. Len(received), NEW j \in 1 .. Len(received),
                 NEW k \in 1 .. Len(received), i < j, j < k, received[k].msg.crit,
                 received[i].conn = received[k].conn, received[j].conn = received[k].conn
          PROVE  \/ received[i].msg.id < received[k].msg.id
                 \/ received[j].msg.id < received[k].msg.id
      <3>1. i < k
        BY <2>3
      <3>2. /\ Precedes(received[i].msg, received[k].msg)
            /\ Precedes(received[j].msg, received[k].msg)
            /\ received[i].msg.id # received[j].msg.id
        BY <1>1, <2>3, <3>1 DEF IInv, ReadOrdered
      <3> QED
        BY <2>2, <2>3, <3>2 DEF Precedes, Before
    <2> QED
      BY <1>1, <2>1, <2>3 DEF IInv, ReadOrdered, Precedes, Before, OnceInOrder
  <1>2. IInv /\ [Next]_vars => IInv'
    BY NextOrder
  <1> QED
    BY <1>1, <1>2, InitOrder, PTL DEF Spec
=============================================================================
