----------------------------- MODULE AgentLink -----------------------------
(***************************************************************************)
(* The agent's way out: the alert sink with its two lanes (agent/src/      *)
(* bus.rs), the transport loop that drains them onto one WebSocket         *)
(* (agent/src/transport.rs) and the process around them: hello, heartbeat, *)
(* termination (agent/src/main.rs).                                        *)
(*                                                                         *)
(* A message is its number in the order of AlertSink::send calls and its   *)
(* lane.  The network may end a connection at any time, with or without    *)
(* telling the agent; frames of a broken connection that the peer has      *)
(* already buffered are still read, also while a newer connection is open. *)
(* pump polls the branches of its select one after the other, while the    *)
(* modules go on sending on other threads.                                 *)
(***************************************************************************)
EXTENDS Integers, Sequences, SequencesExt

CONSTANTS
    CritCap, NormCap,   \* mpsc capacities of the critical and normal lanes
    MinBackoff,         \* collector.reconnect_min_ms
    MaxBackoff,         \* collector.reconnect_max_ms
    Maintenance,        \* AlertSink.suppress_alerts
    None,
    MaxMsgs,            \* bound: messages handed to the sink
    MaxConns            \* bound: successful connects

ASSUME LinkAssumption ==
    /\ CritCap \in Nat \ {0} /\ NormCap \in Nat \ {0}
    /\ MinBackoff \in Nat \ {0} /\ MaxBackoff \in Nat /\ MinBackoff <= MaxBackoff
    /\ Maintenance \in BOOLEAN
    /\ MaxMsgs \in Nat /\ MaxConns \in Nat

VARIABLES
    proc,       \* main: "booting", "running", "stopping", "exited"
    sent,       \* number of messages handed to AlertSink::send so far
    critical,   \* the critical mpsc lane
    normal,     \* the normal mpsc lane
    link,       \* transport::run: "connecting", "pumping", "sleeping"
    backoff,    \* backoff_ms
    polling,    \* the branch of pump's select that is polled next
    shipping,   \* the message ship() holds while it awaits the socket, or None
    conn,       \* number of the current (or last) connection
    sock,       \* its socket: "up", "silent" (the peer is gone, nobody was told),
                \* "unacked" (silent, and written to since), "closed"
    net,        \* net[c]: frames written on connection c, not yet read
    received,   \* frames read by the collector, with their connection
    overtook    \* observer: the later message taken before critical message i, or 0

vars == <<proc, sent, critical, normal, link, backoff, polling, shipping, conn, sock,
          net, received, overtook>>

\* What the sink and the process leave to the transport.
transport == <<link, backoff, polling, shipping, conn, sock, net, received, overtook>>

Conns == 1 .. MaxConns
Message == [id : 1 .. MaxMsgs, crit : BOOLEAN]

TypeOK ==
    /\ proc \in {"booting", "running", "stopping", "exited"}
    /\ sent \in 0 .. MaxMsgs
    /\ critical \in Seq(Message) /\ Len(critical) <= CritCap
    /\ normal \in Seq(Message) /\ Len(normal) <= NormCap
    /\ link \in {"connecting", "pumping", "sleeping"}
    /\ backoff \in MinBackoff .. MaxBackoff
    /\ shipping \in Message \cup {None}
    /\ polling \in {"critical", "normal", "ping", "socket"}
    /\ conn \in 0 .. MaxConns
    /\ sock \in {"up", "silent", "unacked", "closed"}
    /\ net \in [Conns -> Seq(Message)]
    /\ received \in Seq([msg : Message, conn : Conns])
    /\ overtook \in [1 .. MaxMsgs -> 0 .. MaxMsgs]

Init ==
    /\ proc = "booting" /\ sent = 0
    /\ critical = <<>> /\ normal = <<>>
    /\ link = "connecting" /\ backoff = MinBackoff
    /\ polling = "critical" /\ shipping = None
    /\ conn = 0 /\ sock = "closed"
    /\ net = [c \in Conns |-> <<>>]
    /\ received = <<>> /\ overtook = [i \in 1 .. MaxMsgs |-> 0]

-----------------------------------------------------------------------------
(* bus.rs: AlertSink::send.                                                *)

TrySendUnbounded(lane, cap, m) ==   \* mutant: an unbounded channel
    Append(lane, m)

\* mpsc try_send: on a full lane the new message is discarded.
TrySend(lane, cap, m) == IF Len(lane) < cap THEN Append(lane, m) ELSE lane

\* Alerts are held back under maintenance; critical alerts have their own lane.
Send(kind, crit) ==
    LET m == [id |-> sent + 1, crit |-> crit]
        suppressed == Maintenance /\ kind = "alert"
    IN  /\ sent < MaxMsgs
        /\ sent' = sent + 1
        /\ critical' = IF crit /\ ~suppressed THEN TrySend(critical, CritCap, m) ELSE critical
        /\ normal' = IF ~crit /\ ~suppressed THEN TrySend(normal, NormCap, m) ELSE normal

-----------------------------------------------------------------------------
(* main.rs: the process around the sink.                                   *)

\* One hello per process, before any module or the transport is spawned.
Boot ==
    /\ proc = "booting"
    /\ Send("hello", FALSE)
    /\ proc' = "running"
    /\ UNCHANGED transport

Beat ==
    /\ proc \in {"running", "stopping"}
    /\ Send("heartbeat", FALSE)
    /\ UNCHANGED <<proc, transport>>

ModuleAlert(crit) ==
    /\ proc \in {"running", "stopping"}
    /\ Send("alert", crit)
    /\ UNCHANGED <<proc, transport>>

\* SIGTERM or SIGINT: the Info alert agent_stopping, then a 250 ms sleep.
Stop ==
    /\ proc = "running"
    /\ Send("alert", FALSE)
    /\ proc' = "stopping"
    /\ UNCHANGED transport

\* process::exit after the sleep: whatever the transport still holds is gone.
Exit ==
    /\ proc = "stopping"
    /\ proc' = "exited"
    /\ critical' = <<>> /\ normal' = <<>> /\ shipping' = None
    /\ polling' = "critical" /\ sock' = "closed"
    /\ UNCHANGED <<sent, link, backoff, conn, net, received, overtook>>

-----------------------------------------------------------------------------
(* transport.rs: run, connect.                                             *)

Transporting == proc \in {"running", "stopping"}

ConnectOk ==
    /\ Transporting /\ link = "connecting"
    /\ conn < MaxConns
    /\ conn' = conn + 1 /\ sock' = "up"
    /\ link' = "pumping"
    /\ backoff' = MinBackoff
    /\ UNCHANGED <<proc, sent, critical, normal, polling, shipping, net, received, overtook>>

ConnectFail ==
    /\ Transporting /\ link = "connecting"
    /\ link' = "sleeping"
    /\ UNCHANGED <<proc, sent, critical, normal, backoff, polling, shipping, conn, sock,
                   net, received, overtook>>

Doubled(b) == IF 2 * b <= MaxBackoff THEN 2 * b ELSE MaxBackoff

\* sleep(backoff_ms), then the delay doubles up to its maximum.
SleepDone ==
    /\ Transporting /\ link = "sleeping"
    /\ link' = "connecting"
    /\ backoff' = Doubled(backoff)
    /\ UNCHANGED <<proc, sent, critical, normal, polling, shipping, conn, sock, net,
                   received, overtook>>

-----------------------------------------------------------------------------
(* transport.rs: pump and ship.  The branches of the biased select are     *)
(* polled in the order critical, normal, ping, socket; a branch that is    *)
(* ready starts the loop again, and after a round without one the task     *)
(* waits to be woken, which is another round here.                         *)

Polls(branch) == Transporting /\ link = "pumping" /\ shipping = None /\ polling = branch

\* critical.recv(): the message has left its lane before the socket is tried.
PollCritical ==
    /\ Polls("critical")
    /\ \/ /\ critical # <<>>
          /\ shipping' = Head(critical) /\ critical' = Tail(critical)
          /\ UNCHANGED polling
       \/ /\ critical = <<>>
          /\ polling' = "normal"
          /\ UNCHANGED <<shipping, critical>>
    /\ UNCHANGED <<proc, sent, normal, link, backoff, conn, sock, net, received, overtook>>

\* Critical messages that came since their lane was polled wait for one message
\* of the other lane, which may be younger than they are.
Overtaken(n) ==
    [i \in 1 .. MaxMsgs |->
        IF i < n.id /\ \E k \in 1 .. Len(critical) : critical[k].id = i
        THEN n.id ELSE overtook[i]]

PollNormalPeeks ==     \* mutant: the message leaves the lane only after a send
    /\ Polls("normal")
    /\ \/ /\ normal # <<>>
          /\ shipping' = Head(normal)
          /\ polling' = "critical" /\ overtook' = Overtaken(Head(normal))
          /\ UNCHANGED normal
       \/ /\ normal = <<>>
          /\ polling' = "ping"
          /\ UNCHANGED <<shipping, normal, overtook>>
    /\ UNCHANGED <<proc, sent, critical, link, backoff, conn, sock, net, received>>

PollNormalStays ==     \* mutant: the lane is emptied before critical is looked at again
    /\ Polls("normal")
    /\ \/ /\ normal # <<>>
          /\ shipping' = Head(normal) /\ normal' = Tail(normal)
          /\ overtook' = Overtaken(Head(normal))
          /\ UNCHANGED polling
       \/ /\ normal = <<>>
          /\ polling' = "ping"
          /\ UNCHANGED <<shipping, normal, overtook>>
    /\ UNCHANGED <<proc, sent, critical, link, backoff, conn, sock, net, received>>

PollNormalSkips ==     \* mutant: the select never looks at the normal lane
    /\ Polls("normal")
    /\ polling' = "ping"
    /\ UNCHANGED <<proc, sent, critical, normal, link, backoff, shipping, conn, sock,
                   net, received, overtook>>

\* normal.recv(), polled once critical.recv() was pending.
PollNormal ==
    /\ Polls("normal")
    /\ \/ /\ normal # <<>>
          /\ shipping' = Head(normal) /\ normal' = Tail(normal)
          /\ polling' = "critical" /\ overtook' = Overtaken(Head(normal))
       \/ /\ normal = <<>>
          /\ polling' = "ping"
          /\ UNCHANGED <<shipping, normal, overtook>>
    /\ UNCHANGED <<proc, sent, critical, link, backoff, conn, sock, net, received>>

\* A write that the kernel took from the agent while the peer is gone.
Written == IF sock = "silent" THEN "unacked" ELSE sock

PingNowhere ==         \* mutant: the tick comes and no ping is written
    /\ Polls("ping")
    /\ polling' = "critical"
    /\ UNCHANGED <<proc, sent, critical, normal, link, backoff, shipping, conn, sock,
                   net, received, overtook>>

\* ping_tick.tick() is due and the keepalive is written, or fails and ends pump.
Ping ==
    /\ Polls("ping")
    /\ polling' = "critical"
    /\ \/ sock' = Written /\ UNCHANGED link
       \/ sock = "closed" /\ link' = "sleeping" /\ UNCHANGED sock
    /\ UNCHANGED <<proc, sent, critical, normal, backoff, shipping, conn, net, received,
                   overtook>>

\* The tick is not due: 15 s have not passed since the last one.
NoPing ==
    /\ Polls("ping")
    /\ polling' = "socket"
    /\ UNCHANGED <<proc, sent, critical, normal, link, backoff, shipping, conn, sock, net,
                   received, overtook>>

\* ws.next(): Close, an error or the end of the stream ends pump, and ws.close
\* in run ends the socket; otherwise there is nothing to read.
PollSocket ==
    /\ Polls("socket")
    /\ polling' = "critical"
    /\ \/ sock = "closed" /\ link' = "sleeping"
       \/ sock # "closed" /\ UNCHANGED link
    /\ UNCHANGED <<proc, sent, critical, normal, backoff, shipping, conn, sock, net,
                   received, overtook>>

\* ws.send(..).await returned Ok: the kernel has the frame, nobody else yet.
\* Also on a connection that is already broken, until the kernel refuses.
SendOk ==
    /\ Transporting /\ shipping # None
    /\ net' = [net EXCEPT ![conn] = Append(@, shipping)]
    /\ shipping' = None
    /\ sock' = Written
    /\ UNCHANGED <<proc, sent, critical, normal, link, backoff, polling, conn, received,
                   overtook>>

\* ws.send failed: the message in hand is lost and pump returns the error.
SendFail ==
    /\ Transporting /\ shipping # None /\ sock = "closed"
    /\ shipping' = None
    /\ link' = "sleeping"
    /\ UNCHANGED <<proc, sent, critical, normal, backoff, polling, conn, sock, net,
                   received, overtook>>

-----------------------------------------------------------------------------
(* The network and the collector's read loop (external).                   *)

\* The peer closes or resets the connection, and the socket reports it.
Break ==
    /\ sock # "closed" /\ sock' = "closed"
    /\ UNCHANGED <<proc, sent, critical, normal, link, backoff, polling, shipping, conn,
                   net, received, overtook>>

\* The peer or the path to it is gone, and nothing is reported.
Vanish ==
    /\ sock = "up" /\ sock' = "silent"
    /\ UNCHANGED <<proc, sent, critical, normal, link, backoff, polling, shipping, conn,
                   net, received, overtook>>

\* The kernel gives up on data that nobody acknowledges.
GiveUp ==
    /\ sock = "unacked" /\ sock' = "closed"
    /\ UNCHANGED <<proc, sent, critical, normal, link, backoff, polling, shipping, conn,
                   net, received, overtook>>

\* A frame reaches the collector's handler of connection c.
Deliver(c) ==
    /\ net[c] # <<>>
    /\ received' = Append(received, [msg |-> Head(net[c]), conn |-> c])
    /\ net' = [net EXCEPT ![c] = Tail(@)]
    /\ UNCHANGED <<proc, sent, critical, normal, link, backoff, polling, shipping, conn,
                   sock, overtook>>

\* What a broken connection still held is lost.
Cut(c) ==
    /\ net[c] # <<>>
    /\ c < conn \/ sock # "up"
    /\ net' = [net EXCEPT ![c] = <<>>]
    /\ UNCHANGED <<proc, sent, critical, normal, link, backoff, polling, shipping, conn,
                   sock, received, overtook>>

Next ==
    \/ Boot \/ Beat \/ Stop \/ Exit
    \/ \E crit \in BOOLEAN : ModuleAlert(crit)
    \/ ConnectOk \/ ConnectFail \/ SleepDone
    \/ PollCritical \/ PollNormal \/ Ping \/ NoPing \/ PollSocket
    \/ SendOk \/ SendFail
    \/ Break \/ Vanish \/ GiveUp
    \/ \E c \in Conns : Deliver(c) \/ Cut(c)

Spec == Init /\ [][Next]_vars

\* The tokio runtime keeps polling the transport task, the 15 s interval is due
\* again and again but not in every round, a socket write ends, the kernel does
\* not retransmit for ever, and a live connection delivers.  Nothing is assumed of
\* the modules, of signals, of the network staying up or of connects succeeding.
Fairness ==
    /\ WF_vars(PollCritical \/ PollNormal \/ Ping \/ NoPing \/ PollSocket)
    /\ SF_vars(Ping) /\ SF_vars(NoPing)
    /\ WF_vars(SendOk \/ SendFail)
    /\ WF_vars(SleepDone)
    /\ WF_vars(GiveUp)
    /\ \A c \in Conns : WF_vars(Deliver(c) \/ Cut(c))

FairSpec == Spec /\ Fairness

-----------------------------------------------------------------------------
(* Properties.                                                             *)

\* No message is read twice by the collector, over all connections: a failed
\* send is never retried with a message that may have got through.  On one
\* connection each lane is read in the order of the send calls: neither a backlog
\* nor a full lane reorders a firing alert and its resolution.  And a critical
\* alert is read after at most one message handed to the sink later than it,
\* the one that pump takes from the normal lane when the alert comes between its
\* two polls; a backlog of later messages never goes before it.
OnceInOrder ==
    /\ \A i, j \in DOMAIN received : i < j =>
          /\ received[i].msg.id # received[j].msg.id
          /\ /\ received[i].conn = received[j].conn
             /\ received[i].msg.crit = received[j].msg.crit
             => received[i].msg.id < received[j].msg.id
    /\ \A i, j, k \in DOMAIN received :
          /\ i < j /\ j < k /\ received[k].msg.crit
          /\ received[i].conn = received[k].conn /\ received[j].conn = received[k].conn
          => \/ received[i].msg.id < received[k].msg.id
             \/ received[j].msg.id < received[k].msg.id

\* The inductive invariant behind OnceInOrder.  Precedes is what holds of two
\* messages in the order in which they are taken; by is what overtook the second.
Before(a, b, by) ==
    /\ a.id # b.id
    /\ a.crit = b.crit => a.id < b.id
    /\ b.crit /\ b.id < a.id => by = a.id

Precedes(a, b) == Before(a, b, overtook[b.id])

Read(m) == \E i \in 1 .. Len(received) : m = received[i].msg
OnWire(m) == \E c \in Conns : \E i \in 1 .. Len(net[c]) : m = net[c][i]
InHand(m) == shipping # None /\ m = shipping
Left(m) == Read(m) \/ OnWire(m) \/ InHand(m)

\* Each lane holds its own kind in the order of the send calls.
LanesOrdered ==
    /\ \A i \in 1 .. Len(critical) : critical[i].crit /\ critical[i].id <= sent
    /\ \A i \in 1 .. Len(normal) : ~normal[i].crit /\ normal[i].id <= sent
    /\ \A i, j \in 1 .. Len(critical) : i < j => critical[i].id < critical[j].id
    /\ \A i, j \in 1 .. Len(normal) : i < j => normal[i].id < normal[j].id
    /\ \A i \in 1 .. Len(critical), j \in 1 .. Len(normal) : critical[i].id # normal[j].id

\* What has left the lanes precedes what is still in them.
LeftEarlier ==
    \A m \in Message : Left(m) =>
        /\ m.id <= sent
        /\ \A i \in 1 .. Len(critical) : Precedes(m, critical[i])
        /\ \A i \in 1 .. Len(normal) : Precedes(m, normal[i])

\* Once critical.recv() was pending, whatever is in its lane came after all that left.
PassedFresh ==
    polling # "critical" =>
        \A m \in Message : Left(m) => \A i \in 1 .. Len(critical) : m.id < critical[i].id

\* What was written precedes what ship() holds.
InHandLast ==
    shipping # None => \A m \in Message : Read(m) \/ OnWire(m) => Precedes(m, shipping)

\* A connection keeps the order; no message is on two connections.
WireOrdered ==
    /\ \A c \in Conns : \A i, j \in 1 .. Len(net[c]) :
          i < j => Precedes(net[c][i], net[c][j])
    /\ \A c, d \in Conns : c # d =>
          \A i \in 1 .. Len(net[c]), j \in 1 .. Len(net[d]) : net[c][i].id # net[d][j].id

\* What was read precedes what is still on the same connection.
ReadEarlier ==
    \A k \in 1 .. Len(received), c \in Conns : \A i \in 1 .. Len(net[c]) :
        /\ received[k].msg.id # net[c][i].id
        /\ received[k].conn = c => Precedes(received[k].msg, net[c][i])

\* What was read keeps the order of its connection, and nothing is read twice.
ReadOrdered ==
    \A i, j \in 1 .. Len(received) : i < j =>
        /\ received[i].msg.id # received[j].msg.id
        /\ received[i].conn = received[j].conn => Precedes(received[i].msg, received[j].msg)

IInv == TypeOK /\ LanesOrdered /\ LeftEarlier /\ PassedFresh /\ InHandLast /\ WireOrdered
          /\ ReadEarlier /\ ReadOrdered

InLane(i) == \E m \in ToSet(critical) \cup ToSet(normal) : m.id = i
Arrived(i) == \E k \in DOMAIN received : received[k].msg.id = i
Stable == proc = "running" /\ link = "pumping" /\ sock = "up"

\* A queued message is delivered if the connection stays up from now on.
DeliveredWhileStable ==
    \A i \in 1 .. MaxMsgs : []((InLane(i) /\ []Stable) => <>Arrived(i))

\* A broken connection is always left, also one whose peer is gone without a
\* word while the agent has nothing to send: pump does not stay on a dead socket.
BrokenLinkNoticed ==
    (link = "pumping" /\ sock # "up") ~> (link # "pumping" \/ proc = "exited")
=============================================================================
