----------------------------- MODULE Collector -----------------------------
(***************************************************************************)
(* The collector process: its in-memory state (collector/src/state.rs) and *)
(* every task that changes it: one ingest handler per agent connection     *)
(* (ws_ingest.rs), the syslog listeners (syslog_in.rs), the operator's     *)
(* HTTP requests (http.rs) and the offline watcher (main.rs).              *)
(*                                                                         *)
(* The tasks run in parallel.  firing and hosts have a lock each, so one   *)
(* step is what a task does under one lock, and what follows it (the       *)
(* decrement, the broadcast) is a step of its own.                         *)
(***************************************************************************)
EXTENDS Integers, Sequences, FiniteSets

CONSTANTS
    Agents,        \* host_ids of agent hosts
    Peers,         \* syslog senders: host_id is the peer's IP address
    Metrics,       \* what modules alert on; stands for category|device|metric
    Conns,         \* agent connections
    ConnHost,      \* ConnHost[c]: the host at the other end of c
    Operators,     \* operator requests in flight
    Subscribers,   \* receivers of the broadcast channel
    OfflineAfter,  \* offline_after_s
    RingCap,       \* capacity of the broadcast channel
    WriterCap,     \* capacity of the store writer's queue
    None,
    MaxTime,       \* bound: the clock stops here
    MaxLeaks       \* bound: an agent falls silent after this many lost decrements

ASSUME CollectorAssumption ==
    /\ ConnHost \in [Conns -> Agents]
    /\ Agents \cap Peers = {}
    /\ "host_offline" \notin Metrics
    /\ IsFiniteSet(Metrics) /\ IsFiniteSet(Operators)
    /\ OfflineAfter \in Nat /\ MaxTime \in Nat /\ MaxLeaks \in Nat
    /\ RingCap \in Nat \ {0} /\ WriterCap \in Nat \ {0}

\* A fingerprint: host_id and the rest.  host_offline is the collector's own.
AgentFps == Agents \X (Metrics \cup {"host_offline"})
PeerFps == Peers \X {"syslog_event"}
Fps == AgentFps \cup PeerFps
States == {"firing", "resolved"}

VARIABLES
    now,      \* the collector's clock, in seconds
    hosts,    \* AppState.hosts; None: host_id not in the map
    firing,   \* AppState.firing: its keys
    feed,     \* feed[s]: what s has not yet received; None: not subscribed
    queued,   \* number of alerts in the store writer's channel
    handler,  \* handler[c]: ws_ingest::handle_socket of connection c
    syslog,   \* peers whose syslog alert is applied and not yet broadcast
    request,  \* request[o]: api_resolve call o, or None
    online,   \* watcher: last_seen_online, "unknown" when absent
    scan,     \* watcher: the pass it is in, or None
    leaked    \* observer: decrements the watcher has left out, per host

vars == <<now, hosts, firing, feed, queued, handler, syslog, request,
          online, scan, leaked>>

HostInfo == [last_seen : Nat, firing_count : Nat, maintenance : BOOLEAN]

\* stage "applying": maintenance checked and host touched, apply_alert next;
\* "telling": the broadcast is next.
Handler ==
    [greeted : BOOLEAN, stage : {"reading", "applying", "telling"},
     fp : AgentFps \cup {None}, state : States \cup {None}]

Idle(greeted) == [greeted |-> greeted, stage |-> "reading", fp |-> None, state |-> None]

\* clone: hosts as the pass found it; todo: hosts of the pass still to judge;
\* tell: the host_offline event to broadcast next, or None.
Scan ==
    [at : Nat, clone : [Agents -> HostInfo \cup {None}], todo : SUBSET Agents,
     tell : (AgentFps \X States) \cup {None}]

Request == [stage : {"removed", "telling"}, fp : Fps]

ASSUME NoneAssumption == None \notin HostInfo \cup Request \cup Scan

TypeOK ==
    /\ now \in Nat
    /\ hosts \in [Agents -> HostInfo \cup {None}]
    /\ firing \subseteq Fps
    /\ queued \in 0 .. WriterCap
    /\ handler \in [Conns -> Handler]
    /\ syslog \subseteq Peers
    /\ request \in [Operators -> Request \cup {None}]
    /\ online \in [Agents -> {"unknown", "online", "offline"}]
    /\ scan \in Scan \cup {None}
    /\ leaked \in [Agents -> Nat]

Init ==
    /\ now = 0
    /\ hosts = [h \in Agents |-> None]
    /\ firing = {}
    /\ feed = [s \in Subscribers |-> None]
    /\ queued = 0
    /\ handler = [c \in Conns |-> Idle(FALSE)]
    /\ syslog = {}
    /\ request = [o \in Operators |-> None]
    /\ online = [h \in Agents |-> "unknown"]
    /\ scan = None
    /\ leaked = [h \in Agents |-> 0]

-----------------------------------------------------------------------------
(* state.rs.                                                               *)

Known(h) == hosts[h] # None

Recent(last_seen, at) == at - last_seen <= OfflineAfter

\* tokio broadcast: a receiver that is RingCap events behind loses the oldest
\* and learns of it (Lagged) at its next recv.
Push(f, e) ==
    IF Len(f.unread) < RingCap
    THEN [f EXCEPT !.unread = Append(@, e)]
    ELSE [unread |-> Append(Tail(f.unread), e), lagged |-> TRUE]

Broadcast(e) ==
    feed' = [s \in Subscribers |-> IF feed[s] = None THEN None ELSE Push(feed[s], e)]

AlertEvent(fp, state) == [type |-> "alert", fp |-> fp, state |-> state]

\* hello, heartbeat and host_status update a browser's host cells, which are
\* left out: here they only take a place in the ring.
HostEvent == [type |-> "host"]

\* bump_host_count: clamped at zero; unknown hosts are skipped.
Bump(h, delta) ==
    IF h \in Agents /\ hosts[h] # None
    THEN LET n == hosts[h].firing_count + delta
         IN  [hosts EXCEPT ![h].firing_count = IF n < 0 THEN 0 ELSE n]
    ELSE hosts

ApplyAlertRecount(fp, state) ==   \* mutant: a repeat counts like a new alert
    \/ /\ state = "firing"
       /\ firing' = firing \cup {fp}
       /\ hosts' = Bump(fp[1], 1)
    \/ /\ state = "resolved"
       /\ firing' = firing \ {fp}
       /\ hosts' = IF fp \in firing THEN Bump(fp[1], -1) ELSE hosts

\* apply_alert: both locks are held, firing first.
ApplyAlert(fp, state) ==
    \/ /\ state = "firing"
       /\ firing' = firing \cup {fp}
       /\ hosts' = IF fp \in firing THEN hosts ELSE Bump(fp[1], 1)
    \/ /\ state = "resolved"
       /\ firing' = firing \ {fp}
       /\ hosts' = IF fp \in firing THEN Bump(fp[1], -1) ELSE hosts

\* The Boolean apply_alert returns: worth broadcasting.
Changed(fp, state) == state = "firing" \/ fp \in firing

\* touch_host: last_seen is the stamp of the message, older or newer.
Touch(h, ts) ==
    IF Known(h) THEN [hosts EXCEPT ![h].last_seen = ts]
    ELSE [hosts EXCEPT ![h] = [last_seen |-> ts, firing_count |-> 0, maintenance |-> FALSE]]

\* register_hello: last_seen only for a host not known yet.
Register(h, started, m) ==
    IF Known(h) THEN [hosts EXCEPT ![h].maintenance = m]
    ELSE [hosts EXCEPT ![h] = [last_seen |-> started, firing_count |-> 0, maintenance |-> m]]

PersistUnbounded == queued' = queued + 1   \* mutant: an unbounded channel

\* mpsc try_send to the store writer: a full queue loses the record.
Persist == queued' = IF queued < WriterCap THEN queued + 1 ELSE queued

-----------------------------------------------------------------------------
(* ws_ingest.rs: handle_socket.  A stamp is the agent's clock when the     *)
(* message was made: messages wait in the agent's lanes, and its clock is  *)
(* not the collector's.                                                    *)

Stamps == 0 .. MaxTime

Speaks(c) == handler[c].stage = "reading" /\ leaked[ConnHost[c]] < MaxLeaks

Hello(c, started, m) ==
    /\ Speaks(c)
    /\ hosts' = Register(ConnHost[c], started, m)
    /\ handler' = [handler EXCEPT ![c].greeted = TRUE]
    /\ Broadcast(HostEvent)
    /\ UNCHANGED <<now, firing, queued, syslog, request, online, scan, leaked>>

Heartbeat(c, ts) ==
    /\ Speaks(c)
    /\ hosts' = Touch(ConnHost[c], ts)
    /\ Broadcast(HostEvent)
    /\ UNCHANGED <<now, firing, queued, handler, syslog, request, online, scan, leaked>>

\* An alert of a host in maintenance is skipped before anything is touched.
AlertRead(c, m, state, ts) ==
    /\ Speaks(c)
    /\ ~(Known(ConnHost[c]) /\ hosts[ConnHost[c]].maintenance)
    /\ hosts' = Touch(ConnHost[c], ts)
    /\ handler' = [handler EXCEPT ![c] =
           [greeted |-> @.greeted, stage |-> "applying",
            fp |-> <<ConnHost[c], m>>, state |-> state]]
    /\ UNCHANGED <<now, firing, feed, queued, syslog, request, online, scan, leaked>>

AlertApply(c) ==
    LET fp == handler[c].fp
        state == handler[c].state
    IN  /\ handler[c].stage = "applying"
        /\ ApplyAlert(fp, state)
        /\ Persist
        /\ handler' = [handler EXCEPT ![c] =
               IF Changed(fp, state) THEN [@ EXCEPT !.stage = "telling"] ELSE Idle(@.greeted)]
        /\ UNCHANGED <<now, feed, syslog, request, online, scan, leaked>>

AlertTell(c) ==
    /\ handler[c].stage = "telling"
    /\ Broadcast(AlertEvent(handler[c].fp, handler[c].state))
    /\ handler' = [handler EXCEPT ![c] = Idle(@.greeted)]
    /\ UNCHANGED <<now, hosts, firing, queued, syslog, request, online, scan, leaked>>

\* The socket ends.  Only a connection that carried a Hello says so; the next
\* connection of the same host may use c again.
Disconnect(c) ==
    /\ handler[c].stage = "reading" /\ handler[c].greeted
    /\ Broadcast(HostEvent)
    /\ handler' = [handler EXCEPT ![c] = Idle(FALSE)]
    /\ UNCHANGED <<now, hosts, firing, queued, syslog, request, online, scan, leaked>>

-----------------------------------------------------------------------------
(* syslog_in.rs: handle_line.  Nothing is persisted, no host is touched.   *)

SyslogApply(p) ==
    /\ p \notin syslog
    /\ ApplyAlert(<<p, "syslog_event">>, "firing")
    /\ syslog' = syslog \cup {p}
    /\ UNCHANGED <<now, feed, queued, handler, request, online, scan, leaked>>

SyslogTell(p) ==
    /\ p \in syslog
    /\ Broadcast(AlertEvent(<<p, "syslog_event">>, "firing"))
    /\ syslog' = syslog \ {p}
    /\ UNCHANGED <<now, hosts, firing, queued, handler, request, online, scan, leaked>>

-----------------------------------------------------------------------------
(* http.rs: api_resolve.                                                   *)

\* A fingerprint that is not firing is answered 404 and changes nothing.
ResolveRemove(o, fp) ==
    /\ request[o] = None
    /\ fp \in firing
    /\ firing' = firing \ {fp}
    /\ request' = [request EXCEPT ![o] = [stage |-> "removed", fp |-> fp]]
    /\ UNCHANGED <<now, hosts, feed, queued, handler, syslog, online, scan, leaked>>

ResolveDecrement(o) ==
    /\ request[o] # None /\ request[o].stage = "removed"
    /\ hosts' = Bump(request[o].fp[1], -1)
    /\ request' = [request EXCEPT ![o].stage = "telling"]
    /\ UNCHANGED <<now, firing, feed, queued, handler, syslog, online, scan, leaked>>

ResolveTell(o) ==
    /\ request[o] # None /\ request[o].stage = "telling"
    /\ Persist
    /\ Broadcast(AlertEvent(request[o].fp, "resolved"))
    /\ request' = [request EXCEPT ![o] = None]
    /\ UNCHANGED <<now, hosts, firing, handler, syslog, online, scan, leaked>>

-----------------------------------------------------------------------------
(* main.rs: spawn_offline_watcher.                                         *)

OfflineFp(h) == <<h, "host_offline">>

WatchScan ==
    /\ scan = None
    /\ scan' = [at |-> now, clone |-> hosts, todo |-> {h \in Agents : Known(h)},
                tell |-> None]
    /\ UNCHANGED <<now, hosts, firing, feed, queued, handler, syslog, request,
                   online, leaked>>

VerdictLate(h) ==   \* mutant: one second of grace too many
    IF scan.at - scan.clone[h].last_seen <= OfflineAfter + 1 THEN "online" ELSE "offline"

Verdict(h) == IF Recent(scan.clone[h].last_seen, scan.at) THEN "online" ELSE "offline"

WatchHostEager(h) ==   \* mutant: host_offline is put in firing at every pass
    LET gone == Verdict(h) = "offline"
        fp == OfflineFp(h)
    IN  /\ scan # None /\ scan.tell = None /\ h \in scan.todo
        /\ online' = [online EXCEPT ![h] = Verdict(h)]
        /\ scan' = [scan EXCEPT !.todo = @ \ {h}]
        /\ IF gone THEN ApplyAlert(fp, "firing") ELSE UNCHANGED <<firing, hosts>>
        /\ UNCHANGED <<now, feed, queued, handler, syslog, request, leaked>>

\* The clone decides.  host_offline is applied when a host is found offline and
\* removed, without a decrement, when it is found online.
WatchHost(h) ==
    LET gone == Verdict(h) = "offline"
        fp == OfflineFp(h)
        cleared == ~gone /\ online[h] # Verdict(h) /\ fp \in firing
    IN  /\ scan # None /\ scan.tell = None /\ h \in scan.todo
        /\ online' = [online EXCEPT ![h] = Verdict(h)]
        /\ IF online[h] = Verdict(h)
           THEN /\ scan' = [scan EXCEPT !.todo = @ \ {h}]
                /\ UNCHANGED <<hosts, firing, feed>>
           ELSE /\ Broadcast(HostEvent)
                /\ IF gone THEN ApplyAlert(fp, "firing")
                   ELSE firing' = firing \ {fp} /\ UNCHANGED hosts
                /\ scan' = [scan EXCEPT !.todo = @ \ {h},
                       !.tell = IF gone THEN <<fp, "firing">>
                                ELSE IF cleared THEN <<fp, "resolved">> ELSE None]
        /\ leaked' = [leaked EXCEPT ![h] = IF cleared THEN @ + 1 ELSE @]
        /\ UNCHANGED <<now, queued, handler, syslog, request>>

WatchTell ==
    /\ scan # None /\ scan.tell # None
    /\ Broadcast(AlertEvent(scan.tell[1], scan.tell[2]))
    /\ scan' = [scan EXCEPT !.tell = None]
    /\ UNCHANGED <<now, hosts, firing, queued, handler, syslog, request, online, leaked>>

WatchSleepKeepsClone ==   \* mutant: hosts are cloned before the loop
    /\ scan # None /\ scan.tell = None /\ scan.todo = {}
    /\ scan' = [scan EXCEPT !.at = now, !.todo = {h \in Agents : scan.clone[h] # None}]
    /\ UNCHANGED <<now, hosts, firing, feed, queued, handler, syslog, request,
                   online, leaked>>

\* The next tick of the 2 s interval.
WatchSleep ==
    /\ scan # None /\ scan.tell = None /\ scan.todo = {}
    /\ scan' = None
    /\ UNCHANGED <<now, hosts, firing, feed, queued, handler, syslog, request,
                   online, leaked>>

-----------------------------------------------------------------------------
(* The store writer takes a record; time passes; the process is restarted  *)
(* with empty maps and no connections.                                     *)

WriterTakes ==
    /\ queued > 0
    /\ queued' = queued - 1
    /\ UNCHANGED <<now, hosts, firing, feed, handler, syslog, request, online,
                   scan, leaked>>

Tick ==
    /\ now < MaxTime
    /\ now' = now + 1
    /\ UNCHANGED <<hosts, firing, feed, queued, handler, syslog, request, online,
                   scan, leaked>>

Restart ==
    /\ UNCHANGED now
    /\ hosts' = [h \in Agents |-> None]
    /\ firing' = {}
    /\ feed' = [s \in Subscribers |-> None]
    /\ queued' = 0
    /\ handler' = [c \in Conns |-> Idle(FALSE)]
    /\ syslog' = {}
    /\ request' = [o \in Operators |-> None]
    /\ online' = [h \in Agents |-> "unknown"]
    /\ scan' = None
    /\ leaked' = [h \in Agents |-> 0]

Ingest(c) ==
    \/ \E ts \in Stamps : \/ \E m \in BOOLEAN : Hello(c, ts, m)
                          \/ Heartbeat(c, ts)
                          \/ \E m \in Metrics, state \in States : AlertRead(c, m, state, ts)
    \/ AlertApply(c) \/ AlertTell(c) \/ Disconnect(c)

Resolve(o) ==
    \/ \E fp \in Fps : ResolveRemove(o, fp)
    \/ ResolveDecrement(o) \/ ResolveTell(o)

Watch == WatchScan \/ (\E h \in Agents : WatchHost(h)) \/ WatchTell \/ WatchSleep

Next ==
    \/ \E c \in Conns : Ingest(c)
    \/ \E p \in Peers : SyslogApply(p) \/ SyslogTell(p)
    \/ \E o \in Operators : Resolve(o)
    \/ Watch
    \/ WriterTakes \/ Tick \/ Restart

Spec == Init /\ [][Next]_vars

\* The runtime keeps polling the watcher, and time passes.  Nothing is assumed
\* of agents, operators or browsers.
FairSpec == Spec /\ WF_vars(Watch) /\ WF_vars(Tick)

-----------------------------------------------------------------------------
(* Properties.                                                             *)

FiringOf(h) == {fp \in firing : fp[1] = h}

\* Requests between the removal from firing and the decrement.
Owed(h) == {o \in Operators : request[o] # None /\ request[o].stage = "removed"
                                 /\ request[o].fp[1] = h}

\* A host's firing_count is the number of its alerts in the firing map, plus
\* the decrements that operators' requests still owe, plus the ones the watcher
\* leaves out when it clears host_offline: whatever the interleaving of the
\* five writers under two locks, no increment is lost and no other decrement.
CountAccounted ==
    \A h \in Agents : Known(h) =>
        hosts[h].firing_count = Cardinality(FiringOf(h)) + Cardinality(Owed(h)) + leaked[h]

\* host_offline fires only for a host the watcher holds to be offline: the
\* alert never outlives the verdict, whatever operators and agents do meanwhile.
OfflineAlertJustified ==
    \A h \in Agents : OfflineFp(h) \in firing => online[h] = "offline"

Silent(h) == Known(h) /\ ~Recent(hosts[h].last_seen, now)

Heard(h) == Known(h) /\ Recent(hosts[h].last_seen, now)

\* The verdict catches up with last_seen, although it is made on a clone that
\* heartbeats and alerts have overtaken: a host that stays silent is held to be
\* offline in the end, and one that is heard again and again is left without a
\* host_offline alert, for good.
WatcherCatchesUp ==
    \A h \in Agents :
        /\ <>[]Silent(h) => <>[](online[h] = "offline")
        /\ <>[]Heard(h) => <>[](OfflineFp(h) \notin firing)

\* shared/src/lib.rs, HostStatus/Heartbeat: firing_count is the number of alerts
\* currently firing on the host (taken when no request is in between).
CountExact ==
    \A h \in Agents : Known(h) /\ Owed(h) = {} =>
        hosts[h].firing_count = Cardinality(FiringOf(h))
=============================================================================
