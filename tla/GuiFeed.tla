------------------------------ MODULE GuiFeed ------------------------------
(***************************************************************************)
(* The collector together with its browsers: the subscription handler      *)
(* (collector/src/ws_subscribe.rs), the history wipe that re-broadcasts a  *)
(* snapshot (http.rs) and the browser's reducer (gui/app.js, handle).      *)
(*                                                                         *)
(* What a browser shows stands for what it shows once the frames already   *)
(* sent to it have been rendered: a WebSocket keeps their order.           *)
(***************************************************************************)
EXTENDS Collector

CONSTANT Wipes   \* history wipes in flight

VARIABLES
    stage,    \* stage[b]: "closed", "reading", "unsubscribed", "live"
    shown,    \* shown[b]: fingerprints in state.alerts of browser b
    clear,    \* clear[w]: api_clear_history call w, the alerts of its snapshot, or None
    suspect   \* observer: alerts b may be wrong about, see GuiNext

gui == <<stage, shown, clear, suspect>>
allVars == <<vars, gui>>

\* What is broadcast, and the receiver of one subscription.
Event ==
    [type : {"alert"}, fp : Fps, state : States] \cup [type : {"snapshot"}, alerts : SUBSET Fps]
      \cup {HostEvent}
Receiver == [unread : Seq(Event), lagged : BOOLEAN]

ASSUME GuiAssumption == None \notin Receiver \cup (Fps \X States)

GuiTypeOK ==
    /\ stage \in [Subscribers -> {"closed", "reading", "unsubscribed", "live"}]
    /\ shown \in [Subscribers -> SUBSET Fps]
    /\ clear \in [Wipes -> (SUBSET Fps) \cup {None}]
    /\ feed \in [Subscribers -> Receiver \cup {None}]
    /\ \A b \in Subscribers : (feed[b] # None) <=> (stage[b] = "live")

GuiInit ==
    /\ Init
    /\ stage = [b \in Subscribers |-> "closed"]
    /\ shown = [b \in Subscribers |-> {}]
    /\ clear = [w \in Wipes |-> None]
    /\ suspect = [b \in Subscribers |-> {}]

-----------------------------------------------------------------------------
(* ws_subscribe.rs: handle_socket.                                         *)

\* snapshot() reads firing under its lock, then hosts under theirs.
Open(b) ==
    /\ stage[b] = "closed"
    /\ stage' = [stage EXCEPT ![b] = "reading"]
    /\ shown' = [shown EXCEPT ![b] = firing]
    /\ UNCHANGED <<vars, clear>>

SendSnapshot(b) ==
    /\ stage[b] = "reading"
    /\ stage' = [stage EXCEPT ![b] = "unsubscribed"]
    /\ UNCHANGED <<vars, shown, clear>>

SetFeed(b, f) ==
    /\ feed' = [feed EXCEPT ![b] = f]
    /\ UNCHANGED <<now, hosts, firing, queued, handler, syslog, request, online, scan, leaked>>

\* fanout.subscribe() is called only after the snapshot has been written.
Subscribe(b) ==
    /\ stage[b] = "unsubscribed"
    /\ stage' = [stage EXCEPT ![b] = "live"]
    /\ SetFeed(b, [unread |-> <<>>, lagged |-> FALSE])
    /\ UNCHANGED <<shown, clear>>

\* The connection ends, at any stage; app.js reconnects after its backoff.
Close(b) ==
    /\ stage[b] # "closed"
    /\ stage' = [stage EXCEPT ![b] = "closed"]
    /\ SetFeed(b, None)
    /\ UNCHANGED <<shown, clear>>

LaggedContinues(b) ==   \* mutant: the receiver carries on after the lost events
    /\ stage[b] = "live" /\ feed[b].lagged
    /\ SetFeed(b, [feed[b] EXCEPT !.lagged = FALSE])
    /\ UNCHANGED <<stage, shown, clear>>

\* RecvError::Lagged: the handler returns, which closes the socket.
Lagged(b) ==
    /\ stage[b] = "live" /\ feed[b].lagged
    /\ stage' = [stage EXCEPT ![b] = "closed"]
    /\ SetFeed(b, None)
    /\ UNCHANGED <<shown, clear>>

-----------------------------------------------------------------------------
(* app.js: handle, on an event the handler forwarded.                      *)

ShownAfter(s, e) ==
    CASE e.type = "snapshot" -> e.alerts
      [] e.type = "alert" /\ e.state = "firing" -> s \cup {e.fp}
      [] e.type = "alert" /\ e.state = "resolved" -> s \ {e.fp}
      [] OTHER -> s

Receive(b) ==
    /\ stage[b] = "live" /\ ~feed[b].lagged /\ feed[b].unread # <<>>
    /\ shown' = [shown EXCEPT ![b] = ShownAfter(@, Head(feed[b].unread))]
    /\ SetFeed(b, [feed[b] EXCEPT !.unread = Tail(@)])
    /\ UNCHANGED <<stage, clear>>

-----------------------------------------------------------------------------
(* http.rs: api_clear_history.  The store is emptied, a snapshot is taken  *)
(* and broadcast.                                                          *)

ClearHistory(w) ==
    /\ clear[w] = None
    /\ clear' = [clear EXCEPT ![w] = firing]
    /\ UNCHANGED <<vars, stage, shown>>

ClearTell(w) ==
    /\ clear[w] # None
    /\ Broadcast([type |-> "snapshot", alerts |-> clear[w]])
    /\ clear' = [clear EXCEPT ![w] = None]
    /\ UNCHANGED <<now, hosts, firing, queued, handler, syslog, request, online, scan,
                   leaked, stage, shown>>

-----------------------------------------------------------------------------
CollectorStep ==
    /\ \/ \E c \in Conns : Ingest(c)
       \/ \E p \in Peers : SyslogApply(p) \/ SyslogTell(p)
       \/ \E o \in Operators : Resolve(o)
       \/ Watch \/ WriterTakes \/ Tick
    /\ UNCHANGED <<stage, shown, clear>>

RestartAll ==
    /\ Restart
    /\ stage' = [b \in Subscribers |-> "closed"]
    /\ clear' = [w \in Wipes |-> None]
    /\ UNCHANGED <<shown>>

GuiStep ==
    \/ CollectorStep \/ RestartAll
    \/ \E w \in Wipes : ClearHistory(w) \/ ClearTell(w)
    \/ \E b \in Subscribers :
          Open(b) \/ SendSnapshot(b) \/ Subscribe(b) \/ Close(b) \/ Lagged(b) \/ Receive(b)

\* Alert events applied to firing and not yet broadcast.
Untold ==
    {<<handler[c].fp, handler[c].state>> : c \in {d \in Conns : handler[d].stage = "telling"}}
      \cup {<<<<p, "syslog_event">>, "firing">> : p \in syslog}
      \cup {<<request[o].fp, "resolved">> : o \in {q \in Operators : request[q] # None}}
      \cup (IF scan # None /\ scan.tell # None THEN {scan.tell} ELSE {})

\* Fingerprints with an event, or a snapshot, still to come that firing has
\* moved past.
Overtaken ==
    {e[1] : e \in {u \in Untold : (u[2] = "firing") # (u[1] \in firing)}}
      \cup UNION {(clear[w] \ firing) \cup (firing \ clear[w]) :
                     w \in {v \in Wipes : clear[v] # None}}

Turned == {fp \in Fps : (fp \in firing) # (fp \in firing')}

\* A browser can be wrong about an alert for two reasons only: it changed
\* between the snapshot and the subscription, or its changes were broadcast in
\* another order than they were applied, a history wipe's snapshot included.
SuspectNext(b) ==
    Overtaken' \cup CASE stage[b] = "closed" -> {}
                      [] stage[b] \in {"reading", "unsubscribed"} -> suspect[b] \cup Turned
                      [] OTHER -> suspect[b]

GuiNext == GuiStep /\ suspect' = [b \in Subscribers |-> SuspectNext(b)]

GuiSpec == GuiInit /\ [][GuiNext]_allVars

-----------------------------------------------------------------------------
(* Properties.                                                             *)

CaughtUp(b) == stage[b] = "live" /\ ~feed[b].lagged /\ feed[b].unread = <<>>

\* A browser that has received everything shows exactly the firing map, but
\* for the alerts it is suspected on and those whose broadcast is still to
\* come: lagging, reconnecting, repeated and lost events leave no other gap.
ViewAgrees ==
    \A b \in Subscribers : CaughtUp(b) =>
        \A fp \in Fps \ (suspect[b] \cup {e[1] : e \in Untold}) :
            (fp \in shown[b]) <=> (fp \in firing)

-----------------------------------------------------------------------------
(* The inductive invariant of ViewAgrees.                                  *)

\* An event settles what is shown of fp, and how.
Settles(e, fp) == e.type = "snapshot" \/ (e.type = "alert" /\ e.fp = fp)
Says(e, fp) == IF e.type = "snapshot" THEN fp \in e.alerts ELSE e.state = "firing"

\* A browser that shows s will, after the events u, show fp exactly if v: the
\* last event that settles fp says so, or none does and s does.
LeadsTo(u, s, fp, v) ==
    /\ \A k \in DOMAIN u :
           Settles(u[k], fp) /\ (\A j \in DOMAIN u : j > k => ~Settles(u[j], fp))
              => (Says(u[k], fp) <=> v)
    /\ (\A k \in DOMAIN u : ~Settles(u[k], fp)) => ((fp \in s) <=> v)

UntoldFps == {e[1] : e \in Untold}

\* Whatever is still to come and wrong is suspected in every browser.
SuspectCovers == \A b \in Subscribers : Overtaken \subseteq suspect[b]

\* Before its subscription, a browser is right about what has not changed since
\* its snapshot was taken.
ReadingAgrees ==
    \A b \in Subscribers : stage[b] \in {"reading", "unsubscribed"} =>
        \A fp \in Fps \ suspect[b] : (fp \in shown[b]) <=> (fp \in firing)

\* After it, a browser that has lost nothing will be right once it has handled
\* the events it has been sent.
FeedAgrees ==
    \A b \in Subscribers : stage[b] = "live" /\ ~feed[b].lagged =>
        \A fp \in Fps \ suspect[b] :
            fp \in UntoldFps \/ LeadsTo(feed[b].unread, shown[b], fp, fp \in firing)

GuiInv == GuiTypeOK /\ SuspectCovers /\ ReadingAgrees /\ FeedAgrees
=============================================================================
