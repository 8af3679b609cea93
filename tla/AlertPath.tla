----------------------------- MODULE AlertPath -----------------------------
(***************************************************************************)
(* One recoverable condition of one host on its whole way: the poll that   *)
(* reads it, the tracker's entry (agent/src/state.rs), the normal lane of  *)
(* the sink (bus.rs), the transport (transport.rs), the handlers of the    *)
(* collector's ingest sockets (collector/src/ws_ingest.rs) and the firing  *)
(* map (collector/src/state.rs).  AlertTracker, AgentLink and Collector    *)
(* model these parts one by one and in more detail; this module is about   *)
(* whether the two ends agree, and about the processes that crash between. *)
(*                                                                         *)
(* Time is counted in polls, relative to the last emission, so that it     *)
(* stays finite without a clock that stops: liveness needs polls forever.  *)
(***************************************************************************)
EXTENDS Integers, Sequences

CONSTANTS
    ReNotify,    \* AlertTracker.re_notify, in polls
    Recovery,    \* AlertTracker.recovery, in polls
    LaneCap,     \* send_queue_size
    NetCap,      \* frames the sockets of one connection hold
    None,
    MaxFaults    \* bound: breaks, restarts and operator clicks

ASSUME PathAssumption ==
    /\ ReNotify \in Nat \ {0} /\ Recovery \in Nat \ {0}
    /\ LaneCap \in Nat \ {0} /\ NetCap \in Nat \ {0}
    /\ None \notin Nat \cup {"firing", "resolved"}
    /\ MaxFaults \in Nat

VARIABLES
    bad,         \* the condition holds on the host
    mode,        \* AlertSink.suppress_alerts of the running agent
    silent,      \* polls since last_emitted, up to ReNotify; None without an entry
    ok,          \* polls since ok_since; None while it is None
    lane,        \* the normal mpsc lane
    up,          \* the transport is in pump
    alive,       \* the network has not broken the current connection
    net,         \* net[c]: frames written on connection c, not yet read
    ahead,       \* observer: a frame of the current connection has been read
    hand,        \* hand[c]: the alert c's handler has let through, not yet applied
    firing,      \* the collector's firing map holds the fingerprint
    muted,       \* HostInfo.maintenance
    faults,      \* bound: faults so far
    blame        \* observer: what went wrong since the ends last agreed

vars == <<bad, mode, silent, ok, lane, up, alive, net, ahead, hand, firing, muted,
          faults, blame>>

\* The current (or last) connection and the one before: when the transport
\* connects, nothing is left of any earlier one.
Conns == {"cur", "old"}

Alerts == {"firing", "resolved"}
Hellos == {"hello", "hello_maintenance"}
Messages == Alerts \cup Hellos
Hello(m) == IF m THEN "hello_maintenance" ELSE "hello"
Lost(m) == IF m \in Hellos THEN "hello_lost"
           ELSE IF m = "firing" THEN "firing_lost" ELSE "resolved_lost"
Causes == {"firing_lost", "resolved_lost", "hello_lost", "late", "muted",
           "agent", "collector", "operator"}

TypeOK ==
    /\ bad \in BOOLEAN /\ mode \in BOOLEAN
    /\ silent \in 0 .. ReNotify \cup {None}
    /\ ok \in 0 .. Recovery \cup {None}
    /\ ok # None => silent # None
    /\ lane \in Seq(Messages) /\ Len(lane) <= LaneCap
    /\ up \in BOOLEAN /\ alive \in BOOLEAN
    /\ alive => up
    /\ ahead \in BOOLEAN
    /\ net \in [Conns -> Seq(Messages)] /\ \A c \in Conns : Len(net[c]) <= NetCap
    /\ hand \in [Conns -> Alerts \cup {None}]
    /\ firing \in BOOLEAN /\ muted \in BOOLEAN
    /\ faults \in 0 .. MaxFaults
    /\ blame \subseteq Causes

-----------------------------------------------------------------------------
\* Nothing is under way between the two ends.
Quiet == lane = <<>> /\ \A c \in Conns : net[c] = <<>> /\ hand[c] = None

\* The agent's entry, the firing map and the maintenance flag tell one story.
Agree == muted = mode /\ ~mode /\ (firing <=> silent # None)

\* The observer forgets the past whenever the two ends agree and nothing moves.
Note(causes) == blame' = IF (Quiet /\ Agree)' THEN {} ELSE blame \cup causes

Fault == faults < MaxFaults /\ faults' = faults + 1

Init ==
    /\ bad \in BOOLEAN /\ mode \in BOOLEAN
    /\ silent = None /\ ok = None
    /\ lane = <<Hello(mode)>>
    /\ up = FALSE /\ alive = FALSE /\ ahead = FALSE
    /\ net = [c \in Conns |-> <<>>] /\ hand = [c \in Conns |-> None]
    /\ firing = FALSE /\ muted = FALSE
    /\ faults = 0 /\ blame = {}

\* The condition comes or goes.
Change ==
    /\ bad' = ~bad
    /\ UNCHANGED <<mode, silent, ok, lane, up, alive, net, ahead, hand, firing, muted, faults>>
    /\ Note({})

-----------------------------------------------------------------------------
(* The agent: poll, AlertTracker::observe / observe_ok, AlertSink::send.   *)

\* AlertSink::send: nothing under maintenance, and a full lane discards the new
\* message, the resolution of what was queued before included.
SendAlert(m) ==
    /\ UNCHANGED faults
    /\ \/ mode /\ UNCHANGED lane /\ Note({})
       \/ ~mode /\ Len(lane) < LaneCap /\ lane' = Append(lane, m) /\ Note({})
       \/ ~mode /\ Len(lane) = LaneCap /\ UNCHANGED lane /\ Note({Lost(m)})

NoSend == UNCHANGED <<lane, faults>> /\ Note({})

Later(n) == IF n < ReNotify THEN n + 1 ELSE n

PollBadOnce ==      \* mutant: an open episode is never announced again
    /\ bad
    /\ UNCHANGED <<bad, mode, up, alive, net, ahead, hand, firing, muted>>
    /\ ok' = None
    /\ \/ silent = None /\ silent' = 0 /\ SendAlert("firing")
       \/ silent # None /\ silent' = Later(silent) /\ NoSend

\* A poll that reads the condition calls observe.
PollBad ==
    /\ bad
    /\ UNCHANGED <<bad, mode, up, alive, net, ahead, hand, firing, muted>>
    /\ ok' = None
    /\ \/ silent = None /\ silent' = 0 /\ SendAlert("firing")
       \/ /\ silent # None /\ Later(silent) >= ReNotify
          /\ silent' = 0 /\ SendAlert("firing")
       \/ /\ silent # None /\ Later(silent) < ReNotify
          /\ silent' = Later(silent) /\ NoSend

PollOkQuietly ==    \* mutant: the entry is dropped, the resolution not sent
    /\ ~bad
    /\ UNCHANGED <<bad, mode, up, alive, net, ahead, hand, firing, muted>>
    /\ silent' = None /\ ok' = None /\ NoSend

PollOkKeepsOk ==    \* mutant: the recovery window outlives its entry
    /\ ~bad
    /\ UNCHANGED <<bad, mode, up, alive, net, ahead, hand, firing, muted>>
    /\ \/ silent = None /\ UNCHANGED <<silent, ok>> /\ NoSend
       \/ silent # None /\ ok = None /\ ok' = 0 /\ UNCHANGED silent /\ NoSend
       \/ /\ silent # None /\ ok # None
          /\ silent' = None /\ UNCHANGED ok /\ SendAlert("resolved")

\* A poll that does not calls observe_ok.
PollOk ==
    /\ ~bad
    /\ UNCHANGED <<bad, mode, up, alive, net, ahead, hand, firing, muted>>
    /\ \/ silent = None /\ UNCHANGED <<silent, ok>> /\ NoSend
       \/ /\ silent # None /\ ok = None
          /\ ok' = 0 /\ silent' = Later(silent) /\ NoSend
       \/ /\ silent # None /\ ok # None /\ ok + 1 < Recovery
          /\ ok' = ok + 1 /\ silent' = Later(silent) /\ NoSend
       \/ /\ silent # None /\ ok # None /\ ok + 1 >= Recovery
          /\ silent' = None /\ ok' = None /\ SendAlert("resolved")

\* The process dies and systemd starts it again, possibly with another
\* maintenance setting.  Trackers and lanes are new, and main queues one Hello.
\* What the old process had written may still reach the collector.
Restart(m) ==
    /\ Fault
    /\ mode' = m
    /\ silent' = None /\ ok' = None
    /\ lane' = <<Hello(m)>>
    /\ up' = FALSE /\ alive' = FALSE
    /\ UNCHANGED <<bad, net, ahead, hand, firing, muted>>
    /\ Note({"agent"} \cup {Lost(lane[i]) : i \in DOMAIN lane})

-----------------------------------------------------------------------------
(* The transport: run, pump, ship.                                         *)

Connect ==
    /\ ~up
    /\ net["old"] = <<>> /\ hand["old"] = None
    /\ up' = TRUE /\ alive' = TRUE /\ ahead' = FALSE
    /\ net' = [c \in Conns |-> IF c = "old" THEN net["cur"] ELSE <<>>]
    /\ hand' = [c \in Conns |-> IF c = "old" THEN hand["cur"] ELSE None]
    /\ UNCHANGED <<bad, mode, silent, ok, lane, firing, muted, faults>>
    /\ Note({})

\* ship: a message leaves the lane for the socket, which may already be broken.
Ship ==
    /\ up /\ lane # <<>> /\ Len(net["cur"]) < NetCap
    /\ net' = [net EXCEPT !["cur"] = Append(@, Head(lane))]
    /\ lane' = Tail(lane)
    /\ UNCHANGED <<bad, mode, silent, ok, up, alive, ahead, hand, firing, muted, faults>>
    /\ Note({})

\* ws.send fails: the message in hand is gone, and the pump ends.
ShipFails ==
    /\ up /\ ~alive /\ lane # <<>>
    /\ lane' = Tail(lane) /\ up' = FALSE
    /\ UNCHANGED <<bad, mode, silent, ok, alive, net, ahead, hand, firing, muted, faults>>
    /\ Note({Lost(Head(lane))})

\* The end of the stream is seen with nothing to ship.
PumpExit ==
    /\ up /\ ~alive /\ lane = <<>>
    /\ up' = FALSE
    /\ UNCHANGED <<bad, mode, silent, ok, lane, alive, net, ahead, hand, firing, muted, faults>>
    /\ Note({})

Break ==
    /\ alive /\ Fault
    /\ alive' = FALSE
    /\ UNCHANGED <<bad, mode, silent, ok, lane, up, net, ahead, hand, firing, muted>>
    /\ Note({})

\* What a broken connection still held is lost.
Cut(c) ==
    /\ net[c] # <<>> /\ (c = "old" \/ ~alive)
    /\ net' = [net EXCEPT ![c] = <<>>]
    /\ UNCHANGED <<bad, mode, silent, ok, lane, up, alive, ahead, hand, firing, muted, faults>>
    /\ Note({Lost(net[c][i]) : i \in DOMAIN net[c]})

-----------------------------------------------------------------------------
(* The collector: one handler per connection.                              *)

\* A frame of a replaced connection is handled after one of its successor.
LateOn(c) == IF c = "old" /\ ahead THEN {"late"} ELSE {}

Read(c) ==
    /\ net[c] # <<>> /\ hand[c] = None
    /\ net' = [net EXCEPT ![c] = Tail(@)]
    /\ ahead' = (ahead \/ c = "cur")
    /\ UNCHANGED <<bad, mode, silent, ok, lane, up, alive, faults>>

RegisterHelloOnce(c) ==   \* mutant: a known host keeps its maintenance flag
    /\ Read(c) /\ Head(net[c]) \in Hellos
    /\ muted' = (muted \/ Head(net[c]) = "hello_maintenance")
    /\ UNCHANGED <<hand, firing>>
    /\ Note(LateOn(c))

\* register_hello takes the maintenance flag over.
RegisterHello(c) ==
    /\ Read(c) /\ Head(net[c]) \in Hellos
    /\ muted' = (Head(net[c]) = "hello_maintenance")
    /\ UNCHANGED <<hand, firing>>
    /\ Note(LateOn(c))

CheckAlertBlind(c) ==     \* mutant: maintenance is not consulted
    /\ Read(c) /\ Head(net[c]) \in Alerts
    /\ UNCHANGED <<firing, muted>>
    /\ hand' = [hand EXCEPT ![c] = Head(net[c])] /\ Note({})

\* An alert of a host in maintenance is ignored, any other let through.
CheckAlert(c) ==
    /\ Read(c) /\ Head(net[c]) \in Alerts
    /\ UNCHANGED <<firing, muted>>
    /\ \/ muted /\ UNCHANGED hand /\ Note({"muted"})
       \/ ~muted /\ hand' = [hand EXCEPT ![c] = Head(net[c])] /\ Note({})

\* apply_alert, under a lock of its own: maintenance may have begun meanwhile.
ApplyAlert(c) ==
    /\ hand[c] # None
    /\ firing' = (hand[c] = "firing")
    /\ hand' = [hand EXCEPT ![c] = None]
    /\ UNCHANGED <<bad, mode, silent, ok, lane, up, alive, ahead, net, muted, faults>>
    /\ Note(LateOn(c))

\* The collector's maps are in memory only: it knows nothing after a restart.
CollectorRestart ==
    /\ Fault
    /\ firing' = FALSE /\ muted' = FALSE
    /\ net' = [c \in Conns |-> <<>>] /\ hand' = [c \in Conns |-> None]
    /\ alive' = FALSE
    /\ UNCHANGED <<bad, mode, silent, ok, lane, up, ahead>>
    /\ Note({"collector"} \cup UNION {{Lost(net[c][i]) : i \in DOMAIN net[c]} : c \in Conns})

\* POST /api/resolve of an operator.
OperatorResolve ==
    /\ firing /\ Fault
    /\ firing' = FALSE
    /\ UNCHANGED <<bad, mode, silent, ok, lane, up, alive, net, ahead, hand, muted>>
    /\ Note({"operator"})

Next ==
    \/ Change \/ PollBad \/ PollOk
    \/ \E m \in BOOLEAN : Restart(m)
    \/ Connect \/ Ship \/ ShipFails \/ PumpExit \/ Break
    \/ \E c \in Conns : Cut(c) \/ RegisterHello(c) \/ CheckAlert(c) \/ ApplyAlert(c)
    \/ CollectorRestart \/ OperatorResolve

Spec == Init /\ [][Next]_vars

\* Polls go on, tokio keeps polling the transport and the handlers, a broken
\* connection does not swallow messages for ever (set_keepalive, the pings of
\* pump), and a connect that is tried long enough succeeds.
Fairness ==
    /\ WF_vars(PollBad) /\ WF_vars(PollOk)
    /\ WF_vars(Connect)
    /\ WF_vars(Ship \/ ShipFails)
    /\ SF_vars(ShipFails \/ PumpExit)
    /\ \A c \in Conns :
         WF_vars(Cut(c) \/ RegisterHello(c) \/ CheckAlert(c) \/ ApplyAlert(c))

FairSpec == Spec /\ Fairness

-----------------------------------------------------------------------------
(* Properties.                                                             *)

\* An alarm that the collector shows for a condition the agent no longer has
\* open is due to a lost or ignored resolution, a restart of the agent, which
\* forgets the episode it owes a resolution for (state.rs AlertTracker), or to
\* an older connection's frame applied late.  An open episode that is not shown
\* is due to a lost or ignored alert, a restart of the collector, an operator,
\* or a late frame.  Nothing else separates the two ends.
DisagreementExplained ==
    Quiet /\ ~mode =>
        /\ firing /\ silent = None =>
             blame \cap {"resolved_lost", "muted", "agent", "late"} # {}
        /\ ~firing /\ silent # None =>
             blame \cap {"firing_lost", "muted", "collector", "operator", "late"} # {}

\* The collector's idea of the host's maintenance differs from the agent's only
\* after a lost Hello, a restart of the collector or a late frame: main sends
\* one Hello per process, never one per connection (main.rs:151).
MutedExplained ==
    Quiet /\ muted # mode => blame \cap {"hello_lost", "collector", "late"} # {}

\* An alarm appears for a host in maintenance only through the window between
\* host_in_maintenance and apply_alert (ws_ingest.rs:72), and that takes two
\* connections: on one connection a Hello never slips in between.
MaintenanceRespected ==
    [][~firing /\ firing' /\ muted => "late" \in blame']_vars

\* A condition that stays bad ends up shown and stays shown, whatever was lost
\* and whoever restarted before: re-notification heals it, unless the collector
\* believes the host to be in maintenance.
StandingAlarmShown == <>[](bad /\ ~mode /\ ~muted) => <>[]firing
-----------------------------------------------------------------------------
(* The inductive invariant.                                                *)
(*                                                                         *)
(* What is under way is ordered: the lane is behind the current connection,*)
(* that is behind its handler's alert, and the old connection is before    *)
(* them all.  The last alert and the last Hello on this way are the ones   *)
(* that count; what the old connection holds counts only until a frame of  *)
(* its successor has been read, for from then on it is late.               *)

Without(s, kind) == \A i \in 1 .. Len(s) : s[i] \notin kind

LastIs(s, kind, m) ==
    \E i \in 1 .. Len(s) :
      s[i] = m /\ \A j \in 1 .. Len(s) : j > i => s[j] \notin kind

\* The story the collector should come to tell, and what excuses that it does not.
Due == IF silent = None THEN "resolved" ELSE "firing"
Shown == firing <=> silent # None
Excuses == IF silent = None THEN {"resolved_lost", "muted", "agent", "late"}
           ELSE {"firing_lost", "muted", "collector", "operator", "late"}

\* The alert that is due is the last one under way, or has been applied.
AlertOnOld ==
    \/ LastIs(net["old"], Alerts, Due)
    \/ Without(net["old"], Alerts) /\ hand["old"] = Due
    \/ Without(net["old"], Alerts) /\ hand["old"] = None /\ Shown
    \/ ahead /\ Shown

AlertOnCur ==
    \/ LastIs(net["cur"], Alerts, Due)
    \/ Without(net["cur"], Alerts) /\ hand["cur"] = Due
    \/ Without(net["cur"], Alerts) /\ hand["cur"] = None /\ AlertOnOld

AlertUnderWay == LastIs(lane, Alerts, Due) \/ (Without(lane, Alerts) /\ AlertOnCur)

AlertAccounted == mode \/ blame \cap Excuses # {} \/ AlertUnderWay

\* The Hello of the running process is the last one under way, or has been read.
HelloOnOld ==
    \/ LastIs(net["old"], Hellos, Hello(mode))
    \/ Without(net["old"], Hellos) /\ muted = mode
    \/ ahead /\ ~Without(net["old"], Hellos)

HelloOnCur ==
    \/ LastIs(net["cur"], Hellos, Hello(mode))
    \/ Without(net["cur"], Hellos) /\ HelloOnOld

HelloUnderWay ==
    LastIs(lane, Hellos, Hello(mode)) \/ (Without(lane, Hellos) /\ HelloOnCur)

HelloAccounted == blame \cap {"hello_lost", "collector", "late"} # {} \/ HelloUnderWay

\* An alert that a handler has let through and that maintenance has overtaken
\* comes from a replaced connection, or an old Hello has come late.
HandsChecked ==
    /\ hand["cur"] # None => ahead
    /\ \A c \in Conns :
         muted /\ hand[c] # None => "late" \in blame \/ (c = "old" /\ ahead)

IInv == TypeOK /\ AlertAccounted /\ HelloAccounted /\ HandsChecked

=============================================================================
