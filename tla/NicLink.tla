------------------------------ MODULE NicLink ------------------------------
(***************************************************************************)
(* agent/src/modules/network_nic.rs, run_rtnetlink: link_down and          *)
(* link_flapping alerts of one interface from RTM_NEWLINK messages.        *)
(* Interfaces are independent: the three maps are keyed by ifindex.        *)
(*                                                                         *)
(* The tracker outlives the netlink loop and is reduced to whether it has  *)
(* an entry for the fingerprint: observe makes one, force_resolve drops it *)
(* and hands out the resolved alert.                                       *)
(***************************************************************************)
EXTENDS SlidingWindow

CONSTANTS
    FlapWindow,      \* cfg.flap_window_s
    FlapThreshold,   \* cfg.flap_threshold
    None,
    MaxTime,         \* bound: the clock stops here
    MaxChanges,      \* bound: messages the kernel sends
    MaxSessions      \* bound: netlink connections

OperStates == {"up", "down", "dormant"}   \* any state but "up" counts as down

VARIABLES
    now,         \* the monotonic clock
    link,        \* the kernel's operstate
    wire,        \* RTM_NEWLINK messages not yet read
    last_state,  \* last_state[ifindex], None when absent
    win,         \* history[ifindex]: times of the recent transitions
    down, flap,  \* the tracker has an entry for link_down, link_flapping
    session,     \* number of the current netlink connection, 0 while there is none
    sessions,    \* observer: connections opened so far
    log,         \* observer: every transition handled, with its session
    sends        \* observer: messages sent

vars == <<now, link, wire, last_state, win, down, flap, session, sessions, log, sends>>

TypeOK ==
    /\ now \in 0 .. MaxTime
    /\ link \in OperStates
    /\ wire \in Seq(OperStates)
    /\ last_state \in OperStates \cup {None}
    /\ win \in Seq(0 .. MaxTime)
    /\ down \in BOOLEAN /\ flap \in BOOLEAN
    /\ session \in 0 .. sessions /\ sessions \in Nat
    /\ log \in Seq([at : 0 .. MaxTime, session : Nat])
    /\ sends \in 0 .. MaxChanges
    /\ session = 0 => wire = <<>> /\ last_state = None /\ win = <<>>

Init ==
    /\ now = 0 /\ link \in OperStates
    /\ wire = <<>> /\ last_state = None /\ win = <<>>
    /\ down = FALSE /\ flap = FALSE
    /\ session = 1 /\ sessions = 1
    /\ log = <<>> /\ sends = 0

-----------------------------------------------------------------------------
(* The kernel (external).                                                  *)

Tell(s) == wire' = IF session = 0 THEN wire ELSE Append(wire, s)

LinkChange(s) ==
    /\ s # link /\ sends < MaxChanges
    /\ link' = s /\ Tell(s)
    /\ sends' = sends + 1
    /\ UNCHANGED <<now, last_state, win, down, flap, session, sessions, log>>

\* Another attribute changes: the message repeats the operstate.
AttrChange ==
    /\ sends < MaxChanges
    /\ Tell(link) /\ sends' = sends + 1
    /\ UNCHANGED <<now, link, last_state, win, down, flap, session, sessions, log>>

Tick ==
    /\ now < MaxTime /\ now' = now + 1
    /\ UNCHANGED <<link, wire, last_state, win, down, flap, session, sessions, log, sends>>

-----------------------------------------------------------------------------
(* run_rtnetlink.                                                          *)

TrimInclusive(w) ==   \* mutant: an entry exactly one window old is dropped
    Recent(w, now, FlapWindow - 1)

\* Entries older than the window leave at the front.
Trim(w) == Recent(w, now, FlapWindow)

HandleNarrow ==    \* mutant: only a link that was exactly "down" is resolved
    LET s == Head(wire)
        up == s = "up"
        w == Trim(Append(win, now))
    IN  /\ session # 0 /\ wire # <<>>
        /\ wire' = Tail(wire)
        /\ last_state' = s
        /\ IF last_state = s THEN UNCHANGED <<win, down, flap, log>>
           ELSE /\ down' = IF ~up THEN TRUE ELSE IF last_state = "down" THEN FALSE ELSE down
                /\ win' = w
                /\ flap' = (flap \/ Len(w) >= FlapThreshold)
                /\ log' = Append(log, [at |-> now, session |-> session])
        /\ UNCHANGED <<now, link, session, sessions, sends>>

\* One message.  Only a transition goes further; the first state seen on a
\* connection is one.  Down: observe(link_down).  Up: force_resolve, unless it
\* is the first state seen.  Then the flap window; link_flapping has no resolve.
Handle ==
    LET s == Head(wire)
        up == s = "up"
        w == Trim(Append(win, now))
    IN  /\ session # 0 /\ wire # <<>>
        /\ wire' = Tail(wire)
        /\ last_state' = s
        /\ IF last_state = s THEN UNCHANGED <<win, down, flap, log>>
           ELSE /\ down' = IF ~up THEN TRUE ELSE IF last_state # None THEN FALSE ELSE down
                /\ win' = w
                /\ flap' = (flap \/ Len(w) >= FlapThreshold)
                /\ log' = Append(log, [at |-> now, session |-> session])
        /\ UNCHANGED <<now, link, session, sessions, sends>>

\* The message stream ends or the socket fails: the maps are locals.
Crash ==
    /\ session # 0 /\ sessions < MaxSessions
    /\ session' = 0
    /\ wire' = <<>> /\ last_state' = None /\ win' = <<>>
    /\ UNCHANGED <<now, link, down, flap, sessions, log, sends>>

\* rtnetlink_loop calls run_rtnetlink again.
Listen ==
    /\ session = 0
    /\ session' = sessions + 1 /\ sessions' = sessions + 1
    /\ UNCHANGED <<now, link, wire, last_state, win, down, flap, log, sends>>

Next ==
    \/ \E s \in OperStates : LinkChange(s)
    \/ AttrChange \/ Tick \/ Handle \/ Crash \/ Listen

Spec == Init /\ [][Next]_vars

-----------------------------------------------------------------------------
(* Properties.                                                             *)

\* link_flapping has been raised if and only if FlapThreshold consecutive
\* transitions of one connection lay within FlapWindow: the sliding window
\* forgets no transition too early and none too late.
FlapIffDense ==
    flap <=> \E i \in DOMAIN log :
                LET j == i + FlapThreshold - 1
                IN  /\ j \in DOMAIN log
                    /\ log[j].session = log[i].session
                    /\ log[j].at - log[i].at <= FlapWindow

Settled == session # 0 /\ wire = <<>> /\ last_state # None

\* Once the messages are read, link_down is raised whenever the link is not up,
\* across restarts of the loop; and until the loop first restarts it is not
\* raised while the link is up, whatever the states in between.
DownFollowsLink ==
    Settled => /\ link # "up" => down
               /\ sessions = 1 /\ link = "up" => ~down
-----------------------------------------------------------------------------
(* The inductive invariant of DownFollowsLink.                             *)

\* The message last sent, or the one last handled, tells the link's state.
WireTells ==
    session # 0 => /\ wire # <<>> => wire[Len(wire)] = link
                   /\ wire = <<>> /\ last_state # None => last_state = link

\* What was handled on this connection is told, and on the first connection
\* nothing else is.
DownTells ==
    /\ last_state \notin {None, "up"} => down
    /\ sessions = 1 /\ session # 0 /\ last_state \in {None, "up"} => ~down

DownInv ==
    /\ link \in OperStates /\ wire \in Seq(OperStates) /\ sessions \in Nat \ {0}
    /\ session = 0 => wire = <<>> /\ last_state = None
    /\ WireTells /\ DownTells
-----------------------------------------------------------------------------
(* The inductive invariant of FlapIffDense.                                *)

\* The transitions are in the order of time, and of connections that were opened.
LogInOrder ==
    /\ \A i \in 1 .. Len(log) : log[i].at <= now /\ log[i].session \in 1 .. sessions
    /\ \A i, j \in 1 .. Len(log) : i <= j => log[i].at <= log[j].at

\* The window is the end of the log, of this connection; what it has not is older
\* than the window or of another connection.
WinIsSuffix ==
    LET gone == Len(log) - Len(win)
    IN  /\ gone >= 0
        /\ \A i \in 1 .. Len(win) :
              win[i] = log[gone + i].at /\ log[gone + i].session = session
        /\ \A i \in 1 .. gone : log[i].session # session \/ now - log[i].at > FlapWindow

FlapInv ==
    /\ now \in Nat /\ sessions \in Nat \ {0} /\ session \in 0 .. sessions
    /\ win \in Seq(Nat) /\ log \in Seq([at : Nat, session : Nat])
    /\ session = 0 => win = <<>>
    /\ flap \in BOOLEAN
    /\ LogInOrder /\ WinIsSuffix /\ FlapIffDense
=============================================================================
