------------------------------ MODULE Webhooks ------------------------------
(***************************************************************************)
(* collector/src/webhooks.rs: the task of one configured webhook.  It      *)
(* receives the broadcast channel, filters, limits its rate and POSTs with *)
(* one retry.  While it waits for the endpoint or sleeps it receives       *)
(* nothing, and the channel may overwrite what it has not received.        *)
(***************************************************************************)
EXTENDS SlidingWindow

CONSTANTS
    SevMin,        \* severity_min as a number: info 0, warning 1, critical 2
    CfgStates,     \* states
    NotifyOnResolved,
    Rate,          \* rate_limit_per_min
    WindowDur,     \* window_dur, the minute
    KnownKind,     \* kind is one of the three that have a format
    RetryAfters,   \* values of the endpoint's retry-after header
    ErrorPause,    \* pause after a 5xx or a transport error
    RingCap,       \* capacity of the broadcast channel
    Inputs,        \* envelopes that are broadcast
    None,
    MaxTime,       \* bound: the clock saturates here
    MaxEvents      \* bound: envelopes broadcast

States == {"firing", "resolved"}

\* An envelope: an alert with what the filters look at, or another type.
\* matches: host_filter and category_filter, where set, match.
Envelope ==
    [type : {"alert"}, severity : 0 .. 2, state : States, matches : BOOLEAN]
      \cup [type : {"other"}]

ASSUME WebhookAssumption ==
    /\ SevMin \in 0 .. 2 /\ CfgStates \subseteq States
    /\ NotifyOnResolved \in BOOLEAN /\ KnownKind \in BOOLEAN
    /\ Rate \in Nat /\ WindowDur \in Nat /\ RetryAfters \subseteq Nat /\ ErrorPause \in Nat
    /\ RingCap \in Nat \ {0} /\ Inputs \subseteq Envelope
    /\ MaxTime \in Nat /\ MaxEvents \in Nat
    /\ None \notin [id : Nat, attempt : Nat, sleep : Nat]

VARIABLES
    now,
    total,     \* number of envelopes broadcast so far
    unread,    \* envelopes not yet received, numbered
    lagged,    \* some were overwritten since the last recv
    window,    \* times of the recent admissions
    job,       \* deliver: the alert in hand and the attempt, or None
    admitted,  \* observer: times of all admissions
    posts      \* observer: every POST with its outcome

vars == <<now, total, unread, lagged, window, job, admitted, posts>>

Outcomes == {"ok", "429", "4xx", "5xx", "error"}

TypeOK ==
    /\ now \in 0 .. MaxTime /\ total \in 0 .. MaxEvents
    /\ unread \in Seq([id : 1 .. MaxEvents, env : Envelope]) /\ Len(unread) <= RingCap
    /\ lagged \in BOOLEAN
    /\ window \in Seq(0 .. MaxTime) /\ Len(window) <= Rate
    /\ job \in [id : 1 .. MaxEvents, attempt : 1 .. 3, sleep : Nat] \cup {None}
    /\ admitted \in Seq(0 .. MaxTime)
    /\ posts \in Seq([id : 1 .. MaxEvents, at : 0 .. MaxTime, outcome : Outcomes, pause : Nat])

Init ==
    /\ now = 0 /\ total = 0 /\ unread = <<>> /\ lagged = FALSE
    /\ window = <<>> /\ job = None /\ admitted = <<>> /\ posts = <<>>

\* effective_delivery_states.
DeliveryStates ==
    LET s == CfgStates \cup (IF NotifyOnResolved THEN {"resolved"} ELSE {})
    IN  IF s = {} THEN {"firing"} ELSE s

Passes(e) ==
    /\ e.type = "alert"
    /\ e.severity >= SevMin /\ e.state \in DeliveryStates /\ e.matches

Publish(e) ==
    LET m == [id |-> total + 1, env |-> e]
    IN  /\ total < MaxEvents /\ total' = total + 1
        /\ IF Len(unread) < RingCap
           THEN unread' = Append(unread, m) /\ UNCHANGED lagged
           ELSE unread' = Append(Tail(unread), m) /\ lagged' = TRUE
        /\ UNCHANGED <<now, window, job, admitted, posts>>

\* Time passes: the clock the window reads, and the sleep of deliver.
Tick ==
    /\ now' = Min({now + 1, MaxTime})
    /\ job' = IF job # None /\ job.sleep > 0 THEN [job EXCEPT !.sleep = @ - 1] ELSE job
    /\ UNCHANGED <<total, unread, lagged, window, admitted, posts>>

\* RecvError::Lagged is logged, the task carries on with the oldest left.
RecvLagged ==
    /\ job = None /\ lagged
    /\ lagged' = FALSE
    /\ UNCHANGED <<now, total, unread, window, job, admitted, posts>>

RetainShort(w) ==   \* mutant: admissions leave the window a second early
    Recent(w, now, WindowDur - 1)

\* window.retain: the admissions are in clock order, so those it drops are at the
\* front.
Retain(w) == Recent(w, now, WindowDur)

RecvUnlimited ==   \* mutant: the length of the window is not looked at
    /\ job = None /\ ~lagged /\ unread # <<>>
    /\ unread' = Tail(unread)
    /\ IF ~Passes(Head(unread).env) THEN UNCHANGED <<window, job, admitted>>
       ELSE /\ window' = Append(Retain(window), now)
            /\ admitted' = Append(admitted, now)
            /\ job' = [id |-> Head(unread).id, attempt |-> 1, sleep |-> 0]
    /\ UNCHANGED <<now, total, lagged, posts>>

\* recv, filters, rate limit.  A dropped alert is never looked at again; an
\* unknown kind is found out only after the admission.
Recv ==
    LET m == Head(unread)
        w == Retain(window)
    IN  /\ job = None /\ ~lagged /\ unread # <<>>
        /\ unread' = Tail(unread)
        /\ IF ~Passes(m.env) THEN UNCHANGED <<window, job, admitted>>
           ELSE IF Len(w) >= Rate THEN window' = w /\ UNCHANGED <<job, admitted>>
           ELSE /\ window' = Append(w, now)
                /\ admitted' = Append(admitted, now)
                /\ job' = IF KnownKind THEN [id |-> m.id, attempt |-> 1, sleep |-> 0] ELSE None
        /\ UNCHANGED <<now, total, lagged, posts>>

Awake == job # None /\ job.sleep = 0

Posted(outcome, pause) ==
    /\ Awake /\ job.attempt <= 2
    /\ posts' = Append(posts, [id |-> job.id, at |-> now, outcome |-> outcome, pause |-> pause])
    /\ UNCHANGED <<now, total, unread, lagged, window, admitted>>

\* Success, or an error status below 500 other than 429: deliver returns.
PostFinal == \E outcome \in {"ok", "4xx"} : Posted(outcome, 0) /\ job' = None

PostAgainAtOnce ==   \* mutant: the retry-after header is not waited for
    \/ \E pause \in RetryAfters :
          Posted("429", pause) /\ job' = [job EXCEPT !.attempt = @ + 1]
    \/ \E outcome \in {"5xx", "error"} :
          Posted(outcome, 0) /\ job' = [job EXCEPT !.attempt = @ + 1]

\* 429, 5xx or a transport error: sleep, also after the last attempt.
PostAgain ==
    \/ \E pause \in RetryAfters :
          /\ Posted("429", pause)
          /\ job' = [job EXCEPT !.attempt = @ + 1, !.sleep = pause]
    \/ \E outcome \in {"5xx", "error"} :
          /\ Posted(outcome, ErrorPause)
          /\ job' = [job EXCEPT !.attempt = @ + 1, !.sleep = ErrorPause]

GiveUpNever ==   \* mutant: sleeps again instead of returning
    /\ Awake /\ job.attempt = 3
    /\ job' = [job EXCEPT !.sleep = ErrorPause]
    /\ UNCHANGED <<now, total, unread, lagged, window, admitted, posts>>

\* Both attempts are used up.
GiveUp ==
    /\ Awake /\ job.attempt = 3
    /\ job' = None
    /\ UNCHANGED <<now, total, unread, lagged, window, admitted, posts>>

Next ==
    \/ \E e \in Inputs : Publish(e)
    \/ Tick \/ RecvLagged \/ Recv \/ PostFinal \/ PostAgain \/ GiveUp

Spec == Init /\ [][Next]_vars

\* Time passes, the task is polled, and a POST ends (reqwest times out after
\* 10 s): the endpoint may fail for ever.
FairSpec ==
    Spec /\ WF_vars(Tick) /\ WF_vars(RecvLagged \/ Recv) /\ WF_vars(PostFinal \/ PostAgain)
         /\ WF_vars(GiveUp)

-----------------------------------------------------------------------------
(* Properties.                                                             *)

\* No closed interval of WindowDur holds more than Rate admissions: the
\* sliding window forgets none too early.
RateHonoured ==
    \A i \in DOMAIN admitted :
        i + Rate \in DOMAIN admitted => admitted[i + Rate] - admitted[i] > WindowDur

\* POSTs follow the order of the broadcasts.  An alert is POSTed at most twice,
\* again only after an outcome that leaves it undelivered, and after a 429
\* nothing is POSTed, for this or a later alert, before the pause the endpoint
\* asked for is over.
PostsJustified ==
    \A i, j \in DOMAIN posts : i < j =>
        /\ posts[i].id <= posts[j].id
        /\ posts[i].id = posts[j].id =>
              j = i + 1 /\ posts[i].outcome \notin {"ok", "4xx"}
        /\ posts[j].at >= Min({posts[i].at + posts[i].pause, MaxTime})

\* The inductive invariant.  The window is the end of the list of admissions, and
\* what is no longer in it is older than the window.
WindowIsSuffix ==
    LET gone == Len(admitted) - Len(window)
    IN  /\ gone >= 0
        /\ \A i \in 1 .. Len(window) : window[i] = admitted[gone + i]
        /\ \A i \in 1 .. gone : now - admitted[i] > WindowDur

AdmittedInOrder ==
    /\ \A i \in 1 .. Len(admitted) : admitted[i] <= now
    /\ \A i, j \in 1 .. Len(admitted) : i <= j => admitted[i] <= admitted[j]

\* What is unread is newer than the alert in hand, which is newer than what was
\* POSTed before, except for its own first attempt, the last POST.
AlertsInOrder ==
    /\ \A i \in 1 .. Len(unread) : unread[i].id <= total
    /\ \A i, j \in 1 .. Len(unread) : i < j => unread[i].id < unread[j].id
    /\ \A k \in 1 .. Len(posts) : posts[k].id <= total
    /\ \A k \in 1 .. Len(posts), i \in 1 .. Len(unread) : posts[k].id < unread[i].id
    /\ job # None =>
          /\ job.id <= total
          /\ \A i \in 1 .. Len(unread) : job.id < unread[i].id
          /\ \A k \in 1 .. Len(posts) :
                \/ posts[k].id < job.id
                \/ /\ posts[k].id = job.id /\ job.attempt > 1
                   /\ job.attempt = 2 =>
                         k = Len(posts) /\ posts[k].outcome \notin {"ok", "4xx"}

\* The pause after a POST is over when the sleep of deliver is.
PausesKept ==
    \A k \in 1 .. Len(posts) :
        now + (IF job = None THEN 0 ELSE job.sleep) >= Min({posts[k].at + posts[k].pause, MaxTime})

IInv ==
    /\ TypeOK /\ WindowIsSuffix /\ AdmittedInOrder /\ AlertsInOrder /\ PausesKept
    /\ RateHonoured /\ PostsJustified

\* The task always comes back to the channel, however the endpoint behaves.
JobEnds == job # None ~> job = None
=============================================================================
