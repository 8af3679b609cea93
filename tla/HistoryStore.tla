---------------------------- MODULE HistoryStore ----------------------------
(***************************************************************************)
(* The alert history: the writer's queue and the table of collector/src/   *)
(* store.rs with its retention, the two requests of http.rs on it, and the *)
(* list one browser keeps of it (gui/app.js).  The browser has two sources *)
(* that nothing orders: the events of its subscription and the answers to  *)
(* fetchHistory.                                                           *)
(*                                                                         *)
(* An alert is its number in the order of acceptance; its ts is the        *)
(* sender's and need not follow that order.                                *)
(***************************************************************************)
EXTENDS Integers, Sequences, FiniteSets, SequencesExt

CONSTANTS
    QueueCap,     \* capacity of spawn_writer's channel
    Limit,        \* limit= of fetchHistory
    HistoryCap,   \* HISTORY_CAP of app.js
    None,
    MaxAlerts,    \* bound: alerts accepted
    MaxTs,        \* bound: alerts carry ts 0 .. MaxTs
    MaxOpens,     \* bound: connections the browser makes
    MaxWipes,     \* bound: history wipes
    MaxFetches    \* bound: fetches under way at a time

VARIABLES
    alerts,       \* the alerts accepted so far: [ts, kind]
    queue,        \* numbers in the writer's channel
    writing,      \* the number the writer has received and not yet inserted, or None
    rows,         \* numbers in the table
    telling,      \* accepted, the broadcast still to come, or None
    clearing,     \* the table is emptied, the snapshot still to be broadcast
    wipes, opens, \* bounds
    stage,        \* the browser's socket: "closed", "unsubscribed", "live"
    feed,         \* what is written to the socket and not yet handled
    fetches,      \* fetchHistory calls under way, oldest first: [newest, answer]
    history,      \* state.history
    source,       \* observer: the list comes from "nothing", the "last" fetch, an "older" one
    missed,       \* observer: a wipe's snapshot fell between snapshot and subscription
    atAsk,        \* observer: rows when the last fetch was started
    heard,        \* observer: alerts pushed since the last answer or snapshot
    wiped,        \* observer: alerts accepted before the last wipe
    late,         \* observer: of those, the ones queued or in the writer's hand then
    untold        \* observer: of those, the one whose broadcast was still to come

store == <<alerts, queue, writing, rows, telling, clearing, wipes>>
wipe == <<wiped, late, untold>>
browser == <<opens, stage, feed, fetches, history, source, missed, atAsk, heard>>
vars == <<store, browser, wipe>>

\* On the socket: an alert's number, or a snapshot.
Snapshot == 0

\* changed: persisted and broadcast (ws_ingest, api_resolve); unchanged: a
\* Resolved that closed nothing is persisted only; told: alerts of syslog_in
\* and of the offline watcher are broadcast only.
Kinds == {"changed", "unchanged", "told"}

TypeOK ==
    /\ alerts \in Seq([ts : 0 .. MaxTs, kind : Kinds])
    /\ queue \in Seq(DOMAIN alerts) /\ Len(queue) <= QueueCap
    /\ rows \subseteq DOMAIN alerts /\ wiped \subseteq DOMAIN alerts
    /\ writing \in DOMAIN alerts \cup {None} /\ telling \in DOMAIN alerts \cup {None}
    /\ stage \in {"closed", "unsubscribed", "live"}
    /\ feed \in Seq(DOMAIN alerts \cup {Snapshot})
    /\ Len(fetches) <= MaxFetches
    /\ Len(history) <= HistoryCap

Init ==
    /\ alerts = <<>> /\ queue = <<>> /\ writing = None /\ rows = {}
    /\ telling = None /\ clearing = FALSE /\ wipes = 0 /\ opens = 0
    /\ stage = "closed" /\ feed = <<>> /\ fetches = <<>> /\ history = <<>>
    /\ source = "nothing" /\ missed = FALSE /\ atAsk = {} /\ heard = {}
    /\ wiped = {} /\ late = {} /\ untold = {}

\* AppState::broadcast, as far as this browser is concerned.
Broadcast(e) == feed' = IF stage = "live" THEN Append(feed, e) ELSE feed

-----------------------------------------------------------------------------
(* The collector.                                                          *)

\* An alert is accepted: try_send to the writer first, the broadcast after it.
\* Nobody reads the ts of one that is not stored: it is 0.
Accept(kind, ts) ==
    LET n == Len(alerts) + 1
    IN  /\ telling = None /\ Len(alerts) < MaxAlerts
        /\ kind = "told" => ts = 0
        /\ alerts' = Append(alerts, [ts |-> ts, kind |-> kind])
        /\ queue' = IF kind # "told" /\ Len(queue) < QueueCap THEN Append(queue, n) ELSE queue
        /\ telling' = IF kind = "unchanged" THEN None ELSE n
        /\ UNCHANGED <<writing, rows, clearing, wipes, browser, wipe>>

Tell ==
    /\ telling # None
    /\ Broadcast(telling)
    /\ telling' = None
    /\ UNCHANGED <<alerts, queue, writing, rows, clearing, wipes, opens, stage, fetches,
                   history, source, missed, atAsk, heard, wipe>>

\* spawn_writer: one alert after the other is received ...
Receive ==
    /\ writing = None /\ queue # <<>>
    /\ writing' = Head(queue) /\ queue' = Tail(queue)
    /\ UNCHANGED <<alerts, rows, telling, clearing, wipes, browser, wipe>>

\* ... and inserted, which is awaited; an insert that fails is only logged.
Insert ==
    /\ writing # None
    /\ rows' \in {rows, rows \cup {writing}}
    /\ writing' = None
    /\ UNCHANGED <<alerts, queue, telling, clearing, wipes, browser, wipe>>

\* spawn_retention: the row's own ts decides, whenever it was inserted; the cutoff
\* is the collector's clock less the days, and that clock may be set.
Prune ==
    /\ \E cutoff \in 1 .. MaxTs : rows' = {n \in rows : alerts[n].ts >= cutoff}
    /\ UNCHANGED <<alerts, queue, writing, telling, clearing, wipes, browser, wipe>>

\* What a wipe finds on its way.
Observe ==
    /\ wiped' = DOMAIN alerts
    /\ late' = {n \in DOMAIN alerts : n = writing \/ Contains(queue, n)}
    /\ untold' = {n \in DOMAIN alerts : n = telling}

ClearKeepsRows ==    \* mutant: the rows outlive the wipe
    /\ ~clearing /\ wipes < MaxWipes
    /\ clearing' = TRUE /\ wipes' = wipes + 1
    /\ Observe
    /\ UNCHANGED <<alerts, rows, queue, writing, telling, browser>>

\* api_clear_history: clear_all empties the table, neither the writer's queue nor
\* its hand.
Clear ==
    /\ ~clearing /\ wipes < MaxWipes
    /\ clearing' = TRUE /\ wipes' = wipes + 1
    /\ rows' = {}
    /\ Observe
    /\ UNCHANGED <<alerts, queue, writing, telling, browser>>

\* ... and a snapshot tells every browser.
ClearTell ==
    /\ clearing /\ clearing' = FALSE
    /\ Broadcast(Snapshot)
    /\ missed' = (missed \/ stage = "unsubscribed")
    /\ UNCHANGED <<alerts, queue, writing, rows, telling, wipes, opens, stage, fetches,
                   history, source, atAsk, heard, wipe>>

\* list_recent: newest ts first, of equal ts the later insert first, at most Limit
\* rows; the set has one member.
Newer(m, n) == alerts[m].ts > alerts[n].ts \/ (alerts[m].ts = alerts[n].ts /\ m > n)
ListRecent ==
    LET k == IF Cardinality(rows) < Limit THEN Cardinality(rows) ELSE Limit
    IN  {s \in [1 .. k -> rows] :
            /\ \A i, j \in 1 .. k : i < j => Newer(s[i], s[j])
            /\ \A n \in rows \ ToSet(s), i \in 1 .. k : Newer(s[i], n)}

-----------------------------------------------------------------------------
(* The browser.                                                            *)

\* A new socket: the snapshot is written before fanout.subscribe().
Open ==
    /\ stage = "closed" /\ opens < MaxOpens
    /\ stage' = "unsubscribed" /\ opens' = opens + 1
    /\ feed' = <<Snapshot>>
    /\ UNCHANGED <<store, fetches, history, source, missed, atAsk, heard, wipe>>

Subscribe ==
    /\ stage = "unsubscribed" /\ stage' = "live"
    /\ UNCHANGED <<store, opens, feed, fetches, history, source, missed, atAsk, heard, wipe>>

\* The socket ends, but for the last one; fetches under way are not tied to it.
Close ==
    /\ stage # "closed" /\ opens < MaxOpens
    /\ stage' = "closed" /\ feed' = <<>>
    /\ UNCHANGED <<store, opens, fetches, history, source, missed, atAsk, heard, wipe>>

OnSnapshotCoalesces ==   \* mutant: a fetch under way is not repeated
    /\ feed # <<>> /\ Head(feed) = Snapshot
    /\ feed' = Tail(feed)
    /\ history' = <<>>
    /\ fetches' = IF fetches = <<>> THEN <<[newest |-> TRUE, answer |-> None]>> ELSE fetches
    /\ source' = "nothing" /\ missed' = FALSE /\ atAsk' = rows /\ heard' = {}
    /\ UNCHANGED <<store, opens, stage, wipe>>

OnSnapshotKeepsList ==   \* mutant: the list is refreshed by the fetch alone
    /\ feed # <<>> /\ Head(feed) = Snapshot /\ Len(fetches) < MaxFetches
    /\ feed' = Tail(feed)
    /\ fetches' = Append([i \in DOMAIN fetches |-> [fetches[i] EXCEPT !.newest = FALSE]],
                         [newest |-> TRUE, answer |-> None])
    /\ source' = "nothing" /\ missed' = FALSE /\ atAsk' = rows /\ heard' = {}
    /\ UNCHANGED <<store, opens, stage, history, wipe>>

\* handle, "snapshot": the list is emptied and asked for.
OnSnapshot ==
    /\ feed # <<>> /\ Head(feed) = Snapshot /\ Len(fetches) < MaxFetches
    /\ feed' = Tail(feed)
    /\ history' = <<>>
    /\ fetches' = Append([i \in DOMAIN fetches |-> [fetches[i] EXCEPT !.newest = FALSE]],
                         [newest |-> TRUE, answer |-> None])
    /\ source' = "nothing" /\ missed' = FALSE /\ atAsk' = rows /\ heard' = {}
    /\ UNCHANGED <<store, opens, stage, wipe>>

\* handle, "alert": pushHistory puts it in front and cuts the list.
OnAlert ==
    /\ feed # <<>> /\ Head(feed) \in DOMAIN alerts
    /\ feed' = Tail(feed)
    /\ history' = SubSeq(<<Head(feed)>> \o history, 1,
                         IF Len(history) < HistoryCap THEN Len(history) + 1 ELSE HistoryCap)
    /\ heard' = heard \cup {Head(feed)}
    /\ UNCHANGED <<store, opens, stage, fetches, source, missed, atAsk, wipe>>

\* api_alerts answers fetch i.
Select(i) ==
    /\ fetches[i].answer = None
    /\ \E s \in ListRecent : fetches' = [fetches EXCEPT ![i].answer = s]
    /\ UNCHANGED <<store, opens, stage, feed, history, source, missed, atAsk, heard, wipe>>

\* The answer replaces the list, whatever was pushed while it was under way.
FetchDone(i) ==
    /\ fetches[i].answer # None
    /\ history' = fetches[i].answer
    /\ fetches' = RemoveAt(fetches, i)
    /\ source' = IF fetches[i].newest THEN "last" ELSE "older"
    /\ heard' = {}
    /\ UNCHANGED <<store, opens, stage, feed, missed, atAsk, wipe>>

\* fetchHistory ignores an error.
FetchFails(i) ==
    /\ fetches' = RemoveAt(fetches, i)
    /\ UNCHANGED <<store, opens, stage, feed, history, source, missed, atAsk, heard, wipe>>

Next ==
    \/ \E kind \in Kinds, ts \in 0 .. MaxTs : Accept(kind, ts)
    \/ Tell \/ Receive \/ Insert \/ Prune \/ Clear \/ ClearTell
    \/ Open \/ Subscribe \/ Close \/ OnSnapshot \/ OnAlert
    \/ \E i \in DOMAIN fetches : Select(i) \/ FetchDone(i) \/ FetchFails(i)

Spec == Init /\ [][Next]_vars

-----------------------------------------------------------------------------
(* Properties.                                                             *)

Listed == ToSet(history)
AtRest ==
    /\ stage = "live" /\ feed = <<>> /\ fetches = <<>>
    /\ telling = None /\ ~clearing

\* Alerts that a full list does not reach.
BeyondLimit(n) == Cardinality({m \in DOMAIN alerts : Newer(m, n)}) >= Limit

\* A stored alert that a browser at rest does not list reached the table after
\* the browser asked for it, and was pushed to it, if at all, before the answer
\* came (app.js fetchHistory replaces what pushHistory added).  This is of a list
\* that is not full, and whose last fetch was the last to be answered.
HistoryGapsExplained ==
    AtRest /\ source = "last" /\ Len(history) < HistoryCap =>
        \A n \in rows \ Listed : n \notin heard /\ (n \in atAsk => BeyondLimit(n))

\* Of the alerts accepted before a wipe none is stored after it but those that the
\* writer had still to insert, queued or received: clear_all does not reach them and
\* they come back, but never what was in the table.  A browser at rest lists none
\* but these and the one whose broadcast was still to come, unless an older fetch
\* was answered last, or the browser's snapshot went out before and its subscription
\* began after the wipe was told (store.rs clear_all, http.rs api_clear_history).
WipeHonoured ==
    /\ rows \cap wiped \subseteq late
    /\ AtRest /\ source # "older" /\ ~missed => Listed \cap wiped \subseteq late \cup untold
-----------------------------------------------------------------------------
(* The inductive invariant of WipeHonoured.                                *)

\* What the steps below need to know of the shape of the state.
Shape ==
    /\ alerts \in Seq([ts : 0 .. MaxTs, kind : Kinds])
    /\ queue \in Seq(Nat) /\ feed \in Seq(Nat) /\ history \in Seq(Nat)
    /\ fetches \in Seq([newest : BOOLEAN, answer : Seq(Nat) \cup {None}])
    /\ rows \subseteq Nat /\ IsFiniteSet(rows)
    /\ telling \in Nat \cup {None} /\ writing \in Nat \cup {None}
    /\ stage \in {"closed", "unsubscribed", "live"}

\* What may not come back to the table, and what may not come back to a list.
Erased == wiped \ late
Forgotten == wiped \ (late \cup untold)

\* Nothing of it is stored, or on its way to the table or to the feed.
StoreClean ==
    /\ wiped \subseteq DOMAIN alerts
    /\ rows \cap Erased = {}
    /\ telling # None => telling \notin Forgotten
    /\ writing # None => writing \notin Erased
    /\ \A k \in DOMAIN queue : queue[k] \notin Erased

\* A socket that is not subscribed carries no event.
FeedQuiet ==
    /\ stage = "closed" => feed = <<>>
    /\ stage # "live" => \A k \in DOMAIN feed : feed[k] = Snapshot

\* A snapshot to come will empty the list.
Reset(from) == \E k \in DOMAIN feed : k > from /\ feed[k] = Snapshot

\* Once the wipe is told, the event of a forgotten alert is followed by a snapshot.
FeedClean == \A k \in DOMAIN feed : feed[k] \in Forgotten => Reset(k)

\* Without a snapshot to come, the list and the answers that may become the
\* list hold nothing that was forgotten.
ListClean ==
    stage # "closed" /\ ~missed /\ ~Reset(0) =>
        /\ source # "older" => Listed \cap Forgotten = {}
        /\ \A i \in DOMAIN fetches :
               fetches[i].newest /\ fetches[i].answer # None =>
                   ToSet(fetches[i].answer) \cap Forgotten = {}

IInv == Shape /\ StoreClean /\ FeedQuiet /\ (~clearing => FeedClean /\ ListClean)

-----------------------------------------------------------------------------
(* The inductive invariant of HistoryGapsExplained, beside IInv.           *)

\* What waits for the writer is not in the table, was not there when the browser
\* asked, and waits once.
QueueFresh ==
    /\ rows \cup atAsk \subseteq DOMAIN alerts
    /\ writing # None => /\ writing \in DOMAIN alerts \ (rows \cup atAsk)
                         /\ \A k \in DOMAIN queue : queue[k] # writing
    /\ \A k \in DOMAIN queue :
          /\ queue[k] \in DOMAIN alerts \ (rows \cup atAsk)
          /\ \A j \in DOMAIN queue : j # k => queue[j] # queue[k]

\* A list that is not full has not cut off what was pushed.
HeardListed == Len(history) < HistoryCap => heard \subseteq Listed

\* What the browser asked for and is still stored is in L, but for the limit.
Covers(L) == \A n \in rows \cap atAsk : n \in L \/ BeyondLimit(n)

AnswersCover ==
    /\ \A i \in DOMAIN fetches :
           fetches[i].newest /\ fetches[i].answer # None => Covers(ToSet(fetches[i].answer))
    /\ source = "last" /\ Len(history) < HistoryCap => Covers(Listed)

GapInv == QueueFresh /\ HeardListed /\ AnswersCover
=============================================================================
