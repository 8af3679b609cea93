--------------------------- MODULE DesktopNotify ---------------------------
(***************************************************************************)
(* gui/app.js: the desktop notifications of one browser, for one alert.    *)
(* notify.notified remembers what the user was told of, so that an alert   *)
(* that fires again pops up once; it is kept over reconnects, while the    *)
(* events sent in between are lost.                                        *)
(***************************************************************************)
EXTENDS Integers, Sequences

CONSTANT FeedCap    \* bound: events on the socket that are not yet handled

VARIABLES
    firing,     \* the collector's firing map holds the alert
    stage,      \* its socket: "closed", "unsubscribed", "live"
    feed,       \* envelopes not yet handled: "firing", "resolved", snapshots
    shown,      \* state.alerts holds the alert
    notified,   \* notify.notified holds it
    loading,    \* the 500 ms timer of a snapshot is running
    loaded,     \* notify.initial_load_done
    wanted,     \* notify.enabled, and notify.severity lets the alert pass
    granted,    \* Notification.permission
    popups,     \* observer: notifications since the browser last saw it resolved
    lapsed      \* observer: the alert vanished in a snapshot after it was told

vars == <<firing, stage, feed, shown, notified, loading, loaded, wanted, granted,
          popups, lapsed>>

Snapshots == {"snapshot_with", "snapshot_without"}

TypeOK ==
    /\ firing \in BOOLEAN /\ shown \in BOOLEAN
    /\ notified \in BOOLEAN /\ loading \in BOOLEAN /\ loaded \in BOOLEAN
    /\ stage \in {"closed", "unsubscribed", "live"}
    /\ wanted \in BOOLEAN /\ granted \in BOOLEAN /\ lapsed \in BOOLEAN
    /\ feed \in Seq({"firing", "resolved"} \cup Snapshots) /\ Len(feed) <= FeedCap
    /\ popups \in 0 .. 2

Init ==
    /\ firing \in BOOLEAN /\ stage = "closed" /\ feed = <<>>
    /\ shown = FALSE /\ notified = FALSE /\ loading = FALSE /\ loaded = FALSE
    /\ wanted \in BOOLEAN /\ granted \in BOOLEAN
    /\ popups = 0 /\ lapsed = FALSE

tab == <<shown, notified, loading, loaded, popups, lapsed>>

Broadcast(e) ==
    /\ stage = "live" => Len(feed) < FeedCap
    /\ feed' = IF stage = "live" THEN Append(feed, e) ELSE feed

\* The collector applies a Firing, new or repeated, or closes the alert.
Fire ==
    /\ firing' = TRUE /\ Broadcast("firing")
    /\ UNCHANGED <<stage, tab, wanted, granted>>

Resolve ==
    /\ firing /\ firing' = FALSE /\ Broadcast("resolved")
    /\ UNCHANGED <<stage, tab, wanted, granted>>

\* ws_subscribe.rs writes the snapshot, then subscribes.
Connect ==
    /\ stage = "closed" /\ stage' = "unsubscribed"
    /\ feed' = <<IF firing THEN "snapshot_with" ELSE "snapshot_without">>
    /\ UNCHANGED <<firing, tab, wanted, granted>>

Subscribe ==
    /\ stage = "unsubscribed" /\ stage' = "live"
    /\ UNCHANGED <<firing, feed, tab, wanted, granted>>

Disconnect ==
    /\ stage # "closed" /\ stage' = "closed" /\ feed' = <<>>
    /\ UNCHANGED <<firing, tab, wanted, granted>>

\* The user changes the settings (setNotifyEnabled) or the permission.
Settings ==
    /\ wanted' \in BOOLEAN /\ granted' \in BOOLEAN
    /\ UNCHANGED <<firing, stage, feed, tab>>

-----------------------------------------------------------------------------
(* handle.                                                                 *)

Handle(e) ==
    /\ feed # <<>> /\ Head(feed) = e /\ feed' = Tail(feed)
    /\ UNCHANGED <<firing, stage, wanted, granted>>

\* A snapshot replaces what is shown, and only ever adds to notified.
OnSnapshot(e) ==
    /\ e \in Snapshots /\ Handle(e)
    /\ shown' = (e = "snapshot_with")
    /\ notified' = (notified \/ shown')
    /\ lapsed' = (notified /\ ~shown')
    /\ loading' = TRUE
    /\ popups' = IF shown' THEN popups ELSE 0
    /\ UNCHANGED loaded

LoadDone ==
    /\ loading /\ loading' = FALSE /\ loaded' = TRUE
    /\ UNCHANGED <<firing, stage, feed, shown, notified, wanted, granted, popups, lapsed>>

\* shouldNotify and the permission test of showDesktopNotification.
Pops == wanted /\ ~notified /\ loaded /\ granted

OnFiringUnmarked ==    \* mutant: the popup is not remembered
    /\ Handle("firing")
    /\ shown' = TRUE
    /\ popups' = IF Pops /\ popups < 2 THEN popups + 1 ELSE popups
    /\ UNCHANGED <<notified, loading, loaded, lapsed>>

OnFiring ==
    /\ Handle("firing")
    /\ shown' = TRUE
    /\ notified' = (notified \/ Pops)
    /\ popups' = IF Pops /\ popups < 2 THEN popups + 1 ELSE popups
    /\ UNCHANGED <<loading, loaded, lapsed>>

OnResolvedKeeps ==     \* mutant: a resolution does not clear notified
    /\ Handle("resolved")
    /\ shown' = FALSE /\ popups' = 0 /\ lapsed' = FALSE
    /\ UNCHANGED <<notified, loading, loaded>>

OnResolved ==
    /\ Handle("resolved")
    /\ shown' = FALSE /\ notified' = FALSE /\ popups' = 0 /\ lapsed' = FALSE
    /\ UNCHANGED <<loading, loaded>>

Next ==
    \/ Fire \/ Resolve \/ Connect \/ Subscribe \/ Disconnect \/ Settings
    \/ \E e \in Snapshots : OnSnapshot(e)
    \/ LoadDone \/ OnFiring \/ OnResolved

Spec == Init /\ [][Next]_vars

-----------------------------------------------------------------------------
(* Properties.                                                             *)

\* An alarm that is new to a loaded browser whose user wants it pops up, and
\* pops up once until its resolution is seen, over reconnects, repeats and
\* changes of the settings.  The exception: an alert that was resolved while
\* the browser was away stays in notified, and is silent when it comes back.
AlarmPopsOnce ==
    /\ popups <= 1
    /\ (feed # <<>> /\ Head(feed) = "firing" /\ ~shown /\ ~lapsed /\ wanted /\ loaded /\ granted)
         => Pops
-----------------------------------------------------------------------------
(* The inductive invariant.                                                *)

\* What was told is shown, or has vanished in a snapshot; and what popped up since
\* the last resolution was told.
IInv ==
    /\ notified => shown \/ lapsed
    /\ popups = 0 \/ (popups = 1 /\ notified)
=============================================================================
