----------------------------- MODULE MCBrowser -----------------------------
(***************************************************************************)
(* What a browser shows: GuiFeed, HistoryStore and DesktopNotify.  A       *)
(* behaviour follows one of them, chosen initially; the variables of the   *)
(* others are None.  GuiFeed is followed three times with some of its      *)
(* parts standing still: a syslog sender alone; an agent host that raises  *)
(* no alert and that the watcher takes for offline as time passes; an      *)
(* agent's alert with history wipes, at a standing clock.                  *)
(***************************************************************************)
EXTENDS GuiFeed

CONSTANTS
    h1,                                                   \* the agent host
    QueueCap, Limit, HistoryCap, MaxAlerts, MaxTs, MaxOpens, MaxWipes, MaxFetches,
    FeedCap                                               \* HistoryStore, DesktopNotify

MCConnHost == [c \in Conns |-> h1]

VARIABLES
    scene,                                            \* the one followed
    alerts, queue, writing, rows, telling, clearing, wipes, opens, fetches,
    history, source, missed, atAsk, heard, wiped, late, untold,   \* HistoryStore
    notified, loading, loaded, wanted, granted, popups, lapsed   \* DesktopNotify

\* stage, feed, firing and shown are of more than one part.
guiOnly == <<now, hosts, queued, handler, syslog, request, online, scan, leaked,
             clear, suspect>>
historyOnly == <<alerts, queue, writing, rows, telling, clearing, wipes, opens,
                 fetches, history, source, missed, atAsk, heard, wiped, late, untold>>
notifyOnly == <<notified, loading, loaded, wanted, granted, popups, lapsed>>
browserVars == <<scene, stage, feed, firing, shown, guiOnly, historyOnly, notifyOnly>>

History == INSTANCE HistoryStore
Notify == INSTANCE DesktopNotify

NoGui ==
    /\ now = None /\ hosts = None /\ queued = None /\ handler = None /\ syslog = None
    /\ request = None /\ online = None /\ scan = None /\ leaked = None
    /\ clear = None /\ suspect = None
NoHistory ==
    /\ alerts = None /\ queue = None /\ writing = None /\ rows = None /\ telling = None
    /\ clearing = None /\ wipes = None /\ opens = None /\ fetches = None
    /\ history = None /\ source = None /\ missed = None /\ atAsk = None /\ heard = None
    /\ wiped = None /\ late = None /\ untold = None
NoNotify ==
    /\ notified = None /\ loading = None /\ loaded = None /\ wanted = None
    /\ granted = None /\ popups = None /\ lapsed = None

GuiScenes == {"syslog", "watcher", "agent"}

BrowserInit ==
    \/ scene \in GuiScenes /\ GuiInit /\ NoHistory /\ NoNotify
    \/ scene = "history" /\ History!Init /\ NoGui /\ NoNotify
         /\ firing = None /\ shown = None
    \/ scene = "notify" /\ Notify!Init /\ NoGui /\ NoHistory

\* The parts of GuiFeed that stand still.
Still ==
    /\ scene = "syslog" => <<now, handler, scan, clear>>' = <<now, handler, scan, clear>>
    /\ scene = "watcher" => /\ <<syslog, clear>>' = <<syslog, clear>>
                            /\ \A c \in Conns : handler'[c].stage = "reading"
    /\ scene = "agent" => /\ <<now, syslog>>' = <<now, syslog>>
                          /\ \A h \in Agents : hosts'[h] # None => hosts'[h].last_seen <= now

BrowserNext ==
    \/ /\ scene \in GuiScenes /\ GuiNext /\ Still
       /\ UNCHANGED <<scene, historyOnly, notifyOnly>>
    \/ /\ scene = "history" /\ History!Next
       /\ UNCHANGED <<scene, guiOnly, notifyOnly, firing, shown>>
    \/ scene = "notify" /\ Notify!Next /\ UNCHANGED <<scene, guiOnly, historyOnly>>

BrowserSpec == BrowserInit /\ [][BrowserNext]_browserVars

-----------------------------------------------------------------------------
(* Properties, each of the part that is followed.                          *)

\* ws_subscribe.rs, app.js handle: a browser that has received everything shows
\* exactly the firing map, but for alerts that changed between its snapshot and
\* its subscription or were broadcast in another order than they were applied.
ViewsAgree == scene \in GuiScenes => ViewAgrees

\* app.js fetchHistory, pushHistory, store.rs: a stored alert that a browser at
\* rest does not list reached the table after the browser asked, and was pushed
\* to it, if at all, before the answer came.
HistoryGapsExplained == scene = "history" => History!HistoryGapsExplained

\* store.rs clear_all and spawn_writer, http.rs api_clear_history: of the alerts
\* accepted before a wipe only those come back to the table that the writer still
\* had to insert, queued or received, and to a browser only these and the one still
\* to be broadcast, but for an overtaken answer or a wipe told before the
\* subscription.
WipeHonoured == scene = "history" => History!WipeHonoured

\* app.js shouldNotify, handle: an alarm that is new to the browser pops up,
\* once, unless it had lapsed while the browser was away.
AlarmPopsOnce == scene = "notify" => Notify!AlarmPopsOnce
=============================================================================
