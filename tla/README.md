# A TLA+ verification project for UMA-Monitoring-Tool

This directory holds TLA+ models of the monitoring agent, the collector and the
browser feed, the TLC configurations that check them on small instances, and
proofs of the central properties that the TLAPS proof system checks for every
value of the parameters. `PROJECT.json` lists the runs, the properties, the
mutants that show each property has teeth, the source lines each definition
stands for, and the places where code and documentation disagree.

    tlc -workers 2 -config MCCollector.cfg MCCollector
    tlapm CollectorProofs.tla

## The system

An **agent** runs on every host. Its *modules* (one or two tokio tasks each)
poll hardware and kernel interfaces or read broadcast channels of kernel and
journal lines. A module reports a condition to its `AlertTracker`, which
suppresses repeats and decides when an alert is due or resolved; what is due
goes to the `AlertSink`, two bounded lanes that the transport drains onto one
WebSocket. The **collector** keeps two maps, firing alerts and hosts, behind a
lock each. They are changed by one handler per agent connection, the syslog
listeners, the operator's HTTP requests and a watcher that declares hosts
offline. Every change is broadcast on a ring that browsers and webhook tasks
receive, and queued for a SQLite writer.

| component | state | operations | how it interacts | what is hard |
|---|---|---|---|---|
| AlertTracker (`agent/src/state.rs`) | map fingerprint → entry | observe, observe_ok, force_resolve | called by all tasks of a module | the clock is read before the mutex; suppression and recovery at their boundaries |
| sink and transport (`bus.rs`, `transport.rs`, `main.rs`) | two lanes, backoff, the message in hand | send, connect, pump, ship, ping, sleep | modules → lanes → socket | full lanes, a message lost when a send fails, two lanes polled one after the other, silent connections |
| collector state (`collector/src/state.rs`) | firing, hosts | apply_alert, register_hello, touch_host, snapshot | shared by five kinds of task | two locks, check-then-act, broadcasting after unlocking |
| offline watcher (`collector/src/main.rs`) | verdict per host | scan | works on a copied host list | stale verdicts, counts |
| GUI feed (`ws_subscribe.rs`, `gui/app.js`) | receiver position; alerts shown; popups made | snapshot, subscribe, receive, lag, reconnect, notify | broadcast ring → browser | gap between snapshot and subscription, lag, repeats after a reconnect |
| webhooks (`webhooks.rs`) | rate window, alert in hand | receive, filter, deliver, retry | broadcast ring → endpoint | rate window, retry-after, retry |
| history store (`store.rs`, `http.rs`, `gui/app.js`) | writer queue, table; the list in the browser | insert, prune, clear, list, fetch, push | queue from all writers; the browser mixes fetched and pushed alerts | full queue, clear against queued inserts and one in hand, answers that overtake each other |
| NIC (`network_nic.rs`) | last state, flap window, counters | netlink loop, counter poll | kernel → tracker | restart of the loop, window edges, failed polls |
| lifecycle and boot (`lifecycle.rs`, `boot.rs`) | inhibitor lock, state file | inhibit, subscribe, announce, boot check | logind, file system | shutdown before the subscription, two tasks on one fingerprint, a full lane, a write that fails or is torn, crash between write and send |
| kernel log and OOM (`kmsg.rs`, `mempressure.rs`) | ring, channel, storm window | read, broadcast, receive | kernel → channel → tracker | overflow twice over, late reads |
| kernel and journal consumers (`cpu_mce.rs`, `pcie_aer.rs`, `journal.rs`, `syslog_rules.rs`, `oshang.rs`) | rate window, child process | receive, classify, restart the child | channels → tracker | lag, an await before the clock is read, a pattern that does not compile |
| views of the host (`storage_controller.rs`, `storage_io.rs`) | the set seen last | one poll | tool output → tracker | a failed read looks like an empty host |
| pollers (`nvme.rs`, `memory_ecc.rs`, `thermal.rs`, `disk_smart.rs`, `gpu_*.rs`, `bmc_redfish.rs`, PSI) | previous counters, since-when | one poll | tool output → tracker | failed and partial polls, resets, shared fingerprints |
| BMC event log (`bmc_eventlog.rs`) | last id per log | one read of one log | Redfish or ipmitool → tracker | ids ordered as strings, cleared logs, one fingerprint for all entries |

What is not modelled is listed at the end and, with reasons, under "components".

## Modules

| module | models | composed with |
|---|---|---|
| `AlertLifecycle` | abstract: what a receiver is promised per fingerprint (firing, repeated no sooner than `re_notify`, resolved once) | |
| `AlertTracker` | `state.rs`: a call is two steps, the clock sample and the critical section | refines `AlertLifecycle` |
| `AgentLink` | `bus.rs`, `transport.rs` with one step per polled branch of `pump`, and the hello, heartbeat and exit of `main.rs`, over a network that breaks or silences connections | |
| `Collector` | the two maps and every task that changes them, one step per critical section, and the restart of the process | |
| `AlertPath` | one condition from the monitor to the firing map: tracker entry, lane, two successive connections, handlers, maintenance, restarts of both processes | the parts of the three modules above, each reduced to what the two ends can disagree about |
| `GuiFeed` | `ws_subscribe.rs`, the history wipe and the alerts in the reducer of `app.js` | extends `Collector` |
| `HistoryStore` | writer queue and the alert in the writer's hand, table, retention, wipe and fetch of `store.rs` and `http.rs`, and the list in `app.js` | |
| `DesktopNotify` | the popups of `app.js` for one alert, over reconnects and changed settings | |
| `Webhooks` | the task of one webhook | |
| `NicLink`, `NicCounters` | the netlink loop of one interface; the counter poll of one interface | |
| `HostLifecycle` | `lifecycle.rs` and `boot.rs` around shutdowns, crashes, power losses and reboots, with a lane that fills up and a file whose writes fail, tear or get lost | |
| `OomStorm` | kernel ring, tailer, channel and `oom_loop` | |
| `PsiMonitor` | `psi_loop` | extends `AlertTracker` |
| `Controllers` | `storage_controller.rs` | |
| `NvmeMonitor` | the checks of one poll of one drive | extends `AlertTracker` |
| `EccMonitor` | the IPMI and EDAC polls of `memory_ecc.rs`, with counters that start over | |
| `CpuMce` | the machine check consumer, its patterns and the abort of the process | |
| `PcieAer` | the PCIe error consumer with the lookup in its loop | |
| `JournalRules` | `journal.rs`, its child processes, and `syslog_rules.rs` | |
| `StorageIo` | block devices, Ceph units and kernel I/O errors of `storage_io.rs` | |
| `HealthPollers` | the checks of `disk_smart.rs`, `bmc_redfish.rs`, `gpu_nvidia.rs` and `gpu_amd.rs` | extends `AlertTracker` |
| `BmcEventlog` | `bmc_eventlog.rs` and a BMC that logs and clears | |
| `ThermalMonitor` | throttle counters, inlet selection and tiers | extends `AlertTracker` |
| `SlidingWindow` | the deque loop the sliding windows of the code share: drop from the front what is too old | used by `Webhooks`, `NicLink`, `OomStorm`, `PcieAer` |
| `CollectorProofs`, `AgentLinkProofs`, `WebhooksProofs`, `HostLifecycleProofs`, `AlertPathProofs` | the theorems of the module they are named after | extend that module |
| `AlertTrackerProofs` | the theorems of `AlertTracker` and of the monitors that `MCPollers` composes with it | extends `MCPollers` |
| `HardwareProofs`, `BrowserProofs` | the theorems of the parts of `MCHardware` and `MCBrowser` | extend `MCHardware`, `MCBrowser` |

`MC…` modules give constants their values. A module without one is
checked directly: its `.cfg` needs only numbers and sets. `MCPollers` (the tracker by
itself under two tasks, PSI, NVMe, thermal, `HealthPollers`, `BmcEventlog`), `MCHardware` (`OomStorm`, `PcieAer`,
`JournalRules`, NIC link and counters, controllers, `StorageIo`, memory) and
`MCBrowser` (`GuiFeed`, `HistoryStore`, `DesktopNotify`) put
parts side by side that share nothing: a behaviour follows one of them, which an
initial choice fixes, each at its own bounds. A property of such a module has one
conjunct per part it speaks of, defined in that part's own module. All their bounds
are constants that only the `.cfg` fixes, so that the theorems about them hold for
all values. The monitors of `MCPollers` share the variables of one `AlertTracker`,
`Horizon` ends the clock of each; `Rank` is the order of entry ids as strings, which
`MCRank` computes for the numerals of the run. `MCBrowser` follows `GuiFeed` in three scenes, in each
of which some tasks stand still (`Still`): together the three kinds of writers are
too many states for TLC; the theorem `FeedIsTruthful` is about all of them at once.

Variables keep the names of the fields they stand for; the ones marked *observer* in the
declarations record history for a property and never enable or disable a step.
Definitions marked *mutant* are plausible bugs; they are used by no
specification.

Data is abstracted, control is not. A fingerprint is a model value or a pair of
host and metric; the text of a tool is the set of rows or readings it gives; an
alert is the state, severity, time and count that a receiver tells apart. Time
is a number that a `Tick` advances; the order of a clock read and the step
that uses it is kept wherever the code separates the two. A failed tool, read,
connect or POST is an action or a choice of its own.

## Runs

| run | shows |
|---|---|
| `link` | over all connections nothing is delivered twice, and on each the lanes keep their order and a critical message is overtaken by at most one later message, the one taken between the two polls (`OnceInOrder`); a queued message is delivered while the connection lasts (`DeliveredWhileStable`), and a dead connection is left, also one that fell silent while there is nothing to send (`BrokenLinkNoticed`) |
| `collector` | `firing_count` is fully accounted for under every interleaving (`CountAccounted`); `host_offline` never outlives the watcher's verdict (`OfflineAlertJustified`); the verdict, made on a stale clone, catches up: a host that stays silent is held to be offline for good, one that is heard again and again is left without the alert (`WatcherCatchesUp`) |
| `collector_count` | violation of `CountExact`: the watcher leaks decrements |
| `path` | when nothing is under way, the two ends disagree about a condition only after a message was lost or ignored, a process restarted, an operator clicked, or a frame of an older connection was applied late, each on the side it explains (`DisagreementExplained`); likewise about maintenance (`MutedExplained`); an alarm appears for a host in maintenance only through two connections at once (`MaintenanceRespected`); a condition that stays bad ends up shown for good (`StandingAlarmShown`) |
| `browser` | a browser that caught up agrees with the firing map but for exactly characterised alerts, a change between snapshot and subscription and broadcasts out of the order of their changes (`ViewsAgree`, with syslog, the watcher or an agent, an operator and the wipe as writers); what its history list leaves out reached the table after it asked (`HistoryGapsExplained`); after a wipe only rows come back that the writer still had to insert, and a list shows only these and an alert still to be broadcast, but for two named races (`WipeHonoured`); an alarm pops up once (`AlarmPopsOnce`) |
| `webhook` | the rate limit over every window (`RateHonoured`), the endpoint's pause and the single justified retry (`PostsJustified`); the task always returns to the channel (`JobEnds`) |
| `lifecycle` | a shutdown a listening loop hears is announced before the host stops, or the notice was lost to a full lane or was in the hands of the polling task (`HeardMeansAnnounced`); a boot is reported at most once, plus once per start whose write failed, and otherwise only after a real reboot (`ReportedOncePerBoot`) |
| `lifecycle_held` | violation of `HeldMeansAnnounced`: a shutdown between lock and subscription is held back and not announced |
| `pollers` | the tracker under two tasks, one fingerprint shared: a condition still detected is never silent for `re_notify` (`NeverSilentTooLong`), a resolved alert reports all detections (`ResolvedCountsEveryDetection`), `observe_ok` waits for the whole recovery window (`RecoveryWindowHonoured`), and the alerts handed out refine `AlertLifecycle` (`LifecycleRefined`). The monitors on it: what PSI, NVMe and thermal read long enough is told, and for the first two taken back (`ReadingsTold`), sustained pressure is what fired (`FiringMeansSustained`); a reading of SMART, Redfish, a GPU or an NVMe drive is told with its severity unless a younger alert suppresses it (`EscalationTold`); growth of the error log is observed over failed polls, and throttle events told and suppressed add up to the counter's gain (`CountersExact`); a BMC entry is observed at most once, and surely when its id sorts above all ids read before (`EntriesOnce`) |
| `eventlog_order` | violation of `HigherIdsObserved`: entry `10` after `9` is never observed |
| `hardware` | kernel and journal lines are handled in order and once, or lost to a known gap (`LinesAccounted`), and the kernel log drains (`KmsgDrains`); flaps, OOM storms and PCIe rates are raised exactly when that many events were handled within the window (`RateIffDense`); `link_down` follows the link (`DownFollowsLink`); CRC deltas between two consecutive good polls, and uncorrectable memory errors over failed polls too, are exact, and after a counter reset no old error is observed again (`DeltaExact`); a controller, disk or OSD is raised as lost exactly when it was seen and a later view misses the controller or disk or lists the OSD as not active (`LossIffMissed`) |
| `mce_abort` | violation of `CorrectedIsWarned`: a corrected machine check ends the agent |

### Disagreements between documents and code

Four of them have a run that ends in a violation on purpose; the sentence the code
does not keep is quoted under "findings":

* `collector_count`: the watcher removes `host_offline` without decrementing the
  count (`collector/src/main.rs:162`), so it grows by one with every outage;
* `lifecycle_held`: a shutdown announced after the delay lock is taken and before
  the signal is subscribed (`lifecycle.rs:113`) is held up to logind's limit and
  no notice is sent;
* `eventlog_order`: `bmc_eventlog.rs:88` compares ids as strings, so an entry with the
  highest id of its log may be passed over;
* `mce_abort`: `EXPLICIT_UNCORR` (`cpu_mce.rs:81`) has a look-ahead, which the
  regex crate does not offer; its `unwrap` panics on the first `|CE|` line, and the
  release is built with `panic = "abort"`. That the pattern does not compile is
  taken from the regex crate's documented syntax (`RegexSyntax`, external).

The others were met while translating the code. Where a model has the
state concerned it shows them, as reachable states or as an exception a property has
to make; none is repaired:

* `bus.rs:55` says a full lane drops the oldest message; `try_send` drops the new one,
  which the tracker has by then recorded as told (the exception `Lost` of
  `HeardMeansAnnounced`).
* `transport.rs:77`: the critical lane has the first look at every poll, yet an alert
  that arrives between the two polls waits for one later message.
* `docs/alert-schema.md:68` has a Hello per connection; it is sent once per process.
* `docs/architecture.md:56` says a known fingerprint is not broadcast again; it is
  (`state.rs:75` of the collector).
* `http.rs:108` says every browser updates; a resolve between a browser's snapshot
  and its subscription misses it (the exception `suspect` of `ViewAgrees`).
* `shared/src/lib.rs:118` calls `firing_count` the number of firing alerts;
  heartbeats carry a zero to the browsers (`ws_ingest.rs:63`).
* `webhooks.rs:15` says failures are not retried; they are, once.
* `network_nic.rs:161`: a `link_down` stays when the link comes up while the
  netlink loop restarts (the exception of `DownFollowsLink`); line 9: flapping never
  resolves; `docs/thresholds.md:51`: the first state seen counts as a transition;
  line 315: after a failed ethtool call old errors are new for one poll (the exception
  `good` of `DeltaExact`).
* `lifecycle.rs:7`: the lock is released when the notice is queued, not when it is
  sent; `docs/lifecycle-detection.md:9`: the notice takes the normal lane; line 56 there:
  a crash after the boot state is written loses the report.
* `boot.rs:4` makes the kernel's taint flags a condition of the report, which it calls
  `unclean_reboot`; the code only names them in the text of `unclean_reboot_check`. A write of the state file that fails is ignored (line 39), so
  that every start of that boot reports again, the first boot of all included if the
  write left an empty file.
* `mempressure.rs:185`: kills read together after a delay count as a storm; line 5:
  a second victim of the same name gives no alert.
* `docs/thresholds.md:75`: a host's last controller vanishes unnoticed.
* `nvme.rs:171`: media errors have no baseline; line 6: an escalation is suppressed as
  a repeat; `docs/alert-schema.md:7`: a temperature alert does not resolve.
* `memory_ecc.rs:136`: sensor names are matched by substring, so errors of `A10` may be
  reported for `A1` (the exception `Unambiguous` of `EccMonitor!UeExact`); line 121:
  errors after a counter reset are not observed until they exceed the old count.
* `storage_io.rs:8` promises to correlate losses with a controller lockup;
  `correlation_loop` only logs. An OSD unit that leaves the list is not raised.
* `bmc_eventlog.rs:7`: beside the order of ids, the entries of a cleared log are passed
  over until they exceed the old ids; and all entries of all logs share a fingerprint,
  so one within `re_notify` of another is suppressed. Line 9: the ipmitool fallback is not reached with a URL configured,
  `poll` being always `Ok`.
* `bmc_redfish.rs:4` has no ipmitool fallback, and its branch for a stalled fan is dead.
* `syslog_rules.rs:9`: a rule that does not compile disables the module with a
  warning, not the configuration.
* `pcie_aer.rs:75`: the rate counts handling times, and all devices together.
* `app.js:225`: an alert resolved while the browser was away stays in `notified`, so
  its return does not pop up (the exception `lapsed` of `AlarmPopsOnce`).
* `app.js:306`: an alert pushed before and answered after may be listed twice or not
  at all; wiped rows come back in an answer that was overtaken, or when the wipe is
  told between snapshot and subscription; and rows that the writer had not yet inserted
  come back after the wipe (the exceptions of `WipeHonoured`).
* `thermal.rs:221`: the PSU inlet is used while the ambient sensor gives no reading;
  line 60: throttle events within `re_notify` of an alert are never told, since the
  baseline moves although the alert is suppressed.

### Bounds

Every bound is a constant named `Max…` (or a capacity) with a comment, and is
only ever a guard. They are chosen so that the interesting cases happen:
capacities of 1 or 2 so that lanes, rings and queues overflow; two connections
of one host, so that an old handler runs beside a new one; two tasks on one
tracker, with a fingerprint that both drive (`TrackerDetections` bounds their
detections); a clock that reaches beyond `ReNotify`, `Recovery` or the windows, so
that both sides of each boundary are visited; two boots and three starts of the
agent, each with a write that may fail, and a lane of one message; enough polls for a good, a failed and a good one again. In `Collector`,
`MaxLeaks` bounds the growth of a count that nothing in the code bounds: an
agent whose host has leaked that many decrements falls silent. `MCBrowser` has a
syslog sender alone, an agent host without alerts that the watcher takes for offline as
time passes, and an agent's alert with history wipes at a standing clock, over a ring of
two events. `AlertPath` counts time
in polls since the last emission, so it needs no clock that stops, and `MaxFaults`
allows two faults of any kind, enough for one on each side or for one to undo what
repairs the other. In `BmcEventlog` ids begin at 9, so that they pass from one digit
to two, and a cleared log begins at 1. `HistoryStore` has a fetch limit below the
length of the list, two connections, two fetches under way and a wipe, so that every
order of answers, events and the wipe occurs, also with an alert in the queue and
another in the writer's hand. `CHECK_DEADLOCK FALSE` stands where the
bounds let a run come to rest; `Collector` and `AlertPath` are checked for deadlock.
No symmetry is used.

### Fairness

Weak fairness is assumed only of tasks that the runtime polls: the transport and
its socket writes (`AgentLink`), the watcher and its timer (`Collector`), the
webhook task and the end of a POST, which reqwest's 10 s timeout forces
(`Webhooks`), the tailer and its consumer (`OomStorm`, in `MCHardware`), and in `HostLifecycle` the
agent's tasks, systemd restarting the agent and logind going on with a shutdown.
In `AgentLink` the polls of `pump` are weakly fair together; of the poll of the timer
both outcomes are strongly fair, for the 15 s interval is due again and again but not
in every round, and without the second the socket behind it might never be looked at.
Of the network only that a frame in flight is delivered or its connection cut at
last, and that the kernel gives up on data nobody acknowledges (`GiveUp`: TCP
retransmits for a limited time); nothing is assumed of agents, operators, endpoints or connects.
`AlertPath` assumes more, because its promise is about the whole way: polls go on, a
connect is tried until it succeeds, the handlers run, and (strong fairness of a failing
send or an ending pump) a broken connection does not swallow messages for ever, which
`set_keepalive` and the pings of `pump` see to. Faults are finitely many.

## Proofs

Every theorem about a specification goes from `Init => IInv` and
`IInv /\ [Next]_vars => IInv'` to `Spec => []IInv`; the step lemma has one case per
action, and the inductive invariant `IInv` is a conjunction of named parts.

**`AlertTrackerProofs`** (any sets of tasks, fingerprints and severities, any
`ReNotify`, `Recovery`):

* `TypeCorrect`, `NoLongSilence`, `ResolvedCountsExact`: the three state
  properties. None is inductive alone. `IInv` adds that an entry exists exactly
  for a fingerprint whose last alert is firing, with the same count and emission
  time (`EntriesMatchEpisodes`); that a call under way was sampled no later than
  now and, when its task alone drives the fingerprint, no earlier than its last
  detection (`CallsAreRecent`); and that no stored time is in the future
  (`StampsArePast`). A shared fingerprint has no such order: an older sample may come
  later, and the saturating difference then suppresses it, which is right.
* `RecoveryWindow`: the action property, from the same invariant. It rests on
  `observe_ok` being called only about fingerprints that one task drives.
* `TrackerImplementsLifecycle`: every behaviour implements `AlertLifecycle`.

and of the monitors of `MCPollers`, for any thresholds, sensor rows, logs and horizons
(`PollersSpec`). `PollersInv` is `IInv` and the invariant of the monitor followed; the
lemmas `PsiTracker`, `NvmeTracker` and their kin say that the tracker a monitor calls is
the one of `IInv`, so that each operation of it is dealt with once.

* `ReadingsAreTold` (`ReadingsTold`). For PSI (`PsiInv`): `breach_since` is the time of
  the first sample of the run of high ones that the last sample ends; a call in
  progress is about the last sample; and the recovery window of an open episode starts
  no later than any sample of the trailing low run that the tracker has heard of, or a
  resolve could be late for ever. The NVMe warning bits (`NvmeInv`) need the same of
  reads that found zero; the thermal tiers, which nothing takes back, that a call in
  progress is about the tier just read (`ThermalInv`).
* `FiringIsSustained` (`FiringMeansSustained`), an action property, from `PsiInv`.
* `CountersAreExact` (`CountersExact`): `last_err_log` is the value of the last read,
  failed polls leave it alone; the throttle baseline, the last reading and the counter
  are in this order (`CountersOrdered`), and the events told, suppressed and in the hands
  of the loop add up to what the counter gained (`NoticedInAll`).
* `EscalationsAreTold` (`EscalationTold`): a call in progress carries the severity of
  the last reading (`HealthInv`, and `CallAboutLast` of `NvmeInv`).
* `EntriesObservedOnce` (`EntriesOnce`), an action property: `last_seen` is the highest
  rank of an id read of the log (`LastSeenIsHighest`), an entry that was read is not
  above it (`ReadNotAbove`), and no two entries have one number (`NumbersDiffer`). That
  there is a highest rank follows from a bound on ids (`IdsBounded`). Of `Rank` nothing
  is assumed but its type: the theorem holds for every order of ids.

**`CollectorProofs`** (any hosts, peers, connections, any finite sets of metrics
and operators, any capacities):

* `TypeCorrect`: among others, `firing_count` stays a natural number.
* `CountsAccounted`: a host's count is the number of its firing alerts, plus
  the decrements that requests between their two locks still owe, plus the ones
  the watcher left out. So it never understates, and the code's clamps at zero
  never engage. `IInv` needs the same books for unknown hosts (`Books`: nothing
  fires, is owed or leaked for them), that a handler past `touch_host` and a scan
  know their hosts (`HandlersKnow`, `ScanKnows`), or `apply_alert` would
  silently skip its increment. The lemmas on cardinalities say what adding or
  removing one fingerprint or one request does to one host's sums.
* `OfflineJustified`: `host_offline` fires only while the watcher's verdict is
  offline.

**`AgentLinkProofs`** (any lane capacities, backoffs, numbers of messages and
connections):

* `TypeCorrect`: the lanes stay within their capacities, the backoff within its range.
* `DeliveryInOrder` (`OnceInOrder`). What was read says nothing about what will be:
  `IInv` follows a message along its whole way. Each lane is in the order of the
  sends and holds one kind (`LanesOrdered`); what left the lanes precedes what is in
  them (`LeftEarlier`), what was written precedes the message in the hands of
  `ship()` (`InHandLast`), a connection keeps the order and shares no message with
  another (`WireOrdered`), and what was read precedes what is still on its
  connection (`ReadEarlier`). Since the two lanes are polled one after the other, a
  critical message may be behind one later message; the observer `overtook` names it,
  `Precedes` excuses that one alone, and `PassedFresh` says that what arrives after the
  first poll is later than all that has left, so that there is no second. `Precedes` is
  not transitive over the two lanes, so each pair of stations needs its own clause.

**`WebhooksProofs`** (any rate, window, pauses, ring capacity):

* `RateLimitHolds` (`RateHonoured`). The deque is the end of the history of
  admissions, and all that was dropped from it is too old to matter
  (`WindowIsSuffix`); with the admissions in order of time (`AdmittedInOrder`), an
  admission finds its `Rate`-th predecessor outside the window. The lemma
  `RecentFacts` says what the deque loop leaves.
* `PostsAreJustified` (`PostsJustified`): what is unread is newer than the alert in
  hand, and that newer than what was POSTed, but for its own first attempt
  (`AlertsInOrder`); no sleep of `deliver` ends before the pause it serves (`PausesKept`).
* `TypeCorrect`.

**`HostLifecycleProofs`** (any number of boots, starts and any delays):

* `ReportOnce` (`ReportedOncePerBoot`): what the file holds, or may hold after a power
  loss, was written by some start, and each report of a boot, the one to come included,
  is paid for by a failed write or by the id that is in the file now (`BootsRecorded`).
  This rests on the order of write and send in `boot.rs`. A power loss ends the boot, so
  what it leaves of the file matters only in the next.
* `NoticeBeforeStop` (`HeardMeansAnnounced`), an action property: a loop that was
  listening when the shutdown was asked for still listens and so holds the lock, or a
  notice is accounted for (`NoticeOwed`). What the tracker holds as told has entered the
  lane since, or was discarded since, or is in the hands of the polling task
  (`Whereabouts`); a notice suppressed by the tracker is as good as the one before it.
* `TypeCorrect`.

**`AlertPathProofs`** (any `ReNotify`, `Recovery`, capacities, numbers of faults):

* `PathInvariant`: the inductive invariant. What is under way is ordered: the lane is
  behind the current connection, that behind its handler's alert, and the old
  connection before them all. Either a recorded fault excuses the difference, or the
  last alert on this way is the one that is due, or none is under way and it has been
  applied (`AlertAccounted`); likewise for the last Hello (`HelloAccounted`). What the
  old connection holds counts only until a frame of its successor is read, for then
  it is late. `HandsChecked` relates an alert a handler has let through to
  the maintenance that may have overtaken it.
* `DisagreementHasCause`, `MutedHasCause`, `TypeCorrect` follow from it;
  `MaintenanceKept` is the action property `MaintenanceRespected`. Lemmas on queues
  (`QueueTail` and its kin) say what becomes of the last message of one kind
  when one is appended, taken or dropped.

**`HardwareProofs`** (any devices, names, thresholds, capacities; for the
parts of `MCHardware`, of which a behaviour follows one, `OneMonitor`):

* `LossExact` (`LossIffMissed`): `storage_controller.rs` and `storage_io.rs`, with
  the view of the last good enumeration as the state that carries the history.
* `DownIsTold` (`DownFollowsLink`), for operational states other than `None`.
* `DeltasExact` (`DeltaExact`), an action property: the counters kept are those of
  the last poll that read them; a failed NIC poll stores zeros instead, so the NIC part
  is of two consecutive polls that read the counter (`good`). For the memory sensors the
  counts grow until they start over (`Growing`, `restarted`) and are paired with the
  names read (`Paired`), while every poll got all numbers or none (`clean`). It is assumed that a name contains itself, as `str::contains` does.
* `RatesExact` (`RateIffDense`), an action property: an OOM storm, a PCIe error rate
  and link flapping are raised exactly when as many events as configured were
  handled within the rolling window. For kills and PCIe lines the invariant says
  that at any later time the window will count exactly the events within the span
  (`StormInv`, `RateInv`); for the NIC, whose window a new connection empties, that
  the window is the end of that connection's log (`FlapInv`). Lemma `WindowStep` says
  what one push into `SlidingWindow` does to that. It is assumed that times and
  window lengths are natural numbers and that the flap threshold is not zero.
* `LinesAreAccounted` (`LinesAccounted`). For `journal.rs`: the lines handled, in the
  channel and in the pipe are three rising runs, one before the other, and with the
  lost ones they are all there were. For `kmsg.rs` and `oom_loop` (`KillsInv`): the
  ring always holds the last records, the channel earlier ones in rising order, and
  the kills handled come before both (`InKernelOrder`); every record broadcast is in
  one of four counts; and a record the ring overwrites shows in the number of lines,
  so that while nothing was overwritten the kills handled and pending are all.

**`BrowserProofs`** (any number of alerts, wipes, connections and fetches; for
`GuiFeed` any sets of hosts, senders, operators and browsers and any ring capacity):

* `FeedIsTruthful` (`ViewAgrees` of all of `GuiFeed`) and `BrowsersAgree` (`ViewsAgree`,
  the scenes of `MCBrowser`). An invariant of what a browser shows must speak of what it
  will show: `LeadsTo` says that after the events in its receiver an alert is shown
  exactly if it fires, because the last event that settles it says so or none does
  and it is shown so now. `GuiInv`: this holds of every subscribed browser that did not
  lag, but for suspected alerts and those with a broadcast to come (`FeedAgrees`);
  between snapshot and subscription what is shown is the firing map but for what has
  changed since (`ReadingAgrees`); and every broadcast or wipe snapshot still to come that
  the map has moved past is suspected in every browser (`SuspectCovers`). It rests on the
  collector's own `IInv`. `BroadcastFacts` says what one broadcast does to a receiver,
  lagging included.
* `GapsAreExplained` (`HistoryGapsExplained`), for any fetch limit and list capacity: what
  waits for the writer is not in the table, nor was it when the browser asked
  (`QueueFresh`); a list that is not full still has all that was pushed (`HeardListed`);
  and each answer to the last request, and the list made of it, has all rows that were
  there when the browser asked and still are, but for the limit (`AnswersCover`).

* `WipesAreHonoured` (`WipeHonoured`), for any fetch limit and history length:
  what was accepted before the wipe is `Erased` unless the writer still had to insert it
  (`late`), and `Forgotten` unless its broadcast was still to come either (`untold`).
  Nothing erased is stored or on its way to the table, nothing forgotten on its way to
  the feed (`StoreClean`); once
  the wipe is told, an event of a forgotten alert on the socket is followed by a snapshot,
  which empties the list (`FeedClean`, with `FeedQuiet` for a socket not yet
  subscribed); and without one to come the list, and the answers that may become
  the list, hold nothing forgotten (`ListClean`).
* `AlarmsPopOnce` (`AlarmPopsOnce`): what popped up since the last resolution is in
  `notified`, and what is there is shown or has vanished in a snapshot.

The assumptions on constants are types, finiteness and non-zero capacities
(`TrackerAssumption`, `CollectorAssumption`, `LinkAssumption`, `WebhookAssumption`,
`LifecycleAssumption`, `PathAssumption`, `OomAssumption`, `PollersAssumption`, the last
also that a monitor's loop alone drives its fingerprints); that `None` is none of the
values it is told apart from (`NoneAssumption`, `GuiAssumption` and parts of the others), and that the
key of the storm alert is none of the keys of kills, whose metric differs
(`OomAssumption`); and the one
modelling fact that host ids of agents and syslog senders differ. TLC evaluates them in
the runs. Where a theorem needs more, its own ASSUME says so.

Only model-checked is all liveness: `DeliveredWhileStable`, `BrokenLinkNoticed`,
`WatcherCatchesUp`, `JobEnds`, `StandingAlarmShown`, `KmsgDrains`. Fairness and
`ENABLED` are out of the prover's reach. Every other property that a passing run checks
is stated by a theorem.

## Not modelled

The browser's host cells, rendering and filters of the GUI, configuration files and
their editor, logging, the debug page, host identity and vendor detection, TLS,
deployment: read-once data or pure I/O. `oshang` is four patterns on one line and
then one `observe`, with no state but the tracker's; `correlation_loop` of
`storage_io` keeps a queue that nothing reads. A `boot_id` that cannot be read is left
out: `boot.rs` then does nothing. The text matching of kernel lines is
not modelled anywhere: a line is of one kind or another, or has a mark or not.

## Plan

Done, in this order: tracker with its abstract specification and proofs; agent
link; collector with proofs; GUI feed; webhooks; NIC; lifecycle; OOM and PSI;
controllers, NVMe, ECC, thermal; the end-to-end path; history store and desktop
notifications; machine checks, PCIe, journal, storage; SMART, Redfish, GPUs and the
BMC event log.

Then the proofs: tracker, collector, link, webhooks, lifecycle, path, hardware, wipes
and popups, the browser's view and history, the pollers.

Left: the host cells of the browser, with the zero `firing_count` that heartbeats carry
to them, and the configuration editor.
