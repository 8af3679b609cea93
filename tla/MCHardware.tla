----------------------------- MODULE MCHardware -----------------------------
(***************************************************************************)
(* The monitors that follow kernel or journal lines, or compare what they  *)
(* read with what they read before: OomStorm, PcieAer, JournalRules,       *)
(* NicLink, NicCounters, Controllers, StorageIo and EccMonitor.  They      *)
(* share nothing, so a behaviour follows one of them, chosen initially;    *)
(* the variables of the others are None.                                   *)
(***************************************************************************)
EXTENDS OomStorm

CONSTANTS
    Devices, AerWindow, WarnCount, AerTime, AerLines,                    \* PcieAer
    JournalLines, MaxChildren,                                           \* JournalRules
    FlapWindow, FlapThreshold, LinkTime, LinkChanges, MaxSessions,       \* NicLink
    MaxCrc, CounterPolls,                                                \* NicCounters
    Hpe, PercCount, RaidChanges,                                         \* Controllers
    Disks, Osds, StorageChanges,                                         \* StorageIo
    Dimms, Contains, CeMin, MaxCe, MaxUe, EccPolls, MaxFaults, Generic   \* EccMonitor

VARIABLES
    monitor,                                     \* the one followed
    last, polls, changes, seen, missed, observed, lost,  \* of more than one monitor
    pending, corr_window,                        \* PcieAer
    on, child, children, pipe, journal,          \* JournalRules
    link, wire, last_state, win, down, flap, session, sessions, log, sends,
    crc, unsupported, crc_d, atPoll, good,
    health, lockup, status, kmsg,
    disks, units, last_active, osd_down, io_error, ran, stopped,
    path, mem, generic, prev_counts, new, alerts, clean, atFull, restarted

oomOnly == <<ring, overrun, lagged, storm, notified, sent, kills, received, broadcast, warned>>
lineVars == <<chan, handled>>
aerOnly == <<pending, corr_window>>
journalOnly == <<on, child, children, pipe, journal>>
linkOnly == <<link, wire, last_state, win, down, flap, session, sessions, log, sends>>
counterOnly == <<crc, unsupported, crc_d, atPoll, good>>
raidOnly == <<health, lockup, status, kmsg>>
storageOnly == <<disks, units, last_active, osd_down, io_error, ran, stopped>>
eccOnly == <<path, mem, generic, prev_counts, new, alerts, clean, atFull, restarted>>
shared == <<now, lineVars, lines, last, polls, changes, seen, missed, observed, lost>>
allVars == <<monitor, shared, oomOnly, aerOnly, journalOnly, linkOnly, counterOnly,
             raidOnly, storageOnly, eccOnly>>

Aer == INSTANCE PcieAer WITH Window <- AerWindow, MaxTime <- AerTime, MaxLines <- AerLines
Journal == INSTANCE JournalRules WITH MaxLines <- JournalLines
Link == INSTANCE NicLink WITH MaxTime <- LinkTime, MaxChanges <- LinkChanges
Counters == INSTANCE NicCounters WITH MaxPolls <- CounterPolls
Raid == INSTANCE Controllers WITH MaxChanges <- RaidChanges
Storage == INSTANCE StorageIo WITH MaxChanges <- StorageChanges
Ecc == INSTANCE EccMonitor WITH MaxPolls <- EccPolls

\* Names of DIMMs of which none contains another.
OwnNames == {<<d, d>> : d \in Dimms}

NoOom ==
    /\ ring = None /\ overrun = None /\ lagged = None /\ storm = None /\ notified = None
    /\ sent = None /\ kills = None /\ received = None /\ broadcast = None /\ warned = None
NoAer == pending = None /\ corr_window = None
NoJournal ==
    on = None /\ child = None /\ children = None /\ pipe = None /\ journal = None
NoLink ==
    /\ link = None /\ wire = None /\ last_state = None /\ win = None
    /\ down = None /\ flap = None /\ session = None /\ sessions = None
    /\ log = None /\ sends = None
NoCounters ==
    crc = None /\ unsupported = None /\ crc_d = None /\ atPoll = None /\ good = None
NoRaid == health = None /\ lockup = None /\ status = None /\ kmsg = None
NoStorage ==
    /\ disks = None /\ units = None /\ last_active = None
    /\ osd_down = None /\ io_error = None /\ ran = None /\ stopped = None
NoEcc ==
    /\ path = None /\ mem = None /\ generic = None /\ prev_counts = None
    /\ new = None /\ alerts = None /\ clean = None /\ atFull = None /\ restarted = None
NoLines == chan = None /\ handled = None
NoViews == changes = None /\ seen = None /\ missed = None

\* No monitor that polls, or none that reads lines, is followed.
NoPollers == NoLink /\ NoCounters /\ NoRaid /\ NoStorage /\ NoEcc /\ last = None /\ polls = None
NoReaders == NoOom /\ NoAer /\ NoJournal /\ NoLines /\ lines = None /\ observed = None

HardwareInit ==
    \/ /\ monitor = "oom" /\ Init
       /\ NoAer /\ NoJournal /\ NoPollers /\ NoViews /\ observed = None /\ lost = None
    \/ /\ monitor = "aer" /\ Aer!Init
       /\ NoOom /\ NoJournal /\ NoPollers /\ NoViews /\ lost = None
    \/ /\ monitor = "journal" /\ Journal!Init
       /\ NoOom /\ NoAer /\ NoPollers /\ NoViews /\ now = None /\ lines = None
    \/ /\ monitor = "link" /\ Link!Init /\ NoReaders
       /\ NoCounters /\ NoRaid /\ NoStorage /\ NoEcc
       /\ NoViews /\ last = None /\ polls = None /\ lost = None
    \/ /\ monitor = "counters" /\ Counters!Init /\ NoReaders
       /\ NoLink /\ NoRaid /\ NoStorage /\ NoEcc
       /\ NoViews /\ now = None /\ lost = None
    \/ /\ monitor = "controllers" /\ Raid!Init /\ NoReaders
       /\ NoLink /\ NoCounters /\ NoStorage /\ NoEcc
       /\ now = None /\ polls = None /\ lost = None
    \/ /\ monitor = "storage" /\ Storage!Init /\ NoReaders
       /\ NoLink /\ NoCounters /\ NoRaid /\ NoEcc /\ now = None /\ polls = None
    \/ /\ monitor = "ecc" /\ Ecc!Init /\ NoReaders
       /\ NoLink /\ NoCounters /\ NoRaid /\ NoStorage
       /\ NoViews /\ now = None /\ last = None /\ lost = None

pollersOnly == <<linkOnly, counterOnly, raidOnly, storageOnly, eccOnly, last, polls>>
readersOnly == <<oomOnly, aerOnly, journalOnly, lineVars, lines, observed>>
views == <<changes, seen, missed>>

\* What a step of OomStorm leaves alone.
BesidesOom == UNCHANGED <<monitor, aerOnly, journalOnly, pollersOnly, views, observed, lost>>

HardwareNext ==
    \/ monitor = "oom" /\ Next /\ BesidesOom
    \/ /\ monitor = "aer" /\ Aer!Next
       /\ UNCHANGED <<monitor, oomOnly, journalOnly, pollersOnly, views, lost>>
    \/ /\ monitor = "journal" /\ Journal!Next
       /\ UNCHANGED <<monitor, oomOnly, aerOnly, pollersOnly, views, now, lines>>
    \/ /\ monitor = "link" /\ Link!Next
       /\ UNCHANGED <<monitor, readersOnly, counterOnly, raidOnly, storageOnly, eccOnly,
                      views, last, polls, lost>>
    \/ /\ monitor = "counters" /\ Counters!Next
       /\ UNCHANGED <<monitor, readersOnly, linkOnly, raidOnly, storageOnly, eccOnly,
                      views, now, lost>>
    \/ /\ monitor = "controllers" /\ Raid!Next
       /\ UNCHANGED <<monitor, readersOnly, linkOnly, counterOnly, storageOnly, eccOnly,
                      now, polls, lost>>
    \/ /\ monitor = "storage" /\ Storage!Next
       /\ UNCHANGED <<monitor, readersOnly, linkOnly, counterOnly, raidOnly, eccOnly, now, polls>>
    \/ /\ monitor = "ecc" /\ Ecc!Next
       /\ UNCHANGED <<monitor, readersOnly, linkOnly, counterOnly, raidOnly, storageOnly,
                      views, now, last, lost>>

\* The fairness of OomStorm: its two tasks keep being polled.
HardwareSpec ==
    /\ HardwareInit /\ [][HardwareNext]_allVars
    /\ WF_allVars(monitor = "oom" /\ Tailer /\ BesidesOom)
    /\ WF_allVars(monitor = "oom" /\ Consumer /\ BesidesOom)

-----------------------------------------------------------------------------
(* Properties, each of the monitor that is followed.                       *)

\* kmsg.rs and mempressure.rs oom_loop: every line the tailer broadcast has
\* been received, waits in the channel or is counted by a Lagged warning; kills
\* are handled in the kernel's order and none twice; and while nothing was
\* overwritten, none is missing.  journal.rs and syslog_rules.rs: over any number of
\* journalctl processes the rules see the lines in the journal's order and each
\* at most once, and the others are under way or fell into a known gap.
LinesAccounted ==
    /\ monitor = "oom" => KillsAccounted
    /\ monitor = "journal" => Journal!JournalAccounted

\* kmsg.rs and oom_loop: once the kernel falls silent every record is read
\* and every line handled or counted as lost.
KmsgDrains == []<>(monitor = "oom" => Drained)

\* mempressure.rs oom_loop, pcie_aer.rs, network_nic.rs run_rtnetlink: the
\* alert about many events in a rolling window is raised if and only if as
\* many kills, corrected errors or link transitions as configured were handled
\* within it, whatever the window dropped before.
RateIffDense ==
    [][/\ monitor = "oom" => StormIffDense
       /\ monitor = "aer" => Aer!RateIffDense
       /\ monitor = "link" => Link!FlapIffDense']_allVars

\* network_nic.rs run_rtnetlink: link_down is raised whenever the link is not
\* up, across restarts of the loop, and until the loop first restarts it is
\* not raised while the link is up.
DownFollowsLink == monitor = "link" => Link!DownFollowsLink

\* network_nic.rs counter_loop: a poll that reads the counter, as the poll before it
\* did, observes exactly the errors counted in between, whatever failed polls and
\* resets went before; memory_ecc.rs: a poll that reads all sensors, as the last one
\* that read any did, observes exactly the uncorrectable errors counted in between,
\* also over failed polls, and after a reset none of the old ones.
DeltaExact ==
    [][/\ monitor = "counters" => Counters!DeltaExact
       /\ monitor = "ecc" => Ecc!UeExact]_allVars

\* storage_controller.rs poll_loop and storage_io.rs: a controller is raised as
\* lost exactly when it was seen once and missing from a later view that was not
\* empty, a disk when missing from a later view, a Ceph OSD when it was active
\* and later listed as anything else (one that only leaves the list is not raised),
\* whatever enumerations failed or were partial in between.
LossIffMissed ==
    /\ monitor = "controllers" => Raid!LockupIffMissed
    /\ monitor = "storage" => Storage!LossIffMissed
=============================================================================
