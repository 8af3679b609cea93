----------------------------- MODULE MCPollers -----------------------------
(***************************************************************************)
(* AlertTracker by itself, called by two tasks at will, and the poll loops *)
(* that live on a tracker of their own: PsiMonitor, NvmeMonitor,           *)
(* ThermalMonitor, HealthPollers and BmcEventlog.  They share nothing, so  *)
(* a behaviour follows one of them, chosen initially; the variables of the *)
(* others are None.  Each has bounds of its own.                           *)
(***************************************************************************)
EXTENDS AlertTracker, Sequences, FiniteSets

CONSTANTS
    poller,                                      \* the task of the loop followed
    helper, shared,                              \* another task, and what both drive
    TrackerCalls, TrackerDetections,             \* bounds: what the two call about, how often
    key,                                         \* the fingerprint of a check with one
    Sustain,                                     \* PsiMonitor
    Rows, MaxThrottles,                          \* ThermalMonitor
    Logs, FirstId, MaxEntries, Rank,             \* BmcEventlog
    NvmeChanges, ThermalChanges, HealthChanges,
    Horizon                                      \* bound: the clock of each monitor stops here

VARIABLES
    monitor,                                     \* the one followed
    polled, samples, changes,                    \* of more than one monitor
    high, breach_since,                          \* PsiMonitor
    metric, value, last_err_log, observed,       \* NvmeMonitor
    temps, stage, read, read_at, tier, alone, throttles, last_throttle, delta, reported,
        suppressed, base,                        \* ThermalMonitor
    check, reading,                              \* HealthPollers
    url, logs, nextId, written, last_seen, turn, notified, fresh, sent, known, listed

tracker == <<entries, call, told, count, lastBad>>
psiOnly == <<high, breach_since>>
nvmeOnly == <<metric, value, last_err_log, observed>>
thermalOnly == <<temps, stage, read, read_at, tier, alone, throttles, last_throttle, delta,
                 reported, suppressed, base>>
healthOnly == <<check, reading>>
eventlogOnly == <<url, logs, nextId, written, last_seen, turn, notified, fresh, sent, known,
                  listed>>
pollerVars == <<monitor, now, tracker, polled, samples, changes, psiOnly, nvmeOnly,
                thermalOnly, healthOnly, eventlogOnly>>

Psi == INSTANCE PsiMonitor WITH psi_loop <- poller, psi_high <- key
Nvme == INSTANCE NvmeMonitor WITH
    poll_loop <- poller, fp <- key, MaxChanges <- NvmeChanges
Thermal == INSTANCE ThermalMonitor WITH thermal_loop <- poller, MaxChanges <- ThermalChanges
Health == INSTANCE HealthPollers WITH
    health_loop <- poller, fp <- key, MaxChanges <- HealthChanges
Eventlog == INSTANCE BmcEventlog

ThermalMetrics ==
    {"inlet_temp_warning", "inlet_temp_critical", "inlet_temp_emergency", "cpu_throttle"}

\* The loop makes every call about its own fingerprints, and no call is None.  A
\* BMC numbers entries from 1, the agent knows at least one log, and every id has
\* its place among the ids there can be.
ASSUME PollersAssumption ==
    /\ poller \in Tasks /\ {key} \cup ThermalMetrics \subseteq Fingerprints
    /\ \A fp \in {key} \cup ThermalMetrics : Drivers[fp] = {poller}
    /\ {"info", "warning", "critical"} \subseteq Severities
    /\ None \notin CallRecord /\ Sustain \in Nat
    /\ Rows \in Seq({"ambient", "room", "inlet_temp", "inlet", "psu_inlet", "other"})
    /\ Logs \in Seq({Logs[i] : i \in DOMAIN Logs}) /\ Logs # <<>>
    /\ FirstId \in Nat \ {0} /\ MaxEntries \in Nat /\ Rank \in [Eventlog!Ids -> Eventlog!Ids]

-----------------------------------------------------------------------------
(* The values the configuration gives.                                     *)

MCFingerprints == {key, shared} \cup ThermalMetrics
MCDrivers ==
    [fp \in MCFingerprints |-> IF fp = shared THEN {poller, helper} ELSE {poller}]
MCRows == <<"psu_inlet", "inlet", "ambient">>
MCLogs == <<"SEL", "IML">>

\* The decimal numerals of Ids, of at most two digits, in the order of strings.
Padded(n) == IF n < 10 THEN 10 * n ELSE n
SortsUpTo(m, n) == Padded(m) < Padded(n) \/ (Padded(m) = Padded(n) /\ m =< n)
MCRank ==
    LET ids == 1 .. FirstId + MaxEntries
    IN  [n \in ids |-> Cardinality({m \in ids : SortsUpTo(m, n)})]

MCHorizon == [m \in {"tracker", "psi", "nvme", "thermal", "health", "eventlog"} |->
                CASE m = "tracker" -> 3 [] m = "psi" -> 6 [] m = "nvme" -> 4 [] m = "thermal" -> 2
                  [] m = "health" -> 3 [] m = "eventlog" -> 2]

-----------------------------------------------------------------------------
NoPsi == high = None /\ breach_since = None
NoNvme == metric = None /\ value = None /\ last_err_log = None /\ observed = None
NoThermal ==
    /\ temps = None /\ stage = None /\ read = None /\ read_at = None /\ tier = None
    /\ alone = None /\ throttles = None /\ last_throttle = None /\ delta = None
    /\ reported = None /\ suppressed = None /\ base = None
NoHealth == check = None /\ reading = None
NoEventlog ==
    /\ url = None /\ logs = None /\ nextId = None /\ written = None /\ last_seen = None
    /\ turn = None /\ notified = None /\ fresh = None /\ sent = None /\ known = None
    /\ listed = None

PollersInit ==
    \/ /\ monitor = "tracker" /\ Init
       /\ NoPsi /\ NoNvme /\ NoThermal /\ NoHealth /\ NoEventlog
       /\ polled = None /\ samples = None /\ changes = None
    \/ /\ monitor = "psi" /\ Psi!PsiInit
       /\ NoNvme /\ NoThermal /\ NoHealth /\ NoEventlog /\ changes = None
    \/ /\ monitor = "nvme" /\ Nvme!NvmeInit
       /\ NoPsi /\ NoThermal /\ NoHealth /\ NoEventlog
    \/ /\ monitor = "thermal" /\ Thermal!ThermalInit
       /\ NoPsi /\ NoNvme /\ NoHealth /\ NoEventlog /\ samples = None
    \/ /\ monitor = "health" /\ Health!HealthInit
       /\ NoPsi /\ NoNvme /\ NoThermal /\ NoEventlog
    \/ /\ monitor = "eventlog" /\ Eventlog!EventlogInit /\ Init
       /\ NoPsi /\ NoNvme /\ NoThermal /\ NoHealth
       /\ polled = None /\ samples = None /\ changes = None

\* The calls two tasks may make; the tracker never compares severities.
WithinBounds(c) ==
    /\ c.fp \in TrackerCalls /\ c.severity \in {"warning", None}
    /\ c.op = "observe" => c.fp \notin DOMAIN entries \/ count[c.fp] < TrackerDetections

TrackerNext ==
    Next /\ \A t \in Tasks : call'[t] \notin {call[t], None} => WithinBounds(call'[t])

PollersNext ==
    /\ \/ /\ monitor = "tracker" /\ TrackerNext
          /\ UNCHANGED <<monitor, psiOnly, nvmeOnly, thermalOnly, healthOnly, eventlogOnly,
                         polled, samples, changes>>
       \/ /\ monitor = "psi" /\ Psi!PsiNext
          /\ UNCHANGED <<monitor, nvmeOnly, thermalOnly, healthOnly, eventlogOnly, changes>>
       \/ /\ monitor = "nvme" /\ Nvme!NvmeNext
          /\ UNCHANGED <<monitor, psiOnly, thermalOnly, healthOnly, eventlogOnly>>
       \/ /\ monitor = "thermal" /\ Thermal!ThermalNext
          /\ UNCHANGED <<monitor, psiOnly, nvmeOnly, healthOnly, eventlogOnly, samples>>
       \/ /\ monitor = "health" /\ Health!HealthNext
          /\ UNCHANGED <<monitor, psiOnly, nvmeOnly, thermalOnly, eventlogOnly>>
       \/ /\ monitor = "eventlog" /\ Eventlog!EventlogNext
          /\ UNCHANGED <<monitor, tracker, psiOnly, nvmeOnly, thermalOnly, healthOnly,
                         polled, samples, changes>>
    /\ now' =< Horizon[monitor]

PollersSpec == PollersInit /\ [][PollersNext]_pollerVars

-----------------------------------------------------------------------------
(* Properties, each of the monitor that is followed.                       *)

\* mempressure.rs psi_loop, nvme.rs poll_one, thermal.rs: once a bad reading has
\* lasted as long as the loop asks for, nobody is left without a firing alert.
\* Once good ones span the recovery window nobody is left with one, for memory
\* pressure and the NVMe warning bits: nothing takes a thermal alert back.  A
\* thermal tier is told by the poll that reads it, whatever other tier was told
\* before, by an alert less than re_notify old, and the PSU inlet decides only
\* when no chassis row gave a reading.
ReadingsTold ==
    /\ monitor = "psi" => Psi!ToldTheTruth
    /\ monitor = "nvme" => Nvme!WarningBitsTold
    /\ monitor = "thermal" => Thermal!TierTold

\* disk_smart.rs, bmc_redfish.rs, gpu_nvidia.rs, gpu_amd.rs: a bad reading is told
\* with its own severity unless less than re_notify passed since the last alert
\* of whichever severity; what was told was read, and is never taken back.
\* nvme.rs poll_one: so are wear, media errors, temperature and warning bits.
EscalationTold ==
    /\ monitor = "health" => Health!EscalationTold
    /\ monitor = "nvme" => Nvme!LevelsTold

\* mempressure.rs psi_loop: psi_high is sent only after an unbroken run of
\* high samples that spans sustain_s, also across failed reads.
FiringMeansSustained == [][monitor = "psi" => Psi!FiringMeansSustained]_pollerVars

\* nvme.rs poll_one: the error log is observed when it grew since the last
\* poll that could read it, however many polls failed in between.  thermal.rs:
\* the throttle events that the alerts name and those the tracker suppressed add
\* up to what the counter gained between the first and the last poll that could
\* read it; some are told, the suppressed ones less than re_notify before.
CountersExact ==
    /\ monitor = "nvme" => Nvme!ErrLogExact
    /\ monitor = "thermal" => Thermal!ThrottlesExact

\* bmc_eventlog.rs poll: an entry is observed at most once, only by the first
\* read that lists it, and surely then when its id is, as a string, above every
\* id read of that log before, across failed reads and cleared logs.
EntriesOnce == [][monitor = "eventlog" => Eventlog!EntriesOnce]_pollerVars

\* bmc_eventlog.rs says "tracks the highest entry id we've seen per log service,
\* and emits an alert for any new entry": an alerting entry with a higher id than
\* all that were read of its log is observed by the first read that lists it.
HigherIdsObserved == [][monitor = "eventlog" => Eventlog!HigherIdsObserved]_pollerVars

-----------------------------------------------------------------------------
\* The inductive invariant behind the theorems of AlertTrackerProofs: the one of
\* the monitor followed and, where it has one, of its tracker.
PollersInv ==
    /\ monitor \in {"tracker", "psi", "nvme", "thermal", "health"} => IInv
    /\ monitor = "psi" => Psi!PsiInv
    /\ monitor = "nvme" => Nvme!NvmeInv
    /\ monitor = "thermal" => Thermal!ThermalInv
    /\ monitor = "health" => Health!HealthInv
    /\ monitor = "eventlog" => Eventlog!EventlogInv
=============================================================================
