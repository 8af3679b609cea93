---------------------------- MODULE NvmeMonitor ----------------------------
(***************************************************************************)
(* agent/src/modules/nvme.rs: poll_one on top of the module's AlertTracker.*)
(* Drives share nothing, and neither do the five checks of a poll: a       *)
(* behaviour follows one check of one drive, chosen initially.             *)
(*                                                                         *)
(* The value read is 0, 1 or 2: a warning bitmap or a counter is zero or   *)
(* not; wear and temperature lie below the warn threshold, from there up   *)
(* to the critical one, or above.                                          *)
(***************************************************************************)
EXTENDS AlertTracker, Sequences

CONSTANTS
    poll_loop,  \* the task
    fp,         \* the fingerprint of the check followed
    MaxChanges  \* bound: changes of the value

Metrics == {"critical_warning", "percentage_used", "media_errors",
            "err_log_entries", "temperature"}
Values == 0 .. 2

VARIABLES
    metric,        \* the check followed
    value,         \* what the drive reports
    last_err_log,  \* last_err_log[dev], None before the first poll
    polled,        \* time of the last tick of the interval, None before
    samples,       \* observer: every value read, with its time
    observed,      \* observer: the last poll made a detection
    changes        \* changes of the value so far

nvmeVars == <<metric, value, last_err_log, polled, samples, observed, changes>>
allVars == <<vars, nvmeVars>>

NvmeTypeOK ==
    /\ TypeOK
    /\ metric \in Metrics /\ value \in Values /\ changes \in 0 .. MaxChanges
    /\ last_err_log \in Values \cup {None}
    /\ polled \in 0 .. MaxTime \cup {None}
    /\ samples \in Seq([at : 0 .. MaxTime, value : Values])
    /\ observed \in BOOLEAN
    /\ last_err_log = None <=> samples = <<>>

NvmeInit ==
    /\ Init
    /\ metric \in Metrics /\ value \in Values
    /\ last_err_log = None /\ polled = None
    /\ samples = <<>> /\ observed = FALSE /\ changes = 0

\* Media errors and wear only grow; a controller reset empties the error log.
DriveChanges(v) ==
    /\ v # value /\ changes < MaxChanges
    /\ metric \in {"media_errors", "percentage_used"} => v > value
    /\ value' = v /\ changes' = changes + 1
    /\ UNCHANGED <<vars, metric, last_err_log, polled, samples, observed>>

Clock == Tick /\ UNCHANGED nvmeVars

\* interval(max(poll_s, 5)), after the last poll is through.
PollTick == /\ polled # now /\ call[poll_loop] = None
            /\ polled' = now /\ UNCHANGED <<metric, value, changes>>

\* smart-log times out, fails or prints no JSON: poll_one returns before it
\* has compared anything.
PollFails == PollTick /\ UNCHANGED <<vars, last_err_log, samples, observed>>

PrevErrLogZero ==   \* mutant: the first poll reports the drive's history
    IF last_err_log = None THEN 0 ELSE last_err_log

\* last_err_log.get(dev).unwrap_or(current)
PrevErrLog == IF last_err_log = None THEN value ELSE last_err_log

Bad == IF metric = "err_log_entries" THEN value > PrevErrLog ELSE value > 0

SeverityOf(m, v) ==
    IF m = "critical_warning" \/ (m \in {"percentage_used", "temperature"} /\ v = 2)
    THEN "critical" ELSE "warning"

SeverityWarning == "warning"   \* mutant: no check is critical

Severity == SeverityOf(metric, value)

RecoversNever == FALSE   \* mutant: no check calls observe_ok

\* Only critical_warning has a recovery path.
Recovers == metric = "critical_warning"

PollOk ==
    /\ PollTick
    /\ \/ Bad /\ Call(poll_loop, "observe", fp, Severity)
       \/ ~Bad /\ Recovers /\ Call(poll_loop, "observe_ok", fp, None)
       \/ ~Bad /\ ~Recovers /\ UNCHANGED vars
    /\ last_err_log' = value
    /\ samples' = Append(samples, [at |-> now, value |-> value])
    /\ observed' = Bad

TrackerStep ==
    /\ ObserveNew(poll_loop) \/ ObserveAgain(poll_loop) \/ ObserveOk(poll_loop)
    /\ UNCHANGED nvmeVars

NvmeNext ==
    \/ (\E v \in Values : DriveChanges(v))
    \/ Clock \/ PollFails \/ PollOk \/ TrackerStep

NvmeSpec == NvmeInit /\ [][NvmeNext]_allVars

-----------------------------------------------------------------------------
(* Properties.                                                             *)

Reads == Len(samples)
Quiet == call[poll_loop] = None   \* the last poll is through

\* The tracker is told of the error log when it grew since the last poll that
\* could read it, however many polls failed in between, and neither for what it
\* held when the agent started nor when it shrinks.
ErrLogExact ==
    metric = "err_log_entries" =>
        (observed <=> Reads > 1 /\ samples[Reads].value > samples[Reads - 1].value)

\* The reads from the i-th on all found zero and span the recovery window.
ClearedSince(i) ==
    /\ i < Reads /\ \A j \in i .. Reads : samples[j].value = 0
    /\ samples[Reads].at - samples[i].at >= Recovery

\* critical_warning: the receiver is told of a set bit by the poll that reads
\* it, and left without a firing alert once the bits were clear for Recovery.
WarningBitsTold ==
    metric = "critical_warning" /\ Quiet /\ Reads > 0 =>
        /\ samples[Reads].value # 0 => told[fp].state = "firing"
        /\ (\E i \in 1 .. Reads : ClearedSince(i)) => told[fp].state # "firing"

\* An alert that fires was decided at a read, with the severity of that reading.
ToldAsRead ==
    metric # "err_log_entries" /\ told[fp].state = "firing" =>
        \E i \in 1 .. Reads : /\ samples[i].at = told[fp].at
                              /\ SeverityOf(metric, samples[i].value) = told[fp].severity

\* Every level, of wear, media errors, temperature or the warning bits, is told by
\* the poll that reads it, with the severity of that reading unless less than
\* ReNotify passed since the last alert, of whichever severity; and what is told
\* was read.
LevelsTold ==
    /\ ToldAsRead
    /\ metric # "err_log_entries" /\ Quiet /\ Reads > 0 =>
         LET last == samples[Reads] IN
         last.value # 0 =>
             /\ told[fp].state = "firing"
             /\ \/ told[fp].severity = SeverityOf(metric, last.value)
                \/ last.at - told[fp].at < ReNotify

-----------------------------------------------------------------------------
(* The inductive invariant behind the theorems of AlertTrackerProofs.      *)

SamplesPast ==
    /\ value \in Values
    /\ samples \in Seq([at : Nat, value : Values])
    /\ \A i \in 1 .. Reads : samples[i].at =< now

\* last_err_log holds the value of the last read.
ErrLogIsLast ==
    IF Reads = 0 THEN last_err_log = None ELSE last_err_log = samples[Reads].value

\* A call in progress is about the last read.
CallAboutLast ==
    call[poll_loop] # None =>
        /\ Reads > 0
        /\ call[poll_loop].fp = fp /\ call[poll_loop].at = samples[Reads].at
        /\ \/ /\ call[poll_loop].op = "observe"
              /\ metric # "err_log_entries" =>
                   /\ samples[Reads].value # 0
                   /\ call[poll_loop].severity = SeverityOf(metric, samples[Reads].value)
           \/ call[poll_loop].op = "observe_ok" /\ samples[Reads].value = 0

ZeroFrom(i) == \A j \in i .. Reads : samples[j].value = 0

\* The recovery window of an open episode starts no later than any read of the
\* run of clear ones at the end that the tracker has heard of.
WindowCoversZeros ==
    metric = "critical_warning" /\ fp \in DOMAIN entries =>
        \A i \in 1 .. Reads :
            ZeroFrom(i) /\ (i < Reads \/ Quiet) =>
                entries[fp].ok_since # None /\ entries[fp].ok_since =< samples[i].at

NvmeInv ==
    /\ SamplesPast /\ ErrLogIsLast /\ CallAboutLast /\ WindowCoversZeros
    /\ ErrLogExact /\ WarningBitsTold /\ LevelsTold
=============================================================================
