--------------------------- MODULE HealthPollers ---------------------------
(***************************************************************************)
(* The poll loops that raise a reading and never resolve it: poll_one      *)
(* of agent/src/modules/disk_smart.rs, check_fans and check_psus of        *)
(* bmc_redfish.rs, check of gpu_nvidia.rs, and poll_rocm and poll_sysfs of *)
(* gpu_amd.rs.  One fingerprint stands for all severities of a check.      *)
(* Devices and checks share nothing: a behaviour follows one check of one  *)
(* device, chosen initially.                                               *)
(***************************************************************************)
EXTENDS AlertTracker, Sequences

CONSTANTS
    health_loop,  \* the task
    fp,           \* the fingerprint of the check followed
    MaxChanges    \* bound: changes of the device

Checks == {"smart_overall", "smart_attr", "fan_unhealthy", "psu_unhealthy",
           "ecc_uncorrected", "gpu_temperature", "throttling", "power_at_limit",
           "amd_temperature"}

Parts == [state : {"Enabled", "Absent"}, health : {"OK", "Warning", "Critical"}, stopped : BOOLEAN]
Attrs == [nonzero : BOOLEAN, failing : BOOLEAN]     \* of one of the four ids looked at
Readings(c) ==
    CASE c = "smart_attr" -> Attrs
      [] c = "fan_unhealthy" -> Parts
      [] c = "psu_unhealthy" -> {p \in Parts : ~p.stopped}
      [] OTHER -> BOOLEAN                           \* failed, or over the threshold

VARIABLES
    check,     \* the check followed
    reading,   \* what the device reports
    polled,    \* time of the last tick of the interval, None before
    samples,   \* observer: every reading taken, with its time
    changes    \* changes of the device so far

healthVars == <<check, reading, polled, samples, changes>>
allVars == <<vars, healthVars>>

HealthTypeOK ==
    /\ TypeOK
    /\ check \in Checks /\ reading \in Readings(check)
    /\ polled \in 0 .. MaxTime \cup {None} /\ changes \in 0 .. MaxChanges
    /\ \A i \in DOMAIN samples : samples[i].reading \in Readings(check)

HealthInit ==
    /\ Init
    /\ check \in Checks /\ reading \in Readings(check)
    /\ polled = None /\ samples = <<>> /\ changes = 0

\* The four attributes of a drive and the ECC count of a GPU may be reset too.
DeviceChanges(r) ==
    /\ r # reading /\ changes < MaxChanges
    /\ reading' = r /\ changes' = changes + 1
    /\ UNCHANGED <<vars, check, polled, samples>>

Clock == Tick /\ UNCHANGED healthVars

-----------------------------------------------------------------------------
(* From a reading to the severity it is raised with, None when it is fine. *)

RedfishSeverity(health) ==
    CASE health = "Critical" -> "critical" [] health = "Warning" -> "warning" [] OTHER -> None

IsPresent(p) == p.state # "Absent"

\* An unhealthy fan keeps the severity of its health, and a healthy one is not
\* taken for stalled: whether it stopped decides nothing.
FanSeverity(p) ==
    LET sev == RedfishSeverity(p.health)
        stalled == p.stopped /\ p.state = "Enabled" /\ sev # None
    IN  IF ~IsPresent(p) THEN None
        ELSE IF sev # None THEN sev ELSE IF stalled THEN "critical" ELSE None

PsuSeverity(p) == IF IsPresent(p) THEN RedfishSeverity(p.health) ELSE None

AttrSeverity(a) ==
    CASE a.failing -> "critical" [] a.nonzero /\ ~a.failing -> "warning" [] OTHER -> None

Fixed(c) == CASE c = "throttling" -> "warning" [] c = "power_at_limit" -> "info" [] OTHER -> "critical"

SeverityOf(c, r) ==
    CASE c = "smart_attr" -> AttrSeverity(r)
      [] c = "fan_unhealthy" -> FanSeverity(r)
      [] c = "psu_unhealthy" -> PsuSeverity(r)
      [] OTHER -> IF r THEN Fixed(c) ELSE None

-----------------------------------------------------------------------------
(* The poll loop.                                                          *)

PollTick == /\ polled # now /\ call[health_loop] = None
            /\ polled' = now /\ UNCHANGED <<check, reading, changes>>

\* The command or the request fails or times out, or its answer does not parse.
PollFails == PollTick /\ UNCHANGED <<vars, samples>>

PollOkOnce ==   \* mutant: what is raised already is not observed again
    LET sev == SeverityOf(check, reading) IN
    /\ PollTick
    /\ IF sev = None \/ fp \in DOMAIN entries THEN UNCHANGED vars
       ELSE Call(health_loop, "observe", fp, sev)
    /\ samples' = Append(samples, [at |-> now, reading |-> reading])

PollOk ==
    LET sev == SeverityOf(check, reading) IN
    /\ PollTick
    /\ IF sev = None THEN UNCHANGED vars ELSE Call(health_loop, "observe", fp, sev)
    /\ samples' = Append(samples, [at |-> now, reading |-> reading])

TrackerStep ==
    (ObserveNew(health_loop) \/ ObserveAgain(health_loop)) /\ UNCHANGED healthVars

HealthNext ==
    \/ (\E r \in Readings(check) : DeviceChanges(r))
    \/ Clock \/ PollFails \/ PollOk \/ TrackerStep

HealthSpec == HealthInit /\ [][HealthNext]_allVars

-----------------------------------------------------------------------------
(* Property.                                                               *)

Reads == Len(samples)
Quiet == call[health_loop] = None   \* the last poll is through

\* A bad reading is told with its own severity by the poll that takes it,
\* unless less than ReNotify passed since the last alert, of whichever
\* severity: a condition that escalates within ReNotify stays a warning until
\* the first poll after it.  What was told was read at that time, with that
\* severity, and is never taken back.
EscalationTold ==
    /\ Quiet /\ Reads > 0 =>
         LET last == samples[Reads]
             sev == SeverityOf(check, last.reading)
         IN  sev # None =>
               \/ told[fp].severity = sev /\ told[fp].state = "firing"
               \/ told[fp].state = "firing" /\ last.at - told[fp].at < ReNotify
    /\ told[fp].state # "silent" =>
         /\ told[fp].state = "firing"
         /\ \E i \in 1 .. Reads : /\ samples[i].at = told[fp].at
                                  /\ SeverityOf(check, samples[i].reading) = told[fp].severity

-----------------------------------------------------------------------------
(* The inductive invariant behind the theorems of AlertTrackerProofs.      *)

ReadingsTyped ==
    /\ check \in Checks /\ reading \in Readings(check)
    /\ samples \in Seq([at : Nat, reading : Readings(check)])

\* A call in progress raises the last reading.
CallAboutLast ==
    call[health_loop] # None =>
        /\ Reads > 0
        /\ call[health_loop].op = "observe" /\ call[health_loop].fp = fp
        /\ call[health_loop].at = samples[Reads].at
        /\ call[health_loop].severity = SeverityOf(check, samples[Reads].reading)

HealthInv == ReadingsTyped /\ CallAboutLast /\ EscalationTold
=============================================================================
