--------------------------- MODULE ThermalMonitor ---------------------------
(***************************************************************************)
(* agent/src/modules/thermal.rs: the inlet temperature from the rows of    *)
(* ipmitool (read_inlet_temp), its three alert tiers on top of the         *)
(* module's AlertTracker, and the CPU throttle counter of one core, which  *)
(* the loop checks first and raises through the same tracker.  A round is  *)
(* these two parts, each with its tracker call; ipmitool takes its time.   *)
(*                                                                         *)
(* A temperature is abstracted to its tier: 0 below warn, 1 warning, 2     *)
(* critical, 3 emergency.  None is a row without a reading in degrees.     *)
(***************************************************************************)
EXTENDS AlertTracker, Sequences

CONSTANTS
    thermal_loop,  \* the task
    Rows,          \* the kinds of sensor in the order ipmitool lists them
    MaxChanges,    \* bound: changes of temperature
    MaxThrottles   \* bound: throttle events

Kinds == {"ambient", "room", "inlet_temp", "inlet", "psu_inlet", "other"}
Tiers == 0 .. 3

\* The metric is part of the fingerprint: one per tier.
Tier(k) == CASE k = 1 -> "inlet_temp_warning"
             [] k = 2 -> "inlet_temp_critical"
             [] k = 3 -> "inlet_temp_emergency"

VARIABLES
    temps,          \* what each row reads
    polled,         \* time of the last tick of the interval, None before
    stage,          \* the part of the round that comes next
    read,           \* the row read_inlet_temp took last, None if none
    read_at,        \* when that was
    tier,           \* the tier of that reading
    alone,          \* observer: no chassis row gave a reading at that poll
    throttles,      \* core_throttle_count of the core, which only grows
    last_throttle,  \* last_throttle[cpu], None before
    delta,          \* count - prev while the tracker decides on it, 0 else
    reported,       \* observer: throttle events the alerts that were sent name
    suppressed,     \* observer: throttle events of alerts that were not sent
    base,           \* observer: the counter at the first poll that read it
    changes         \* changes of temperature so far

inletVars == <<read, read_at, tier, alone>>
throttleVars == <<last_throttle, delta, reported, suppressed, base>>
thermalVars == <<temps, polled, stage, inletVars, throttles, throttleVars, changes>>
allVars == <<vars, thermalVars>>

Indices == 1 .. Len(Rows)
Counter == 0 .. MaxThrottles

ThermalTypeOK ==
    /\ TypeOK
    /\ temps \in [Indices -> Tiers \cup {None}]
    /\ polled \in 0 .. MaxTime \cup {None}
    /\ stage \in {"throttle", "inlet"}
    /\ read \in Indices \cup {None} /\ read_at \in 0 .. MaxTime
    /\ tier \in Tiers /\ alone \in BOOLEAN
    /\ throttles \in Counter /\ last_throttle \in Counter \cup {None} /\ delta \in Counter
    /\ reported \in Counter /\ suppressed \in Counter /\ base \in Counter \cup {None}
    /\ changes \in 0 .. MaxChanges

ThermalInit ==
    /\ Init
    /\ temps \in [Indices -> {0, 2}] /\ polled = None /\ stage = "throttle"
    /\ read = None /\ read_at = 0 /\ tier = 0 /\ alone = TRUE
    /\ throttles \in 0 .. 1 /\ last_throttle = None /\ delta = 0
    /\ reported = 0 /\ suppressed = 0 /\ base = None /\ changes = 0

\* A row changes its reading or stops giving one.
TempChanges(i, t) ==
    /\ t # temps[i] /\ changes < MaxChanges
    /\ temps' = [temps EXCEPT ![i] = t] /\ changes' = changes + 1
    /\ UNCHANGED <<vars, polled, stage, inletVars, throttles, throttleVars>>

Throttle ==
    /\ throttles < MaxThrottles /\ throttles' = throttles + 1
    /\ UNCHANGED <<vars, temps, polled, stage, inletVars, throttleVars, changes>>

Clock == Tick /\ UNCHANGED thermalVars

-----------------------------------------------------------------------------
(* read_inlet_temp.                                                        *)

\* inlet_sensor_priority; rows of other kinds are skipped.
Priority(kind) ==
    CASE kind = "ambient"    -> 1000
      [] kind = "room"       -> 900
      [] kind = "inlet_temp" -> 850
      [] kind = "inlet"      -> 300
      [] kind = "psu_inlet"  -> 100

\* The rows pushed: of an inlet kind and with a reading.
Rated == {i \in Indices : Rows[i] # "other" /\ temps[i] # None}

\* rows.sort_by_key(Reverse(priority)), a stable sort.
SortedBefore(i, j) ==
    \/ Priority(Rows[i]) > Priority(Rows[j])
    \/ Priority(Rows[i]) = Priority(Rows[j]) /\ i =< j

FirstSorted(S) == CHOOSE i \in S : \A j \in S : SortedBefore(i, j)

\* The rows the loop over the sorted rows returns; a PSU inlet is left to the
\* last line of read_inlet_temp.
has_true_ambient == \E i \in Rated : Priority(Rows[i]) >= 850
TakenInLoop ==
    {i \in Rated : \/ Priority(Rows[i]) >= 850
                   \/ /\ ~(has_true_ambient /\ Rows[i] = "psu_inlet")
                      /\ Priority(Rows[i]) >= 300}

InletRow ==
    IF TakenInLoop # {} THEN FirstSorted(TakenInLoop)
    ELSE IF Rated # {} THEN FirstSorted(Rated) ELSE None

-----------------------------------------------------------------------------
(* One round of the loop.                                                  *)

SeverityOf(k) == IF k = 1 THEN "warning" ELSE "critical"

MetricShared(k) == "inlet_temp_warning"   \* mutant: one fingerprint for all tiers

MetricOf(k) == Tier(k)

PrevThrottleZero == IF last_throttle = None THEN 0 ELSE last_throttle   \* mutant: unwrap_or(0)

\* last_throttle.insert(cpu, count).unwrap_or(count)
PrevThrottle == IF last_throttle = None THEN throttles ELSE last_throttle

\* The counter is read: an increase is raised under the core's fingerprint, and
\* the baseline moves whether or not the alert is going to be sent.
ThrottleCheck ==
    /\ last_throttle' = throttles
    /\ base' = IF last_throttle = None THEN throttles ELSE base
    /\ delta' = IF throttles > PrevThrottle THEN throttles - PrevThrottle ELSE 0
    /\ IF delta' > 0 THEN Call(thermal_loop, "observe", "cpu_throttle", "warning")
       ELSE UNCHANGED vars

\* The tick.  read_throttle_counters leaves out a core whose file cannot be read.
PollThrottle ==
    /\ stage = "throttle" /\ stage' = "inlet"
    /\ polled # now /\ call[thermal_loop] = None /\ polled' = now
    /\ ThrottleCheck \/ UNCHANGED <<vars, last_throttle, base, delta>>
    /\ UNCHANGED <<temps, inletVars, throttles, reported, suppressed, changes>>

InletTurn ==
    /\ stage = "inlet" /\ stage' = "throttle" /\ call[thermal_loop] = None
    /\ UNCHANGED <<temps, polled, throttles, throttleVars, changes>>

PollInlet ==
    /\ InletTurn
    /\ InletRow # None /\ read' = InletRow /\ read_at' = now /\ tier' = temps[InletRow]
    /\ alone' = (\A i \in Rated : Rows[i] = "psu_inlet")
    /\ IF tier' > 0
       THEN Call(thermal_loop, "observe", MetricOf(tier'), SeverityOf(tier'))
       ELSE UNCHANGED vars

\* ipmitool fails or lists no inlet reading.
PollNoInlet == InletTurn /\ UNCHANGED <<vars, inletVars>>

\* The tracker decides; an alert that it suppresses is not sent.
TrackerStep ==
    /\ ObserveNew(thermal_loop) \/ ObserveAgain(thermal_loop)
    /\ delta' = 0
    /\ reported' = reported + IF told' # told THEN delta ELSE 0
    /\ suppressed' = suppressed + IF told' # told THEN 0 ELSE delta
    /\ UNCHANGED <<temps, polled, stage, inletVars, throttles, last_throttle, base, changes>>

ThermalNext ==
    \/ \E i \in Indices, t \in Tiers \cup {None} : TempChanges(i, t)
    \/ Throttle \/ Clock \/ PollThrottle \/ PollInlet \/ PollNoInlet \/ TrackerStep

ThermalSpec == ThermalInit /\ [][ThermalNext]_allVars

-----------------------------------------------------------------------------
(* Properties.                                                             *)

\* A reading in a tier is told by the poll that takes it, whatever lower or higher
\* tier or throttling was told before and however recently: no tier is hidden
\* behind the dedup of another, and the alert of the tier read last is that
\* reading's own or less than ReNotify older.  The hot PSU inlet decides only
\* when no chassis row gave a reading.
TierTold ==
    /\ (call[thermal_loop] = None \/ call[thermal_loop].fp = "cpu_throttle") /\ tier > 0 =>
         /\ told[Tier(tier)].state = "firing"
         /\ told[Tier(tier)].at = read_at \/ read_at - told[Tier(tier)].at < ReNotify
    /\ read # None /\ Rows[read] = "psu_inlet" => alone

\* What the counter gained between the first and the last poll that read it.
Gained == IF base = None THEN 0 ELSE last_throttle - base

\* Every throttle event is noticed once: what the alerts that were sent name and
\* what was suppressed add up to what the counter gained.  Something is told as
\* soon as anything was gained, and what was suppressed last came less than
\* ReNotify after an alert.
ThrottlesExact ==
    delta = 0 =>
        /\ reported + suppressed = Gained
        /\ Gained > 0 =>
             /\ reported > 0 /\ told["cpu_throttle"].state = "firing"
             /\ \/ told["cpu_throttle"].at = lastBad["cpu_throttle"]
                \/ lastBad["cpu_throttle"] - told["cpu_throttle"].at < ReNotify

-----------------------------------------------------------------------------
(* The inductive invariant behind the theorems of AlertTrackerProofs.      *)

ReadingsTyped == temps \in [Indices -> Tiers \cup {None}] /\ tier \in Tiers

\* A call in progress is about the tier that was read, or about throttling.
CallAboutTier ==
    IF delta > 0
    THEN /\ call[thermal_loop] # None
         /\ call[thermal_loop].op = "observe" /\ call[thermal_loop].fp = "cpu_throttle"
    ELSE call[thermal_loop] # None =>
         /\ tier > 0
         /\ call[thermal_loop].op = "observe" /\ call[thermal_loop].fp = Tier(tier)
         /\ call[thermal_loop].at = read_at

\* The counter only grows, and the first poll that could read it set both.
CountersOrdered ==
    /\ throttles \in Nat /\ delta \in Nat /\ reported \in Nat /\ suppressed \in Nat
    /\ base = None <=> last_throttle = None
    /\ base # None =>
         /\ base \in Nat /\ last_throttle \in Nat
         /\ base =< last_throttle /\ last_throttle =< throttles

\* Nothing is lost between the counter and the tracker, which told of the first.
NoticedInAll ==
    /\ reported + suppressed + delta = Gained
    /\ told["cpu_throttle"].state = "firing" <=> reported > 0
    /\ suppressed > 0 => reported > 0

ThermalInv ==
    ReadingsTyped /\ CallAboutTier /\ CountersOrdered /\ NoticedInAll /\ TierTold
=============================================================================
