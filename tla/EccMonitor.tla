----------------------------- MODULE EccMonitor -----------------------------
(***************************************************************************)
(* agent/src/modules/memory_ecc.rs: memory error counters polled through   *)
(* ipmitool (ipmi_sdr_poll_loop, parse_ipmi_sdr_output) or from EDAC sysfs *)
(* (edac_poll_loop).  The two loops share neither maps nor fingerprints: a *)
(* behaviour follows one of them, chosen initially.                        *)
(*                                                                         *)
(* Over IPMI every DIMM has one sensor for correctable (CE) and one for    *)
(* uncorrectable (UE) errors, and the parser pairs them by name: the UE    *)
(* sensor is any one whose name CONTAINS the name of the DIMM, in the      *)
(* order of a fresh HashMap, which is random.                              *)
(***************************************************************************)
EXTENDS Integers, FiniteSets

CONSTANTS
    Dimms,       \* DIMMs, or memory controllers for EDAC
    Contains,    \* <<d, e>>: the sensor names of e contain the name of d
    CeMin,       \* fewest new correctable errors in a poll that alert
    MaxCe,       \* bound: correctable errors per counter
    MaxUe,       \* bound: uncorrectable errors per counter
    MaxPolls,    \* bound: polls
    MaxFaults,   \* bound: sensors that give no number in a poll
    Generic,     \* a sensor named ECC or error only, read as CE
    None

CeName(d) == <<"ce", d>>
UeName(d) == <<"ue", d>>
Names == ({"ce", "ue"} \X Dimms) \cup {Generic}
Counts == [ce : 0 .. MaxCe, ue : 0 .. MaxUe]
Zero == [ce |-> 0, ue |-> 0]

VARIABLES
    path,        \* "ipmi" or "edac"
    mem,         \* the hardware counters of each DIMM
    generic,     \* the hardware counter behind the generic sensor
    prev_counts, \* prev_counts / last: sensor -> counts at its last reading
    new,         \* new_ce, new_ue of the poll just made
    alerts,      \* <<severity, sensor>> observed in the poll just made
    polls,       \* polls made
    clean,       \* observer: every sensor was read once, and since then all or none
    atFull,      \* observer: the hardware counters at the last poll that read all
    restarted    \* observer: DIMMs whose counters started over since that poll

vars == <<path, mem, generic, prev_counts, new, alerts, polls, clean, atFull, restarted>>

TypeOK ==
    /\ path \in {"ipmi", "edac"}
    /\ mem \in [Dimms -> Counts] /\ generic \in 0 .. MaxCe
    /\ DOMAIN prev_counts \subseteq Names
    /\ prev_counts \in [DOMAIN prev_counts -> Counts]
    /\ DOMAIN new \subseteq DOMAIN prev_counts
    /\ new \in [DOMAIN new -> Counts]
    /\ alerts \subseteq {"critical", "warning"} \X DOMAIN new
    /\ polls \in 0 .. MaxPolls /\ clean \in BOOLEAN /\ atFull \in [Dimms -> Counts]
    /\ restarted \subseteq Dimms

\* Errors may have been counted before the agent starts.
Init ==
    /\ path \in {"ipmi", "edac"}
    /\ mem \in [Dimms -> {Zero, [ce |-> 0, ue |-> 1]}] /\ generic = 0
    /\ prev_counts = [n \in {} |-> Zero] /\ new = [n \in {} |-> Zero] /\ alerts = {}
    /\ polls = 0 /\ clean = FALSE /\ atFull = mem /\ restarted = {}

\* The differences are locals of one turn of the loop.
NoDeltas == new' = [n \in {} |-> Zero] /\ alerts' = {}

CorrectableError(d) ==
    /\ mem[d].ce < MaxCe /\ mem' = [mem EXCEPT ![d].ce = @ + 1]
    /\ NoDeltas /\ UNCHANGED <<path, generic, prev_counts, polls, clean, atFull, restarted>>

UncorrectableError(d) ==
    /\ mem[d].ue < MaxUe /\ mem' = [mem EXCEPT ![d].ue = @ + 1]
    /\ NoDeltas /\ UNCHANGED <<path, generic, prev_counts, polls, clean, atFull, restarted>>

GenericError ==
    /\ path = "ipmi" /\ generic < MaxCe /\ generic' = generic + 1
    /\ NoDeltas /\ UNCHANGED <<path, mem, prev_counts, polls, clean, atFull, restarted>>

\* The BMC or the EDAC driver starts over, or a DIMM is replaced: its counters
\* are zero again, the generic one perhaps with them.
CountersRestart(d) ==
    /\ mem[d] # Zero /\ mem' = [mem EXCEPT ![d] = Zero]
    /\ generic' \in {0, generic}
    /\ restarted' = restarted \cup {d}
    /\ NoDeltas /\ UNCHANGED <<path, prev_counts, polls, clean, atFull>>

-----------------------------------------------------------------------------
(* parse_ipmi_sdr_output and read_edac_sysfs.                              *)

\* The UE sensors a CE sensor may be paired with.
Candidates(d, ueOn) == {e \in ueOn : <<d, e>> \in Contains}

\* A value that is no number counts as zero, as does a sysfs file that cannot be
\* read; bad holds these sensors.
CeOf(d, bad) == IF CeName(d) \in bad THEN 0 ELSE mem[d].ce
UeOf(d, bad) == IF UeName(d) \in bad THEN 0 ELSE mem[d].ue

\* The readings of one run of ipmitool when the sensors off are unavailable;
\* pick[d] is the UE sensor found for DIMM d, None if there is none.  The generic
\* sensor is listed only with a value above zero.
CeOn(off) == {d \in Dimms : CeName(d) \notin off}
UeOn(off) == {d \in Dimms : UeName(d) \notin off}
IpmiReadings(off, bad, pick) ==
    LET unpaired == {e \in UeOn(off) : \A d \in CeOn(off) : <<e, d>> \notin Contains}
        listed == {CeName(d) : d \in CeOn(off)} \cup {UeName(e) : e \in unpaired}
                     \cup {n \in {Generic} \ (off \cup bad) : generic > 0}
    IN  [n \in listed |->
            IF n = Generic THEN [ce |-> generic, ue |-> 0]
            ELSE IF n[1] = "ue" THEN [ce |-> 0, ue |-> UeOf(n[2], bad)]
            ELSE [ce |-> CeOf(n[2], bad),
                  ue |-> IF pick[n[2]] = None THEN 0 ELSE UeOf(pick[n[2]], bad)]]

Picks(ueOn) ==
    {p \in [Dimms -> ueOn \cup {None}] :
        \A d \in Dimms : IF Candidates(d, ueOn) = {} THEN p[d] = None
                         ELSE p[d] \in Candidates(d, ueOn)}

EdacReadings(bad) ==
    [n \in {CeName(d) : d \in Dimms} |-> [ce |-> CeOf(n[2], bad), ue |-> UeOf(n[2], bad)]]

-----------------------------------------------------------------------------
(* The poll loops.                                                         *)

SaturatingSub(a, b) == IF a > b THEN a - b ELSE 0

\* entry(name).or_insert(reading): the first reading is the baseline.
Baseline(n, r) == IF n \in DOMAIN prev_counts THEN prev_counts[n] ELSE r[n]

CompareKeepsPrev(r) ==  \* mutant: a quiet reading does not move the baseline
    /\ new' = [n \in DOMAIN r |->
                 [ce |-> SaturatingSub(r[n].ce, Baseline(n, r).ce),
                  ue |-> SaturatingSub(r[n].ue, Baseline(n, r).ue)]]
    /\ prev_counts' = [n \in DOMAIN prev_counts \cup DOMAIN r |->
                         IF n \in DOMAIN r \ DOMAIN prev_counts THEN r[n] ELSE prev_counts[n]]
    /\ alerts' = {<<"critical", n>> : n \in {m \in DOMAIN r : new'[m].ue > 0}}
                   \cup {<<"warning", n>> : n \in {m \in DOMAIN r : new'[m].ce >= CeMin}}

Compare(r) ==
    /\ new' = [n \in DOMAIN r |->
                 [ce |-> SaturatingSub(r[n].ce, Baseline(n, r).ce),
                  ue |-> SaturatingSub(r[n].ue, Baseline(n, r).ue)]]
    /\ prev_counts' = [n \in DOMAIN prev_counts \cup DOMAIN r |->
                         IF n \in DOMAIN r THEN r[n] ELSE prev_counts[n]]
    /\ alerts' = {<<"critical", n>> : n \in {m \in DOMAIN r : new'[m].ue > 0}}
                   \cup {<<"warning", n>> : n \in {m \in DOMAIN r : new'[m].ce >= CeMin}}

Polled == polls < MaxPolls /\ polls' = polls + 1 /\ UNCHANGED <<path, mem, generic>>

\* Observers after a poll that got a number from every sensor, or not.
Noted(full) ==
    /\ clean' = full
    /\ atFull' = IF full THEN mem ELSE atFull
    /\ restarted' = IF full THEN {} ELSE restarted

PollIpmi(off, bad) ==
    /\ path = "ipmi" /\ Polled
    /\ \E pick \in Picks(UeOn(off)) : Compare(IpmiReadings(off, bad, pick))
    /\ Noted(off \cup bad \subseteq {Generic})

PollEdac(bad) ==
    /\ path = "edac" /\ Polled
    /\ Compare(EdacReadings(bad))
    /\ Noted(bad \subseteq {Generic})

\* ipmitool fails, or the sysfs directory cannot be read: no sensors, nothing is
\* compared.
PollFails ==
    /\ Polled /\ NoDeltas
    /\ UNCHANGED <<prev_counts, clean, atFull, restarted>>

Faulty == {S \in SUBSET Names : Cardinality(S) <= MaxFaults}

Next ==
    \/ \E d \in Dimms : CorrectableError(d) \/ UncorrectableError(d) \/ CountersRestart(d)
    \/ GenericError \/ PollFails
    \/ \E bad \in Faulty :
          \/ PollEdac(bad)
          \/ \E off \in SUBSET bad : PollIpmi(off, bad \ off)

Spec == Init /\ [][Next]_vars

-----------------------------------------------------------------------------
(* Properties.                                                             *)

\* A poll that got a number from every sensor, and so did the last one that got
\* any.
Comparable == polls' # polls /\ clean /\ clean' /\ DOMAIN new' # {}

\* Names of which none contains another: with them every uncorrectable error
\* counted since the sensors were last read is observed for the DIMM that had
\* it and with the exact number, however many polls failed in between.  Where
\* the counter started over in between, the saturating difference swallows new
\* errors up to the old count, but no old error is observed as a new one.
Unambiguous == \A p \in Contains : p[1] = p[2]
UeExact ==
    Unambiguous /\ Comparable =>
        \A d \in Dimms :
            /\ d \notin restarted => new'[CeName(d)].ue = mem[d].ue - atFull[d].ue
            /\ d \in restarted => new'[CeName(d)].ue \in 0 .. mem[d].ue
-----------------------------------------------------------------------------
(* The inductive invariant.                                                *)

\* The counters only grow until they start over.
Growing ==
    /\ mem \in [Dimms -> [ce : Nat, ue : Nat]] /\ atFull \in [Dimms -> [ce : Nat, ue : Nat]]
    /\ \A d \in Dimms \ restarted : atFull[d].ue <= mem[d].ue

\* After a poll that read every sensor each DIMM has its own baseline.
Paired ==
    Unambiguous /\ clean =>
        \A d \in Dimms : /\ CeName(d) \in DOMAIN prev_counts
                         /\ prev_counts[CeName(d)].ue = atFull[d].ue

IInv == Growing /\ Paired
=============================================================================
