----------------------------- MODULE PsiMonitor -----------------------------
(***************************************************************************)
(* psi_loop of agent/src/modules/mempressure.rs on top of its AlertTracker:*)
(* psi_high fires when `some avg10` has been high for Sustain seconds and  *)
(* resolves when it has been low for the tracker's recovery window.        *)
(***************************************************************************)
EXTENDS AlertTracker, Sequences

CONSTANTS
    psi_loop,   \* the task
    psi_high,   \* its fingerprint
    Sustain     \* cfg.sustain_s

VARIABLES
    high,          \* `some avg10` is at or above cfg.psi_some_avg10_warn
    breach_since,  \* Option<Instant>
    polled,        \* time of the last tick of the poll interval, None before
    samples        \* observer: every sample read, with its time

psiVars == <<high, breach_since, polled, samples>>
allVars == <<vars, psiVars>>

PsiTypeOK ==
    /\ TypeOK
    /\ high \in BOOLEAN
    /\ breach_since \in 0 .. MaxTime \cup {None}
    /\ polled \in 0 .. MaxTime \cup {None}
    /\ samples \in Seq([at : 0 .. MaxTime, high : BOOLEAN])
    /\ breach_since # None <=> samples # <<>> /\ samples[Len(samples)].high

PsiInit ==
    /\ Init
    /\ high \in BOOLEAN /\ breach_since = None /\ polled = None /\ samples = <<>>

PressureChanges ==
    /\ high' = ~high
    /\ UNCHANGED <<vars, breach_since, polled, samples>>

Clock == Tick /\ UNCHANGED psiVars

\* interval(max(poll_s, 1)): at most one poll per second, after the last one
\* has finished its tracker call.
PollTick == polled # now /\ call[psi_loop] = None /\ polled' = now /\ UNCHANGED high

Sample(h) == samples' = Append(samples, [at |-> now, high |-> h])

\* /proc/pressure/memory cannot be read: continue, the breach goes on.
PollFails == PollTick /\ UNCHANGED <<vars, breach_since, samples>>

SinceBreach == IF breach_since = None THEN now ELSE breach_since

SustainedSoon(t0) == Since(now, t0) + 1 >= Sustain   \* mutant: off by one

Sustained(t0) == Since(now, t0) >= Sustain

PollHigh ==
    /\ PollTick /\ high /\ Sample(TRUE)
    /\ breach_since' = SinceBreach
    /\ \/ Sustained(SinceBreach) /\ Call(psi_loop, "observe", psi_high, "warning")
       \/ ~Sustained(SinceBreach) /\ UNCHANGED vars

PollLowOnce ==          \* mutant: recovery is reported only when a breach ends
    /\ PollTick /\ ~high /\ Sample(FALSE)
    /\ breach_since' = None
    /\ IF breach_since = None THEN UNCHANGED vars
       ELSE Call(psi_loop, "observe_ok", psi_high, None)

PollLow ==
    /\ PollTick /\ ~high /\ Sample(FALSE)
    /\ breach_since' = None
    /\ Call(psi_loop, "observe_ok", psi_high, None)

\* The tracker's critical section.
TrackerStep ==
    /\ ObserveNew(psi_loop) \/ ObserveAgain(psi_loop) \/ ObserveOk(psi_loop)
    /\ UNCHANGED psiVars

PsiNext ==
    \/ PressureChanges \/ Clock \/ PollFails \/ PollHigh \/ PollLow \/ TrackerStep

PsiSpec == PsiInit /\ [][PsiNext]_allVars

-----------------------------------------------------------------------------
(* Properties.                                                             *)

Count == Len(samples)

\* The samples read from the i-th on.
FromOn(i, h) == \A j \in i .. Count : samples[j].high = h

\* A psi_high alert is sent only after an unbroken run of high samples that
\* spans Sustain seconds, also when reads fail in between and when an earlier
\* episode has not resolved yet.
FiringMeansSustained ==
    told'[psi_high] # told[psi_high] /\ told'[psi_high].state = "firing" =>
        \E i \in 1 .. Count : FromOn(i, TRUE) /\ told'[psi_high].at - samples[i].at >= Sustain

\* Once low samples span the recovery window nobody is left with a firing
\* alert, and a high run that spans Sustain leaves nobody without one.
ToldTheTruth ==
    call[psi_loop] = None =>
        \A i \in 1 .. Count :
            /\ FromOn(i, FALSE) /\ i < Count /\ samples[Count].at - samples[i].at >= Recovery
                 => told[psi_high].state # "firing"
            /\ FromOn(i, TRUE) /\ samples[Count].at - samples[i].at >= Sustain
                 => told[psi_high].state = "firing"

-----------------------------------------------------------------------------
(* The inductive invariant behind the theorems of AlertTrackerProofs.      *)

\* Samples were read by now.
SamplesPast ==
    /\ samples \in Seq([at : Nat, high : BOOLEAN])
    /\ \A i \in 1 .. Count : samples[i].at =< now

\* breach_since is the time of the first sample of the run of high samples that
\* the last one ends, None when the last one is low.
BreachMarksRun ==
    /\ breach_since = None => \A i \in 1 .. Count : ~FromOn(i, TRUE)
    /\ breach_since # None =>
         /\ breach_since \in Nat
         /\ \E i \in 1 .. Count : FromOn(i, TRUE) /\ samples[i].at = breach_since
         /\ \A i \in 1 .. Count : FromOn(i, TRUE) => breach_since =< samples[i].at

\* A call in progress is about the last sample.
CallAboutLast ==
    call[psi_loop] # None =>
        /\ Count > 0
        /\ call[psi_loop].fp = psi_high /\ call[psi_loop].at = samples[Count].at
        /\ \/ /\ call[psi_loop].op = "observe"
              /\ breach_since # None /\ call[psi_loop].at - breach_since >= Sustain
           \/ call[psi_loop].op = "observe_ok" /\ breach_since = None

\* The recovery window of an open episode starts no later than any sample of
\* the run of low ones at the end that the tracker has heard of.
WindowCoversLows ==
    psi_high \in DOMAIN entries =>
        \A i \in 1 .. Count :
            FromOn(i, FALSE) /\ (i < Count \/ call[psi_loop] = None) =>
                /\ entries[psi_high].ok_since # None
                /\ entries[psi_high].ok_since =< samples[i].at

PsiInv == SamplesPast /\ BreachMarksRun /\ CallAboutLast /\ WindowCoversLows /\ ToldTheTruth
=============================================================================
