------------------------------- MODULE CpuMce -------------------------------
(***************************************************************************)
(* agent/src/modules/cpu_mce.rs: the consumer of kernel lines that         *)
(* classifies machine checks, and the process it runs in.                  *)
(*                                                                         *)
(* The three static patterns are compiled when they are first used.  One   *)
(* of them, EXPLICIT_UNCORR, has a look-ahead, which the regex crate       *)
(* (1.12.3 in Cargo.lock) does not offer: Regex::new is an Err and unwrap  *)
(* panics.  Cargo.toml builds the release with panic = "abort", so the     *)
(* whole agent ends and systemd starts it again a second later.            *)
(***************************************************************************)
EXTENDS Naturals, Sequences

CONSTANT MaxLines    \* bound: lines the kernel logs

\* What the classifier asks of a line.
Line == [ mce    : BOOLEAN,    \* holds "mce:"
          hwerr  : BOOLEAN,    \* holds "[Hardware Error]"
          apei   : BOOLEAN,    \* holds "APEI Generic Hardware Error Source"
          ce     : BOOLEAN,    \* holds |CE|
          uncorr : BOOLEAN,    \* names an uncorrected error
          geo    : BOOLEAN ]   \* names a rank, bank, row, module ...

Outcomes == {"warning", "critical", "abort"}

VARIABLES
    up,       \* the agent process runs
    chan,     \* lines broadcast and not yet received
    lines,    \* lines the kernel has logged
    outcome   \* observer: what became of every line that matches mce_re

vars == <<up, chan, lines, outcome>>

TypeOK ==
    /\ up \in BOOLEAN /\ chan \in Seq(Line) /\ lines \in 0 .. MaxLines
    /\ outcome \in Seq([line : Line, as : Outcomes])
    /\ ~up => chan = <<>>

Init == up = TRUE /\ chan = <<>> /\ lines = 0 /\ outcome = <<>>

\* The tailer broadcasts a line; while the agent is down nobody reads it, and
\* the next tailer starts behind it.
KernelLogs(l) ==
    /\ lines < MaxLines /\ lines' = lines + 1
    /\ chan' = IF up THEN Append(chan, l) ELSE chan
    /\ UNCHANGED <<up, outcome>>

\* systemd: Restart=always.
Restart == ~up /\ up' = TRUE /\ UNCHANGED <<chan, lines, outcome>>

-----------------------------------------------------------------------------
(* The patterns.                                                           *)

\* What the regex crate offers of what the patterns of this file use.
RegexSyntax == {"alternation", "word boundary", "class", "case folding"}
EXPLICIT_UNCORR == {"alternation", "word boundary", "class", "case folding", "look-ahead"}
Compiles(re) == re \subseteq RegexSyntax

MatchesMce(l) == l.mce \/ l.hwerr \/ l.apei

\* && and || stop early: the lines for which EXPLICIT_UNCORR is looked at.
LooksForUncorr(l) == l.ce \/ (l.geo /\ l.hwerr) \/ l.apei

\* mce_alert_severity_and_copy, for a line that gets past the patterns.
Classify(l) ==
    LET fragment == l.geo /\ l.hwerr /\ ~l.uncorr /\ ~l.mce
    IN  IF (l.ce \/ l.apei \/ fragment) /\ ~l.uncorr THEN "warning" ELSE "critical"

-----------------------------------------------------------------------------
(* The receive loop.                                                       *)

Recv == up /\ chan # <<>> /\ UNCHANGED lines

Told(l, what) == outcome' = Append(outcome, [line |-> l, as |-> what])

RecvOther == Recv /\ ~MatchesMce(Head(chan)) /\ chan' = Tail(chan) /\ UNCHANGED <<up, outcome>>

Panics(l) == LooksForUncorr(l) /\ ~Compiles(EXPLICIT_UNCORR)

RecvMce ==
    LET l == Head(chan) IN
    /\ Recv /\ MatchesMce(l) /\ ~Panics(l)
    /\ Told(l, Classify(l)) /\ chan' = Tail(chan) /\ UNCHANGED up

\* The panic ends the process, and with it every queue of every monitor.
RecvAborts ==
    LET l == Head(chan) IN
    /\ Recv /\ MatchesMce(l) /\ Panics(l)
    /\ Told(l, "abort") /\ chan' = <<>> /\ up' = FALSE

Next ==
    \/ \E l \in Line : KernelLogs(l)
    \/ Restart \/ RecvOther \/ RecvMce \/ RecvAborts

Spec == Init /\ [][Next]_vars

-----------------------------------------------------------------------------
(* Property.                                                               *)

\* cpu_mce.rs mce_alert_severity_and_copy: "|CE| CMCI summaries are not Sev1
\* pages": a corrected line is raised as a warning.
CorrectedIsWarned ==
    \A i \in DOMAIN outcome :
        outcome[i].line.ce /\ ~outcome[i].line.uncorr => outcome[i].as = "warning"
=============================================================================
