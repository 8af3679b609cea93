---------------------------- MODULE JournalRules ----------------------------
(***************************************************************************)
(* agent/src/journal.rs, the child process that follows the journal, and   *)
(* agent/src/modules/syslog_rules.rs, which matches every line with every  *)
(* rule of the configuration.  A child that ends, or writes a line that is *)
(* not UTF-8, is replaced two seconds later; its successor starts at its   *)
(* own present.  The tracker is left to AlertTracker: an observation is    *)
(* the rule it is made for, which no interface or device tells apart.      *)
(***************************************************************************)
EXTENDS Integers, Sequences

CONSTANTS
    Buffer,       \* capacity of the broadcast channel
    MaxLines,     \* bound: lines written to the journal
    MaxChildren   \* bound: journalctl processes

\* What a line is to the reader and the rules.
Kinds == {"empty", "link", "ignored_link", "other", "not_utf8"}
Rules == {"nic_rule", "any_rule"}    \* the first of category network_nic

VARIABLES
    on,        \* all rules compiled: the module runs
    child,     \* journalctl: "running", "exited" (its pipe still open) or "none"
    children,  \* processes started so far
    pipe,      \* lines in the pipe
    chan,      \* lines broadcast and not yet received
    observed,  \* rules observed in this step
    journal,   \* observer: every line written to the journal
    handled,   \* observer: numbers of the lines received, in that order
    lost       \* observer: numbers of the lines nobody will receive

vars == <<on, child, children, pipe, chan, observed, journal, handled, lost>>

Lines == DOMAIN journal

TypeOK ==
    /\ on \in BOOLEAN /\ child \in {"running", "exited", "none"}
    /\ children \in 0 .. MaxChildren
    /\ journal \in Seq(Kinds) /\ Len(journal) =< MaxLines
    /\ pipe \in Seq(Lines) /\ chan \in Seq(Lines) /\ Len(chan) =< Buffer
    /\ observed \subseteq Rules
    /\ handled \in Seq(Lines) /\ lost \subseteq Lines
    /\ child = "none" => pipe = <<>>

Init ==
    /\ on \in BOOLEAN /\ child = "none" /\ children = 0
    /\ pipe = <<>> /\ chan = <<>> /\ observed = {}
    /\ journal = <<>> /\ handled = <<>> /\ lost = {}

Elements(s) == {s[i] : i \in DOMAIN s}

-----------------------------------------------------------------------------
(* journald and journalctl (external).                                     *)

JournalWrites(k) ==
    /\ Len(journal) < MaxLines /\ journal' = Append(journal, k)
    /\ pipe' = IF child = "running" THEN Append(pipe, Len(journal')) ELSE pipe
    /\ lost' = IF child = "running" THEN lost ELSE lost \cup {Len(journal')}
    /\ observed' = {}
    /\ UNCHANGED <<on, child, children, chan, handled>>

\* What it wrote stays readable.
ChildExits ==
    /\ child = "running" /\ child' = "exited" /\ observed' = {}
    /\ UNCHANGED <<on, children, pipe, chan, journal, handled, lost>>

-----------------------------------------------------------------------------
(* journal::spawn.                                                         *)

StartReplays ==    \* mutant: without --since now journalctl shows the last lines
    /\ child = "none" /\ children < MaxChildren
    /\ child' = "running" /\ children' = children + 1 /\ observed' = {}
    /\ pipe' = IF journal = <<>> THEN <<>> ELSE <<Len(journal)>>
    /\ UNCHANGED <<on, chan, journal, handled, lost>>

Start ==
    /\ child = "none" /\ children < MaxChildren
    /\ child' = "running" /\ children' = children + 1 /\ observed' = {}
    /\ UNCHANGED <<on, pipe, chan, journal, handled, lost>>

\* A full channel overwrites its oldest line; without the module there is no
\* receiver that reads.
Broadcast(n) ==
    IF ~on THEN lost' = lost \cup {n} /\ UNCHANGED chan
    ELSE IF Len(chan) < Buffer THEN chan' = Append(chan, n) /\ UNCHANGED lost
    ELSE chan' = Append(Tail(chan), n) /\ lost' = lost \cup {Head(chan)}

ReadLine ==
    /\ pipe # <<>> /\ journal[Head(pipe)] # "not_utf8"
    /\ pipe' = Tail(pipe) /\ observed' = {}
    /\ IF journal[Head(pipe)] = "empty" THEN lost' = lost \cup {Head(pipe)} /\ UNCHANGED chan
       ELSE Broadcast(Head(pipe))
    /\ UNCHANGED <<on, child, children, journal, handled>>

\* read_line fails: the child is killed with all it had written.
ReadError ==
    /\ pipe # <<>> /\ journal[Head(pipe)] = "not_utf8"
    /\ child' = "none" /\ pipe' = <<>> /\ observed' = {}
    /\ lost' = lost \cup Elements(pipe)
    /\ UNCHANGED <<on, children, chan, journal, handled>>

ReadEof ==
    /\ child = "exited" /\ pipe = <<>>
    /\ child' = "none" /\ observed' = {}
    /\ UNCHANGED <<on, children, pipe, chan, journal, handled, lost>>

-----------------------------------------------------------------------------
(* syslog_rules.                                                           *)

Matches(r, k) == r = "any_rule" \/ k \in {"link", "ignored_link"}

\* A rule about interfaces leaves out those that network_nic ignores.
Skips(r, k) == r = "nic_rule" /\ k = "ignored_link"

Recv ==
    LET n == Head(chan)
    IN  /\ chan # <<>> /\ chan' = Tail(chan)
        /\ observed' = {r \in Rules : Matches(r, journal[n]) /\ ~Skips(r, journal[n])}
        /\ handled' = Append(handled, n)
        /\ UNCHANGED <<on, child, children, pipe, journal, lost>>

Next ==
    \/ \E k \in Kinds : JournalWrites(k)
    \/ ChildExits \/ Start \/ ReadLine \/ ReadError \/ ReadEof \/ Recv

Spec == Init /\ [][Next]_vars

-----------------------------------------------------------------------------
(* Property.                                                               *)

\* Lines are matched in the order of the journal and each at most once, over
\* any number of children; and a line that is not matched is still under way
\* or was lost to a gap between two children, a child that was killed, or a
\* full channel, never to anything else.
JournalAccounted ==
    /\ \A i, j \in DOMAIN handled : i < j => handled[i] < handled[j]
    /\ Lines = Elements(handled) \cup Elements(pipe) \cup Elements(chan) \cup lost
    /\ Elements(handled) \cap lost = {}
-----------------------------------------------------------------------------
(* The inductive invariant.                                                *)

Rising(s) == \A i, j \in DOMAIN s : i < j => s[i] < s[j]
Before(s, t) == \A i \in DOMAIN s, j \in DOMAIN t : s[i] < t[j]

\* The lines are in the journal's order from the pipe to the rules, and none that
\* is lost is still on its way or was received.
OnTheWay ==
    /\ Rising(handled) /\ Rising(chan) /\ Rising(pipe)
    /\ Before(handled, chan) /\ Before(handled, pipe) /\ Before(chan, pipe)

IInv ==
    /\ journal \in Seq(Kinds)
    /\ pipe \in Seq(Nat) /\ chan \in Seq(Nat) /\ handled \in Seq(Nat)
    /\ OnTheWay
    /\ Lines = Elements(handled) \cup Elements(pipe) \cup Elements(chan) \cup lost
    /\ (Elements(handled) \cup Elements(pipe) \cup Elements(chan)) \cap lost = {}
=============================================================================
