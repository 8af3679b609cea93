------------------------------ MODULE PcieAer ------------------------------
(***************************************************************************)
(* agent/src/modules/pcie_aer.rs: PCIe error lines of the kernel.  An      *)
(* uncorrected error is raised at once; corrected ones are counted in a    *)
(* window shared by all devices, and the line that fills it is raised      *)
(* under its own device.                                                   *)
(*                                                                         *)
(* The name of the device is looked up with lspci before the clock is      *)
(* read: a line can be pending for as long as the lookup takes, while      *)
(* further lines queue in the broadcast channel or overwrite each other.   *)
(***************************************************************************)
EXTENDS SlidingWindow

CONSTANTS
    Devices,       \* PCI addresses
    Window,        \* the minute of corr_window
    WarnCount,     \* cfg.corrected_per_min_warn
    Buffer,        \* capacity of the broadcast channel
    None,
    MaxTime,       \* bound: the clock stops here
    MaxLines       \* bound: lines the kernel logs

Line == [kind : {"corrected", "uncorrected", "other"}, dev : Devices]

VARIABLES
    now,           \* the monotonic clock
    chan,          \* lines broadcast and not yet received
    pending,       \* the line whose device is being looked up, or None
    corr_window,   \* times of the corrected lines
    observed,      \* <<metric, device>> observed in this step
    lines,         \* lines the kernel has logged
    handled        \* observer: every line handled, with the time of handling

vars == <<now, chan, pending, corr_window, observed, lines, handled>>

TypeOK ==
    /\ now \in 0 .. MaxTime /\ lines \in 0 .. MaxLines
    /\ chan \in Seq(Line) /\ Len(chan) =< Buffer
    /\ pending \in Line \cup {None}
    /\ corr_window \in Seq(0 .. MaxTime)
    /\ observed \subseteq {"uncorrectable", "corrected_rate_high"} \X Devices
    /\ handled \in Seq([line : Line, at : 0 .. MaxTime])

Init ==
    /\ now = 0 /\ chan = <<>> /\ pending = None /\ corr_window = <<>>
    /\ observed = {} /\ lines = 0 /\ handled = <<>>

Tick ==
    /\ now < MaxTime /\ now' = now + 1 /\ observed' = {}
    /\ UNCHANGED <<chan, pending, corr_window, lines, handled>>

\* The tailer broadcasts a line.  A receiver that lags loses the oldest one,
\* which it only logs.
KernelLogs(l) ==
    /\ lines < MaxLines /\ lines' = lines + 1 /\ observed' = {}
    /\ chan' = IF Len(chan) < Buffer THEN Append(chan, l) ELSE Append(Tail(chan), l)
    /\ UNCHANGED <<now, pending, corr_window, handled>>

\* Up to the call of describe_pci, which may answer late, or time out and
\* leave the address as the label.
Recv ==
    /\ pending = None /\ chan # <<>> /\ chan' = Tail(chan)
    /\ pending' = IF Head(chan).kind = "other" THEN None ELSE Head(chan)
    /\ observed' = {}
    /\ UNCHANGED <<now, corr_window, lines, handled>>

Handle(l) ==
    /\ pending = l /\ l # None /\ pending' = None
    /\ handled' = Append(handled, [line |-> l, at |-> now])
    /\ UNCHANGED <<now, chan, lines>>

\* corr_re matches uncorrected lines as well, so they are told apart first.
HandleUncorrected ==
    /\ Handle(pending) /\ pending.kind = "uncorrected"
    /\ observed' = {<<"uncorrectable", pending.dev>>}
    /\ UNCHANGED corr_window

TrimLast(w) ==   \* mutant: pops at most one entry
    IF now - Head(w) > Window THEN Tail(w) ELSE w

\* Pop from the front what is older than a minute.
Trim(w) == Recent(w, now, Window)

HandleCorrected ==
    LET recent == Trim(Append(corr_window, now)) IN
    /\ Handle(pending) /\ pending.kind = "corrected"
    /\ corr_window' = recent
    /\ observed' = IF Len(recent) >= WarnCount
                   THEN {<<"corrected_rate_high", pending.dev>>} ELSE {}

Next ==
    \/ Tick \/ Recv \/ HandleUncorrected \/ HandleCorrected
    \/ \E l \in Line : KernelLogs(l)

Spec == Init /\ [][Next]_vars

-----------------------------------------------------------------------------
(* Property.                                                               *)

\* The rate is raised by a line exactly when it is the last of WarnCount
\* corrected lines, of whichever devices, handled within the minute that ends
\* now; an uncorrected error is raised itself and never counts.
RateIffDense ==
    handled' # handled =>
        LET last == handled'[Len(handled')].line
            recent == {i \in DOMAIN handled' :
                         /\ handled'[i].line.kind = "corrected"
                         /\ now - handled'[i].at =< Window}
        IN  observed' = IF last.kind = "uncorrected" THEN {<<"uncorrectable", last.dev>>}
                        ELSE {<<"corrected_rate_high", d>> : d \in
                               {e \in {last.dev} : Cardinality(recent) >= WarnCount}}
-----------------------------------------------------------------------------
(* The inductive invariant of RateIffDense.                                *)

\* The corrected lines that were handled within the minute that ends at t.
Fresh(t) == {i \in 1 .. Len(handled) :
               handled[i].line.kind = "corrected" /\ t - handled[i].at <= Window}

\* Whenever the next line comes, the window will hold what it has to count.
RateInv ==
    /\ now \in Nat /\ now <= MaxTime
    /\ chan \in Seq(Line) /\ pending \in Line \cup {None}
    /\ handled \in Seq([line : Line, at : Nat])
    /\ corr_window \in Seq(Nat) /\ \A i \in 1 .. Len(corr_window) : corr_window[i] <= now
    /\ \A t \in now .. MaxTime : Cardinality(Fresh(t)) = Len(Recent(corr_window, t, Window))
=============================================================================
