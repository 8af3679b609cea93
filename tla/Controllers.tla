---------------------------- MODULE Controllers ----------------------------
(***************************************************************************)
(* agent/src/modules/storage_controller.rs: the periodic enumeration of    *)
(* RAID controllers through ssacli and perccli64 (poll_loop, enumerate),   *)
(* and the kmsg tailer, which shares only the tracker with it.             *)
(*                                                                         *)
(* A controller is known by its slot; slots of the two tools are disjoint  *)
(* here.  The tracker is reduced to the fingerprints it has an entry for:  *)
(* nothing in the module calls observe_ok or force_resolve.                *)
(***************************************************************************)
EXTENDS Integers, FiniteSets

CONSTANTS
    Hpe,         \* slots of the SmartArray controllers
    PercCount,   \* PERC controllers are /c0 .. /c(PercCount - 1)
    MaxChanges   \* bound: changes of the hardware

Perc == 0 .. PercCount - 1
Slots == Hpe \cup Perc
Health == {"ok", "failed", "gone"}   \* gone: wedged, not enumerated any more

VARIABLES
    health,   \* the hardware
    changes,  \* changes of the hardware so far
    last,     \* the last non-empty view: slot -> status
    lockup,   \* slots with a tracker entry for controller_lockup
    status,   \* slots with a tracker entry for controller_status
    kmsg,     \* the tracker has an entry for controller_lockup_kmsg
    seen,     \* observer: slots some poll has listed
    missed    \* observer: slots listed once and absent from a later non-empty view

vars == <<health, changes, last, lockup, status, kmsg, seen, missed>>

Views == UNION {[S -> {"ok", "failed"}] : S \in SUBSET Slots}

TypeOK ==
    /\ health \in [Slots -> Health] /\ changes \in 0 .. MaxChanges
    /\ last \in Views
    /\ lockup \subseteq Slots /\ status \subseteq Slots /\ kmsg \in BOOLEAN
    /\ seen \subseteq Slots /\ missed \subseteq seen
    /\ DOMAIN last \subseteq seen

Init ==
    /\ health \in [Slots -> {"ok", "failed"}] /\ changes = 0
    /\ last = [s \in {} |-> "ok"]
    /\ lockup = {} /\ status = {} /\ kmsg = FALSE
    /\ seen = {} /\ missed = {}

\* The hardware fails or comes back, and the driver may log it.
HardwareChanges(s, h) ==
    /\ health[s] # h /\ changes < MaxChanges
    /\ health' = [health EXCEPT ![s] = h] /\ changes' = changes + 1
    /\ UNCHANGED <<last, lockup, status, kmsg, seen, missed>>

\* kmsg_tailer: a line matching lockup_re, which names no slot.
KmsgLockup ==
    /\ \E s \in Hpe : health[s] = "gone"
    /\ kmsg' = TRUE
    /\ UNCHANGED <<health, changes, last, lockup, status, seen, missed>>

-----------------------------------------------------------------------------
(* enumerate.                                                              *)

Present == {s \in Slots : health[s] # "gone"}

\* ssacli lists what is there, or fails and lists nothing.
EnumerateHpe == {Hpe \cap Present, {}}

\* perccli64 counts the controllers and is asked for /c0 .. /c(count - 1):
\* one that answers with an error is skipped, one that times out drops them all.
EnumeratePerc ==
    LET count == Cardinality(Perc \cap Present)
    IN  SUBSET {s \in Perc \cap Present : s < count}

\* out.extend: each tool contributes what it listed.
Enumerate == {h \cup p : h \in EnumerateHpe, p \in EnumeratePerc}

-----------------------------------------------------------------------------
(* poll_loop.                                                              *)

PollEmptyForgets ==   \* mutant: an empty enumeration is remembered
    /\ {} \in Enumerate /\ last' = [s \in {} |-> "ok"]
    /\ UNCHANGED <<health, changes, lockup, status, kmsg, seen, missed>>

\* Nothing was listed: continue.
PollEmpty == {} \in Enumerate /\ UNCHANGED vars

Disappeared(view) == DOMAIN last \ DOMAIN view

Unhealthy(view) == {s \in DOMAIN view : view[s] # "ok"}

PollView(listed) ==
    LET view == [s \in listed |-> health[s]]
    IN  /\ listed # {} /\ listed \in Enumerate
        /\ lockup' = lockup \cup Disappeared(view)
        /\ status' = status \cup Unhealthy(view)
        /\ last' = view
        /\ seen' = seen \cup listed
        /\ missed' = missed \cup (seen \ listed)
        /\ UNCHANGED <<health, changes, kmsg>>

Next ==
    \/ \E s \in Slots, h \in Health : HardwareChanges(s, h)
    \/ KmsgLockup
    \/ PollEmpty
    \/ \E listed \in SUBSET Slots : PollView(listed)

Spec == Init /\ [][Next]_vars

-----------------------------------------------------------------------------
(* Properties.                                                             *)

\* controller_lockup has been raised for exactly the controllers that were
\* listed once and absent from a later non-empty view, however many failed or
\* partial enumerations lay in between.
LockupIffMissed == lockup = missed
-----------------------------------------------------------------------------
(* The inductive invariant.                                                *)

\* The controllers never missed are in the last view.
IInv == LockupIffMissed /\ DOMAIN last \subseteq seen /\ seen \ missed \subseteq DOMAIN last
=============================================================================
