--------------------------- MODULE AlertLifecycle ---------------------------
(***************************************************************************)
(* What one dedup tracker of the agent promises to everything downstream   *)
(* of it (docs/architecture.md, "Deduplication"): for every fingerprint    *)
(* the stream of emitted alerts alternates between an episode of firing    *)
(* alerts and one resolved alert that closes it, and inside an episode     *)
(* two firing alerts are at least ReNotify apart (with ReNotify zero every *)
(* detection is an alert, in whatever order two tasks make them).  How the *)
(* tracker decides when an episode is over is left open here.              *)
(***************************************************************************)
EXTENDS Integers

CONSTANTS
    Fingerprints,  \* dedup keys: host_id|category|device|metric
    ReNotify,      \* re_notify: least distance of two firing alerts
    Times          \* the clock readings an alert may be decided at

VARIABLES
    told           \* told[fp]: the last alert emitted for fp: its state and
                   \* the time it was decided at

States == {"silent", "firing", "resolved"}

LifecycleInit == told = [fp \in Fingerprints |-> [state |-> "silent", at |-> 0]]

\* One alert for fp, decided at one of the clock's readings.
Emits(fp, state) ==
    /\ told'[fp] \in [state : {state}, at : Times]
    /\ told' = [told EXCEPT ![fp] = told'[fp]]

\* A new episode: the fingerprint was silent or resolved.
Announce(fp) ==
    /\ told[fp].state # "firing"
    /\ Emits(fp, "firing")

\* The episode goes on and the last firing alert is old enough.
ReAnnounce(fp) ==
    /\ told[fp].state = "firing"
    /\ ReNotify = 0 \/ told'[fp].at - told[fp].at >= ReNotify
    /\ Emits(fp, "firing")

\* The episode ends: exactly one resolved alert.
Close(fp) ==
    /\ told[fp].state = "firing"
    /\ Emits(fp, "resolved")

LifecycleNext ==
    \E fp \in Fingerprints : Announce(fp) \/ ReAnnounce(fp) \/ Close(fp)

LifecycleSpec == LifecycleInit /\ [][LifecycleNext]_told
=============================================================================
