---------------------------- MODULE NicCounters ----------------------------
(***************************************************************************)
(* agent/src/modules/network_nic.rs, counter_loop: crc_errors alerts of    *)
(* one interface from the counters of ethtool -S.  fec_uncorrected is      *)
(* treated alike.                                                          *)
(***************************************************************************)
EXTENDS Integers

CONSTANTS
    MaxCrc,     \* bound: the hardware counter stops here
    MaxPolls    \* bound: polls

VARIABLES
    crc,          \* the hardware counter
    last,         \* last[iface].crc_errors; 0 (the Default) before the first poll
    unsupported,  \* iface in ethtool_unsupported
    crc_d,        \* new errors of this poll, handed to tracker.observe if above 0
    polls,        \* polls made
    atPoll,       \* observer: the hardware counter at the previous poll
    good          \* observer: the last poll read the counter, not reset since

vars == <<crc, last, unsupported, crc_d, polls, atPoll, good>>

TypeOK ==
    /\ crc \in 0 .. MaxCrc /\ last \in 0 .. MaxCrc /\ crc_d \in 0 .. MaxCrc
    /\ unsupported \in BOOLEAN /\ good \in BOOLEAN
    /\ polls \in 0 .. MaxPolls /\ atPoll \in 0 .. MaxCrc

\* The agent starts on hardware that may have counted errors before.
Init ==
    /\ crc \in 0 .. MaxCrc /\ last = 0
    /\ unsupported = FALSE /\ crc_d = 0 /\ polls = 0
    /\ atPoll = crc /\ good = FALSE

CrcError ==
    /\ crc < MaxCrc /\ crc' = crc + 1
    /\ UNCHANGED <<last, unsupported, crc_d, polls, atPoll, good>>

\* The driver is reloaded and its counters start over.
DriverReset ==
    /\ crc > 0 /\ crc' = 0 /\ good' = FALSE
    /\ UNCHANGED <<last, unsupported, crc_d, polls, atPoll>>

SaturatingSub(a, b) == IF a > b THEN a - b ELSE 0

CheckDeltaOnce(snap) ==   \* mutant: the snapshot is kept only when it alerts
    /\ crc_d' = SaturatingSub(snap, last)
    /\ last' = IF snap > last THEN snap ELSE last

\* last.insert and check_delta: a delta above zero is observed; whether the alert
\* is sent is up to the tracker.
CheckDelta(snap) ==
    /\ crc_d' = SaturatingSub(snap, last)
    /\ last' = snap

Polled == /\ ~unsupported /\ polls < MaxPolls
          /\ polls' = polls + 1 /\ atPoll' = crc
          /\ UNCHANGED crc

PollOk == Polled /\ CheckDelta(crc) /\ good' = TRUE /\ UNCHANGED unsupported

\* ethtool times out or exits with an error: read_counters returns zeros.
PollFails == Polled /\ CheckDelta(0) /\ good' = FALSE /\ UNCHANGED unsupported

\* Exit 94 or "no stats": the interface is never polled again.
PollUnsupported ==
    /\ Polled /\ unsupported' = TRUE /\ crc_d' = 0 /\ good' = FALSE
    /\ UNCHANGED last

Next == CrcError \/ DriverReset \/ PollOk \/ PollFails \/ PollUnsupported

Spec == Init /\ [][Next]_vars

-----------------------------------------------------------------------------
(* Properties.                                                             *)

\* Between two polls that read the counter, with no reset in between, exactly
\* the errors counted in between are observed: also the ones after an earlier
\* reset or failed poll, which the saturated delta must not swallow.
DeltaExact == polls' # polls /\ good /\ good' => crc_d' = crc - atPoll
-----------------------------------------------------------------------------
(* The inductive invariant.                                                *)

\* After a poll that read the counter the baseline is what it read, and the
\* counter has only grown since.
IInv ==
    /\ crc \in Int /\ atPoll \in Int
    /\ good => last = atPoll /\ atPoll <= crc
=============================================================================
