---------------------------- MODULE BmcEventlog ----------------------------
(***************************************************************************)
(* agent/src/modules/bmc_eventlog.rs: the event logs of the BMC, read over *)
(* Redfish in turn (poll), or counted with ipmitool (poll_ipmi) when no    *)
(* URL is configured.  Every failure inside poll is skipped and poll is    *)
(* always Ok, so its ipmitool fallback is never taken.                     *)
(*                                                                         *)
(* Entry ids are compared as STRINGS, so that of decimal numerals "10"     *)
(* comes before "9"; an id is a number here and Rank its place in the      *)
(* order of strings, whatever it is.  The BMC numbers its entries from 1   *)
(* again once a log has been cleared.  The device of an alert is the last  *)
(* segment of the log's URL, the same for all logs, so that all entries    *)
(* share one fingerprint; the tracker is reduced to the time a fingerprint *)
(* was last notified.                                                      *)
(***************************************************************************)
EXTENDS Integers, Sequences

CONSTANTS
    Logs,         \* the logs, in the order they are polled
    FirstId,      \* id of the first entry the agent meets
    Rank,         \* the place of each id in the order of strings
    ReNotify,     \* dedup.re_notify_after_s
    None,
    MaxTime,      \* bound: the clock stops here
    MaxEntries    \* bound: entries the BMC logs

LogNames == {Logs[i] : i \in DOMAIN Logs}
EntrySeverities == {"ok", "warning", "critical"}
Fps == {"bmc_log_entry", "ipmi_sel_count"}
Ids == 1 .. FirstId + MaxEntries

VARIABLES
    now,
    url,         \* cfg.redfish_url is set
    logs,        \* the BMC: the entries of each log
    nextId,      \* the BMC: id of the next entry of each log
    written,     \* entries written so far, which numbers them
    last_seen,   \* place of last_seen[log], 0 for ""
    turn,        \* index of the log polled next
    notified,    \* time of the last notification of a fingerprint, None before
    fresh,       \* numbers of the entries observed in this step
    sent,        \* the alerts of this step
    known,       \* observer: ids read so far, of each log
    listed       \* observer: numbers of all entries read so far

bmc == <<logs, nextId, written>>
vars == <<now, url, bmc, last_seen, turn, notified, fresh, sent, known, listed>>

EventlogTypeOK ==
    /\ now \in 0 .. MaxTime /\ url \in BOOLEAN /\ written \in 0 .. MaxEntries
    /\ DOMAIN logs = LogNames /\ nextId \in [LogNames -> Nat \ {0}]
    /\ last_seen \in [LogNames -> Nat] /\ turn \in DOMAIN Logs
    /\ notified \in [Fps -> 0 .. MaxTime \cup {None}] /\ sent \subseteq Fps
    /\ fresh \subseteq listed /\ listed \subseteq 1 .. MaxEntries

EventlogInit ==
    /\ now = 0 /\ url \in BOOLEAN /\ written = 0
    /\ logs = [l \in LogNames |-> <<>>] /\ nextId = [l \in LogNames |-> FirstId]
    /\ last_seen = [l \in LogNames |-> 0] /\ turn = 1
    /\ notified = [f \in Fps |-> None] /\ fresh = {} /\ sent = {}
    /\ known = [l \in LogNames |-> {}] /\ listed = {}

Silent == fresh' = {} /\ sent' = {} /\ UNCHANGED notified

Clock ==
    /\ now < MaxTime /\ now' = now + 1 /\ Silent
    /\ UNCHANGED <<url, bmc, last_seen, turn, known, listed>>

-----------------------------------------------------------------------------
(* The BMC (external).                                                     *)

BmcLogs(l, sev) ==
    /\ written < MaxEntries /\ written' = written + 1
    /\ logs' = [logs EXCEPT ![l] = Append(@, [id |-> nextId[l], sev |-> sev, n |-> written'])]
    /\ nextId' = [nextId EXCEPT ![l] = @ + 1]
    /\ Silent /\ UNCHANGED <<now, url, last_seen, turn, known, listed>>

\* An operator clears a log.
BmcClears(l) ==
    /\ logs[l] # <<>>
    /\ logs' = [logs EXCEPT ![l] = <<>>] /\ nextId' = [nextId EXCEPT ![l] = 1]
    /\ Silent /\ UNCHANGED <<now, url, written, last_seen, turn, known, listed>>

-----------------------------------------------------------------------------
(* The poll loop.                                                          *)

Due(f) == notified[f] = None \/ now - notified[f] >= ReNotify

Observe(F) ==
    /\ sent' = {f \in F : Due(f)}
    /\ notified' = [f \in Fps |-> IF f \in sent' THEN now ELSE notified[f]]

NextLog == turn' = (turn % Len(Logs)) + 1

\* The request fails, is refused or is not JSON: continue with the next log.
PollLogFails ==
    /\ url /\ NextLog /\ Silent
    /\ UNCHANGED <<now, url, bmc, last_seen, known, listed>>

MembersOf(l) == {logs[l][i] : i \in DOMAIN logs[l]}

\* Members above the last id seen, and of these the ones that alert.
Above(l) == {m \in MembersOf(l) : Rank[m.id] > last_seen[l]}
Alerts(m) == m.sev # "ok"
Alerting(l) == {m \in Above(l) : Alerts(m)}

Newest(l) ==
    LET ranks == {Rank[m.id] : m \in Above(l)} \cup {last_seen[l]}
    IN  CHOOSE r \in ranks : \A s \in ranks : s =< r

PollLogListOrder ==   \* mutant: the last member listed is taken for the newest
    LET l == Logs[turn]
        count == Len(logs[l])
    IN  /\ url /\ NextLog
        /\ fresh' = {m.n : m \in Alerting(l)}
        /\ Observe(IF fresh' = {} THEN {} ELSE {"bmc_log_entry"})
        /\ last_seen' = [last_seen EXCEPT ![l] = IF count = 0 THEN @ ELSE Rank[logs[l][count].id]]
        /\ known' = [known EXCEPT ![l] = @ \cup {m.id : m \in MembersOf(l)}]
        /\ listed' = listed \cup {m.n : m \in MembersOf(l)}
        /\ UNCHANGED <<now, url, bmc>>

PollLog ==
    LET l == Logs[turn] IN
    /\ url /\ NextLog
    /\ fresh' = {m.n : m \in Alerting(l)}
    /\ Observe(IF fresh' = {} THEN {} ELSE {"bmc_log_entry"})
    /\ last_seen' = [last_seen EXCEPT ![l] = Newest(l)]
    /\ known' = [known EXCEPT ![l] = @ \cup {m.id : m \in MembersOf(l)}]
    /\ listed' = listed \cup {m.n : m \in MembersOf(l)}
    /\ UNCHANGED <<now, url, bmc>>

\* poll_ipmi: the System Event Log, the first one here, has entries.
PollIpmi ==
    /\ ~url /\ logs[Logs[1]] # <<>>
    /\ fresh' = {} /\ Observe({"ipmi_sel_count"})
    /\ UNCHANGED <<now, url, bmc, last_seen, turn, known, listed>>

EventlogNext ==
    \/ Clock \/ PollLogFails \/ PollLog \/ PollIpmi
    \/ \E l \in LogNames : BmcClears(l) \/ \E sev \in EntrySeverities : BmcLogs(l, sev)

EventlogSpec == EventlogInit /\ [][EventlogNext]_vars

-----------------------------------------------------------------------------
(* Property.                                                               *)

\* An entry is observed only by the first read that lists it, so at most once,
\* across failed reads, cleared logs and ids that come back; and an alerting
\* entry whose id is, as a string, above every id read of its log before is
\* observed by that read.
EntriesOnce ==
    known' # known \/ fresh' # {} =>
        LET l == Logs[turn] IN
        /\ fresh' \subseteq {m.n : m \in {e \in MembersOf(l) : Alerts(e)}}
        /\ fresh' \cap listed = {}
        /\ \A m \in MembersOf(l) :
             Alerts(m) /\ (\A i \in known[l] : Rank[i] < Rank[m.id]) => m.n \in fresh'

\* What the module's header says: "tracks the highest entry id", alerting on any
\* new entry.  A read that succeeds observes every alerting entry whose id is
\* higher than all that were read of its log before.
HigherIdsObserved ==
    known' # known =>
        LET l == Logs[turn] IN
        \A m \in MembersOf(l) : Alerts(m) /\ (\A i \in known[l] : i < m.id) => m.n \in fresh'

-----------------------------------------------------------------------------
(* The inductive invariant behind the theorem of AlertTrackerProofs.       *)

EntriesTyped ==
    /\ turn \in DOMAIN Logs /\ written \in 0 .. MaxEntries /\ listed \subseteq 1 .. written
    /\ nextId \in [LogNames -> Nat \ {0}]
    /\ logs \in [LogNames -> Seq([id : Nat \ {0}, sev : EntrySeverities, n : Nat \ {0}])]
    /\ last_seen \in [LogNames -> Nat]
    /\ known \in [LogNames -> SUBSET Ids]

\* Ids are bounded by the number of entries written, and places by all of them.
IdsBounded ==
    \A l \in LogNames :
        /\ nextId[l] =< FirstId + written
        /\ last_seen[l] =< FirstId + MaxEntries
        /\ \A m \in MembersOf(l) : m.id =< FirstId + written /\ m.n =< written

\* No two entries have one number.
NumbersDiffer ==
    \A l, k \in LogNames : \A m \in MembersOf(l), e \in MembersOf(k) :
        m.n = e.n => l = k /\ m = e

\* last_seen is the highest place of an id read of the log, 0 before.
LastSeenIsHighest ==
    \A l \in LogNames :
        /\ \A i \in known[l] : Rank[i] =< last_seen[l]
        /\ last_seen[l] = 0 \/ \E i \in known[l] : Rank[i] = last_seen[l]

\* An entry that was read is not above last_seen.
ReadNotAbove ==
    \A l \in LogNames : \A m \in MembersOf(l) :
        m.n \in listed => Rank[m.id] =< last_seen[l]

EventlogInv ==
    EntriesTyped /\ IdsBounded /\ NumbersDiffer /\ LastSeenIsHighest /\ ReadNotAbove
=============================================================================
