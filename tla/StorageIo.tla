----------------------------- MODULE StorageIo -----------------------------
(***************************************************************************)
(* agent/src/modules/storage_io.rs: block_device_loop compares successive  *)
(* reads of /proc/partitions, ceph_osd_watch successive lists of systemd   *)
(* units, and kmsg_loop raises I/O errors of the kernel.  The tracker is   *)
(* reduced to the fingerprints it has an entry for: nothing in the module  *)
(* resolves an alert.  correlation_loop keeps a queue that nothing reads,  *)
(* and is left out.                                                        *)
(***************************************************************************)
EXTENDS Integers

CONSTANTS
    Disks,        \* whole disks, as read_block_devices filters them
    Osds,         \* ceph-osd@ units
    MaxChanges    \* bound: changes of the host

UnitStates == {"active", "failed", "gone"}    \* gone: not loaded, not listed

VARIABLES
    disks,        \* disks the kernel lists
    units,        \* state of each unit
    changes,      \* changes of the host so far
    last,         \* the last read of /proc/partitions
    last_active,  \* unit -> state it was last listed with
    lost,         \* disks with a tracker entry for disk_lost
    osd_down,     \* units with a tracker entry for ceph_osd_down
    io_error,     \* the tracker has an entry for fs_io_error
    seen, missed, \* observer: disks read once; of these, absent from a later read
    ran, stopped  \* observer: units listed active once; of these, listed otherwise later

host == <<disks, units, changes>>
blocks == <<last, lost, seen, missed>>
osds == <<last_active, osd_down, ran, stopped>>
vars == <<host, blocks, osds, io_error>>

TypeOK ==
    /\ disks \subseteq Disks /\ units \in [Osds -> UnitStates] /\ changes \in 0 .. MaxChanges
    /\ last \subseteq Disks /\ lost \subseteq Disks
    /\ DOMAIN last_active \subseteq Osds
    /\ last_active \in [DOMAIN last_active -> {"active", "failed"}]
    /\ osd_down \subseteq DOMAIN last_active /\ io_error \in BOOLEAN
    /\ missed \subseteq seen /\ seen \subseteq Disks
    /\ stopped \subseteq ran /\ ran \subseteq Osds

Init ==
    /\ disks = Disks /\ units \in [Osds -> UnitStates] /\ changes = 0
    /\ last = {} /\ last_active = [o \in {} |-> "active"]
    /\ lost = {} /\ osd_down = {} /\ io_error = FALSE
    /\ seen = {} /\ missed = {} /\ ran = {} /\ stopped = {}

-----------------------------------------------------------------------------
(* The host (external).                                                    *)

DiskChanges(d) ==
    /\ changes < MaxChanges /\ changes' = changes + 1
    /\ disks' = IF d \in disks THEN disks \ {d} ELSE disks \cup {d}
    /\ UNCHANGED <<units, blocks, osds, io_error>>

UnitChanges(o, s) ==
    /\ changes < MaxChanges /\ changes' = changes + 1
    /\ units[o] # s /\ units' = [units EXCEPT ![o] = s]
    /\ UNCHANGED <<disks, blocks, osds, io_error>>

-----------------------------------------------------------------------------
(* The three loops.                                                        *)

\* kmsg_loop: a line matching io_re.
KmsgIoError ==
    io_error' = TRUE /\ UNCHANGED <<host, blocks, osds>>

\* read_block_devices: a file that cannot be read lists nothing.
ReadBlockDevices == {disks, {}}

BlockTickKeeps(read) ==   \* mutant: a read of nothing is not remembered
    /\ read \in ReadBlockDevices
    /\ lost' = IF read = {} THEN lost ELSE lost \cup (last \ read)
    /\ last' = IF read = {} THEN last ELSE read
    /\ seen' = seen \cup read /\ missed' = missed \cup (seen \ read)
    /\ UNCHANGED <<host, osds, io_error>>

\* block_device_loop: nothing is compared after an empty read.
BlockTick(read) ==
    /\ read \in ReadBlockDevices
    /\ lost' = IF last = {} THEN lost ELSE lost \cup (last \ read)
    /\ last' = read
    /\ seen' = seen \cup read /\ missed' = missed \cup (seen \ read)
    /\ UNCHANGED <<host, osds, io_error>>

Listed == {o \in Osds : units[o] # "gone"}

CephTickForgets ==   \* mutant: only the units of this list are remembered
    /\ last_active' = [o \in Listed |-> units[o]]
    /\ osd_down' = osd_down \cup {o \in Listed \cap DOMAIN last_active :
                                    last_active[o] = "active" /\ units[o] # "active"}
    /\ ran' = ran \cup {o \in Listed : units[o] = "active"}
    /\ stopped' = stopped \cup {o \in Listed \cap ran : units[o] # "active"}
    /\ UNCHANGED <<host, blocks, io_error>>

\* ceph_osd_watch: a unit not listed keeps its last state.
CephTick ==
    /\ last_active' = [o \in Listed \cup DOMAIN last_active |->
                         IF o \in Listed THEN units[o] ELSE last_active[o]]
    /\ osd_down' = osd_down \cup {o \in Listed \cap DOMAIN last_active :
                                    last_active[o] = "active" /\ units[o] # "active"}
    /\ ran' = ran \cup {o \in Listed : units[o] = "active"}
    /\ stopped' = stopped \cup {o \in Listed \cap ran : units[o] # "active"}
    /\ UNCHANGED <<host, blocks, io_error>>

\* list_units fails: continue.
CephTickFails == UNCHANGED vars

Next ==
    \/ \E d \in Disks : DiskChanges(d)
    \/ \E o \in Osds, s \in UnitStates : UnitChanges(o, s)
    \/ KmsgIoError
    \/ \E read \in ReadBlockDevices : BlockTick(read)
    \/ CephTick \/ CephTickFails

Spec == Init /\ [][Next]_vars

-----------------------------------------------------------------------------
(* Property.                                                               *)

\* disk_lost has been raised for exactly the disks that were read once and
\* absent from a later read, and ceph_osd_down for exactly the units listed
\* active once and otherwise later, whatever reads failed or left a unit out
\* in between.
LossIffMissed == lost = missed /\ osd_down = stopped
-----------------------------------------------------------------------------
(* The inductive invariant.                                                *)

\* The disks never missed are in the last read, and the units never seen to stop
\* were active when they were last listed.
DisksCompared == last \subseteq seen /\ seen \ missed \subseteq last

Active == {o \in DOMAIN last_active : last_active[o] = "active"}
UnitsCompared == Active \subseteq ran /\ ran \ stopped \subseteq Active

IInv == LossIffMissed /\ DisksCompared /\ UnitsCompared
=============================================================================
