----------------------------- MODULE LogicalStorage -----------------------------
(***************************************************************************)
(* The logical storage collector (collector/storage_lvm.py, its readers in *)
(* collector/storage/lvm.py and whole_disks of collector/storage/drives.py)*)
(* and the host it runs on: disks that go and come back, LVM commands that *)
(* rewrite the metadata backup of a volume group, mounts.                  *)
(*                                                                         *)
(* A poll reads the mounts twice, then the backups, then (after dmsetup,   *)
(* which may take 30 s) sysfs; the host changes between any two of them.   *)
(* What the readers work out from the backup is compared with what the     *)
(* LVM commands did, which the history variables held and basis record.    *)
(*                                                                         *)
(* External: LVM, the kernel and the disks.  Publishing is BasePublisher's.*)
(***************************************************************************)
EXTENDS Naturals, Sequences, FiniteSets, FiniteSetsExt

CONSTANTS
  LVs,          \* names of logical volumes, and of their dm devices
  PVs,
  PeCount,      \* extents of a PV (pe_count)
  Disks,        \* block devices that are hardware
  Partitions,
  Arrays,       \* md arrays
  ParentDisk,   \* partition -> its disk
  Members,      \* array -> the block devices it is built on
  DeviceOf,     \* PV -> the block device it is on
  Plain,        \* partitions that hold a filesystem of their own
  MountPoints,
  Fstab,        \* those that fstab mounts at boot
  Btrfs,        \* what is formatted with btrfs
  NoLv,         \* an LV that is not there; no LV
  Unread,       \* a device the current poll has not looked up
  MaxChanges    \* bound: changes of the host

Devs  == Disks \cup Partitions \cup Arrays
Nodes == Devs \cup LVs

\* Sub-LVs are named for their LV, a role and a number; LVM's own limit of what
\* the tree follows is a depth of 16.
Subs  == {<< "rimage", 0 >>, << "rimage", 1 >>, << "rmeta", 0 >>, << "rmeta", 1 >>,
          << "tdata", 0 >>, << "tmeta", 0 >>, << "corig", 0 >>}
Names == LVs \cup {<< l, r[1], r[2] >> : l \in LVs, r \in Subs}
MaxDepth == 16

\* A segment lies on areas of PVs (stripes), or on other LVs (_REF_KEYS).
Segments == [count : Nat, areas : Seq(PVs), refs : SUBSET Names]
Volumes  == [visible : BOOLEAN, segs : Seq(Segments)]

FsHolders == LVs \cup Plain
Mounts    == [fs : FsHolders, root : {"/", "dir"}, mnt : MountPoints]
Views     == [fs : FsHolders, mnt : MountPoints, lv : LVs \cup {NoLv},
              pvs : SUBSET PVs, disks : SUBSET Disks]

ASSUME LogicalAssumption ==
  /\ PeCount \in Nat /\ MaxChanges \in Nat
  /\ ParentDisk \in [Partitions -> Disks]
  /\ Members \in [Arrays -> SUBSET (Disks \cup Partitions)]
  /\ DeviceOf \in [PVs -> Devs]
  /\ Plain \subseteq Partitions
  /\ Fstab \subseteq MountPoints
  /\ IsFiniteSet(LVs)
  /\ LVs \cap {<< l, r[1], r[2] >> : l \in LVs, r \in Subs} = {}
  /\ LVs \cap Devs = {} /\ Arrays \cap (Disks \cup Partitions) = {}
  /\ Btrfs \subseteq FsHolders
  /\ NoLv \notin LVs /\ NoLv \notin Volumes /\ \A S \in SUBSET PVs : S # NoLv

VARIABLES
  lvs,       \* the metadata backup: name -> segments, NoLv where there is none
  gone,      \* disks that are unplugged
  legs,      \* dm-raid's health of each image of an LV: "A" in sync, "a" not, "D"
             \* dead or without its device ("-"); "none": the LV has no image
  mounts,    \* mountinfo, in the order of the mounts
  pc,        \* what the poll reads next
  listed,    \* poll: the mounts read_filesystems lists
  missing,   \* poll: fstab_not_mounted
  layout,    \* poll: LV -> the PVs its layout names, NoLv where it is not listed
  attached,  \* poll: PVs of a listed VG that are present
  degraded,  \* poll: arrays that have lost a member
  cache,     \* _disk_cache: device -> the disks under it
  current,   \* _current: what the last poll found
  held,      \* history: LV -> PV -> extents that it holds there, sub-LVs included
  basis,     \* history: LV -> the LVs whose extents its data is on
  kept,      \* history: mounts that have stayed since the poll began
  away,      \* history: mount points without a mount since the poll began
  mute,      \* history: filesystems whose statvfs failed in the poll
  torn,      \* history: disks or LVs have changed since the backups were read
  changes

hostVars  == << lvs, gone, legs, held, basis >>
pollVars  == << pc, listed, missing, layout, attached, degraded, cache, current >>
vars == << hostVars, mounts, pollVars, kept, away, mute, torn, changes >>

Exists(n)  == lvs[n] # NoLv
Visible(n) == Exists(n) /\ lvs[n].visible

Nowhere == [p \in PVs |-> 0]
MountedAt(ms) == {ms[i].mnt : i \in DOMAIN ms}

Init ==
  /\ lvs = [n \in Names |-> NoLv]
  /\ gone = {}
  /\ legs = [x \in LVs \X {0, 1} |-> "none"]
  /\ mounts = << >>
  /\ pc = "idle"
  /\ listed = {} /\ missing = {}
  /\ layout = [l \in LVs |-> NoLv]
  /\ attached = {} /\ degraded = {}
  /\ cache = [n \in Nodes |-> Unread]
  /\ current = [fss |-> {}, missing |-> {}, lost |-> {}, arrays |-> {},
                known |-> {}, raids |-> {}, resyncs |-> {}]
  /\ held = [l \in LVs |-> Nowhere]
  /\ basis = [l \in LVs |-> {}]
  /\ kept = {} /\ away = {} /\ mute = {}
  /\ torn = FALSE
  /\ changes = 0

-------------------------------------------------------------------------------
(***************************************************************************)
(* The block devices of the kernel.                                        *)
(***************************************************************************)

\* The disks a block device is on, as the administrator built it.
DisksUnder(dev) ==
  LET Below(d) == IF d \in Partitions THEN {ParentDisk[d]} ELSE {d}
  IN IF dev \in Arrays THEN UNION {Below(d) : d \in Members[dev]} ELSE Below(dev)

\* A device is there as long as one of its disks is: an array is redundant.
Alive(dev) == DisksUnder(dev) \ gone # {}

\* udev's link to a PV.
Present(p) == Alive(DeviceOf[p])
AnyPresent == \E p \in PVs : Present(p)

\* The PVs an LV is on, and the extents its data takes on one of them.
PvsUnder(l) == {p \in PVs : \E b \in basis[l] : held[b][p] > 0}
ExtentsOn(l, p) == MapThenSumSet(LAMBDA b : held[b][p], basis[l])

\* The slaves directory of a block device.  The dm devices of sub-LVs, between
\* an LV and its PVs, are left out.
SlavesOf(n) ==
  IF n \in LVs THEN {DeviceOf[p] : p \in {q \in PvsUnder(n) : Present(q)}}
  ELSE IF n \in Arrays THEN {d \in Members[n] : Alive(d)} ELSE {}

-------------------------------------------------------------------------------
(***************************************************************************)
(* The readers.                                                            *)
(***************************************************************************)

\* A partition is its disk.
DiskOf(n) == IF n \in Partitions /\ Alive(n) THEN ParentDisk[n] ELSE n

\* Some devices, and what their slaves directories name.
WithSlaves(S) == S \cup {DiskOf(d) : d \in UNION {SlavesOf(n) : n \in S}}

\* whole_disks: what has no slaves, of all that can be reached from a device, in
\* whatever order; of that, the hardware.
Bottom(dev) ==
  LET Reached[S \in SUBSET Nodes] ==
        IF WithSlaves(S) = S THEN S ELSE Reached[WithSlaves(S)]
  IN {n \in Reached[{DiskOf(dev)}] : SlavesOf(n) = {}}

MutantAnyDevice(dev) == Bottom(dev)

WholeDisks(dev) == (Disks \ gone) \cap Bottom(dev)

\* The extents a segment has on p: an equal part for each of its areas.
SegmentOn(seg, p) ==
  (seg.count \div Max({1, Len(seg.areas)})) *
    Cardinality({i \in DOMAIN seg.areas : seg.areas[i] = p})

\* The extents LV n itself has on p, over its segments.
OwnOn(n, p) ==
  MapThenSumSet(LAMBDA i : SegmentOn(lvs[n].segs[i], p), DOMAIN lvs[n].segs)

MutantVisibleOnly(p) == MapThenSumSet(LAMBDA n : OwnOn(n, p), {n \in Names : Visible(n)})

\* vg_from_metadata: a PV's used extents are those of every LV, hidden or not.
UsedOn(p) == MapThenSumSet(LAMBDA n : OwnOn(n, p), {n \in Names : Exists(n)})

\* The sub-LVs of a node of the tree, each once.
Kids(n) ==
  {r \in Names \cap UNION {lvs[n].segs[i].refs : i \in DOMAIN lvs[n].segs} : Exists(r)}

\* lv_tree and LV.pvs: LV -> PV -> extents, over the whole tree.
TreeOn(l, p) ==
  LET Tree[depth \in 0 .. MaxDepth] ==
        [n \in Names |->
           OwnOn(n, p) + IF depth < MaxDepth
                         THEN MapThenSumSet(LAMBDA r : Tree[depth + 1][r], Kids(n)) ELSE 0]
  IN Tree[0][l]

\* The PVs of an LV's layout: an area has an extent at least.
LayoutOf(l) == {p \in PVs : TreeOn(l, p) > 0}

MutantAllAttached == \A p \in PVs : Present(p)

\* A backup none of whose PVs is attached is ignored (read_vgs).
VgListed == \E p \in PVs : Present(p)

\* read_filesystems: a mount of a directory is a filesystem of its own on btrfs
\* only; of those with one key the first is taken.
Eligible(m) == m.root = "/" \/ m.fs \in Btrfs
KeyOf(m) == IF m.fs \in Btrfs THEN << m.fs, m.root >> ELSE << m.fs, "/" >>
ListedOf(ms, failing) ==
  {ms[i] : i \in {j \in DOMAIN ms :
     /\ Eligible(ms[j]) /\ ms[j].fs \notin failing
     /\ \A k \in 1 .. (j - 1) : Eligible(ms[k]) => KeyOf(ms[k]) # KeyOf(ms[j])}}

\* disks_of: looked up once in a poll.
DisksOf(dev) == IF cache[dev] # Unread THEN cache[dev] ELSE WholeDisks(dev)

\* Whether a block device answers to the number a mount was listed with: that of
\* btrfs is anonymous.
DeviceThere(fs) == fs \notin Btrfs /\ (IF fs \in LVs THEN Exists(fs) ELSE Alive(fs))

\* fs_backing and the filesystems of collect_logical: an LV's disks come from
\* its layout, where a listed VG has it, or else from its device.
ViewOf(m) ==
  LET lv  == IF m.fs \in LVs /\ DeviceThere(m.fs) THEN m.fs ELSE NoLv
      laid == lv # NoLv /\ layout[m.fs] # NoLv
      pvs == IF laid THEN layout[m.fs] ELSE {}
  IN [fs |-> m.fs, mnt |-> m.mnt, lv |-> lv, pvs |-> pvs,
      disks |-> IF laid THEN UNION {DisksOf(DeviceOf[p]) : p \in pvs \cap attached}
                ELSE IF DeviceThere(m.fs) THEN DisksOf(m.fs) ELSE {}]

\* The devices collect_logical looks up: every PV's, and those of filesystems
\* without a layout.
Asked ==
  {DeviceOf[p] : p \in attached} \cup
  {m.fs : m \in {k \in listed : /\ DeviceThere(k.fs)
                                /\ k.fs \in LVs => layout[k.fs] = NoLv}}

\* vg.missing_pvs, of a VG that is listed.
Lost == IF attached = {} THEN {} ELSE PVs \ attached

\* The images of a RAID that `dmsetup status` reports, and what is counted of them.
IsRaid(l) == Exists(<< l, "rimage", 0 >>)
HealthOf(l) == {legs[<< l, i >>] : i \in {0, 1}}
Failed(l)    == "D" \in HealthOf(l)
Resyncing(l) == "a" \in HealthOf(l)

-------------------------------------------------------------------------------
(***************************************************************************)
(* A poll.                                                                 *)
(***************************************************************************)

\* statvfs may fail for a filesystem that has lost a disk.
Hurt(fs) == IF fs \in LVs THEN \E p \in PvsUnder(fs) : ~Present(p) ELSE ~Alive(fs)

ReadFilesystems ==
  /\ pc = "idle"
  /\ pc' = "fstab"
  /\ \E failing \in SUBSET {fs \in FsHolders : Hurt(fs)} :
       /\ listed' = ListedOf(mounts, failing)
       /\ mute' = failing
  /\ kept' = {mounts[i] : i \in DOMAIN mounts}
  /\ away' = MountPoints \ MountedAt(mounts)
  /\ UNCHANGED << hostVars, mounts, missing, layout, attached, degraded, cache, current,
                  torn, changes >>

MutantCacheKept ==
  /\ pc = "fstab"
  /\ pc' = "vgs"
  /\ missing' = Fstab \ MountedAt(mounts)
  /\ UNCHANGED << hostVars, mounts, listed, layout, attached, degraded, cache, current, kept,
                  away, mute, torn, changes >>

MutantByListed ==
  /\ pc = "fstab"
  /\ pc' = "vgs"
  /\ missing' = Fstab \ {m.mnt : m \in listed}
  /\ cache' = [n \in Nodes |-> Unread]
  /\ UNCHANGED << hostVars, mounts, listed, layout, attached, degraded, current, kept, away,
                  mute, torn, changes >>

\* fstab_not_mounted goes by every mount point; then the cache starts anew.
ReadMissing ==
  /\ pc = "fstab"
  /\ pc' = "vgs"
  /\ missing' = Fstab \ MountedAt(mounts)
  /\ cache' = [n \in Nodes |-> Unread]
  /\ UNCHANGED << hostVars, mounts, listed, layout, attached, degraded, current, kept, away,
                  mute, torn, changes >>

\* read_md_arrays and read_vgs.
ReadVgs ==
  /\ pc = "vgs"
  /\ pc' = "collect"
  /\ layout' = [l \in LVs |-> IF VgListed /\ Visible(l) THEN LayoutOf(l) ELSE NoLv]
  /\ attached' = {p \in PVs : VgListed /\ Present(p)}
  /\ degraded' = {n \in Arrays : \E d \in Members[n] : ~Alive(d)}
  /\ torn' = FALSE
  /\ UNCHANGED << hostVars, mounts, listed, missing, cache, current, kept, away,
                  mute, changes >>

\* read_dmsetup_status, which fails or times out at times, and collect_logical,
\* which asks sysfs what is under each device.
Collect ==
  /\ pc = "collect"
  /\ pc' = "idle"
  /\ \E known \in {{}, {l \in LVs : IsRaid(l)}} :
       current' = [fss |-> {ViewOf(m) : m \in listed}, missing |-> missing,
                   lost |-> Lost, arrays |-> degraded, known |-> known,
                   raids   |-> {l \in known : Failed(l)},
                   resyncs |-> {l \in known : Resyncing(l)}]
  /\ cache' = [n \in Nodes |-> IF n \in Asked THEN DisksOf(n) ELSE cache[n]]
  /\ listed' = {} /\ missing' = {} /\ attached' = {} /\ degraded' = {}
  /\ layout' = [l \in LVs |-> NoLv]
  /\ kept' = {} /\ away' = {} /\ mute' = {} /\ torn' = FALSE
  /\ UNCHANGED << hostVars, mounts, changes >>

-------------------------------------------------------------------------------
(***************************************************************************)
(* The host.  LVM changes a volume group only with all of its PVs present. *)
(***************************************************************************)

Held(p) == MapThenSumSet(LAMBDA l : held[l][p], LVs)
Room(p, n) == Held(p) + n <= PeCount

OnAreas(n, areas) == [count |-> n, areas |-> areas, refs |-> {}]
OnVolumes(n, refs) == [count |-> n, areas |-> << >>, refs |-> refs]
Volume(seg) == [visible |-> TRUE, segs |-> << seg >>]
Hidden(seg) == [visible |-> FALSE, segs |-> << seg >>]

Change ==
  /\ changes < MaxChanges
  /\ changes' = changes + 1
  /\ UNCHANGED pollVars

\* A command writes the volumes in new, and l then holds on and lies on lies.
Write(l, new, on, lies) ==
  /\ Change
  /\ \A p \in PVs : Present(p)
  /\ lvs' = [n \in Names |-> IF n \in DOMAIN new THEN new[n] ELSE lvs[n]]
  /\ held' = [held EXCEPT ![l] = on]
  /\ basis' = [basis EXCEPT ![l] = lies]
  /\ torn' = (pc = "collect")
  /\ UNCHANGED << gone, mounts, kept, away, mute >>

Command(l, new, on, lies) == Write(l, new, on, lies) /\ UNCHANGED legs

On(p, n) == [Nowhere EXCEPT ![p] = n]
OnBoth(p, q, n, k) == [Nowhere EXCEPT ![p] = n, ![q] = k]

CreateLinear(l, p) ==
  /\ ~Exists(l) /\ Room(p, 2)
  /\ Command(l, [n \in {l} |-> Volume(OnAreas(2, << p >>))], On(p, 2), {l})

CreateStriped(l, p, q) ==
  /\ ~Exists(l) /\ p # q /\ Room(p, 1) /\ Room(q, 1)
  /\ Command(l, [n \in {l} |-> Volume(OnAreas(2, << p, q >>))], OnBoth(p, q, 1, 1), {l})

\* Two images of two extents, each with one of metadata, that are not in sync yet.
CreateRaid(l, p, q) ==
  /\ ~Exists(l) /\ p # q /\ Room(p, 3) /\ Room(q, 3)
  /\ LET Leg(i) == {<< l, "rimage", i >>, << l, "rmeta", i >>}
     IN Write(l, [n \in {l} \cup Leg(0) \cup Leg(1) |->
                    IF n = l THEN Volume(OnVolumes(2, Leg(0) \cup Leg(1)))
                    ELSE Hidden(OnAreas(IF n[2] = "rimage" THEN 2 ELSE 1,
                                        << IF n[3] = 0 THEN p ELSE q >>))],
              OnBoth(p, q, 3, 3), {l})
  /\ legs' = [x \in LVs \X {0, 1} |-> IF x[1] = l THEN "a" ELSE legs[x]]

\* A thin pool, and thin volumes in it: a new one or a snapshot of another.
CreatePool(l, p, q) ==
  /\ ~Exists(l) /\ p # q /\ Room(p, 2) /\ Room(q, 1)
  /\ LET data == << l, "tdata", 0 >>
         meta == << l, "tmeta", 0 >>
     IN Command(l, [n \in {l, data, meta} |->
                      IF n = l THEN Volume(OnVolumes(2, {data, meta}))
                      ELSE IF n = data THEN Hidden(OnAreas(2, << p >>))
                      ELSE Hidden(OnAreas(1, << q >>))],
                OnBoth(p, q, 2, 1), {l})

IsPool(l) == Visible(l) /\ Exists(<< l, "tdata", 0 >>)
IsThin(l) == Visible(l) /\ \E k \in basis[l] : IsPool(k) /\ k # l

CreateThin(l, pool) ==
  /\ ~Exists(l) /\ IsPool(pool)
  /\ Command(l, [n \in {l} |-> Volume(OnVolumes(2, {pool}))], Nowhere, {pool})

Snapshot(l, origin) ==
  /\ ~Exists(l) /\ IsThin(origin)
  /\ LET pool == CHOOSE k \in basis[origin] : TRUE
     IN Command(l, [n \in {l} |-> Volume(OnVolumes(2, {pool, origin}))], Nowhere, {pool})

\* An LV on areas of its own grows by an extent.
OwnAreas(l) == Visible(l) /\ Kids(l) = {}

Extend(l, p) ==
  /\ OwnAreas(l) /\ Room(p, 1)
  /\ Command(l, [n \in {l} |-> [lvs[l] EXCEPT !.segs = Append(@, OnAreas(1, << p >>))]],
             [held[l] EXCEPT ![p] = @ + 1], {l})

\* l is cached by fast, which becomes a hidden part of it.
Cache(l, fast) ==
  /\ l # fast /\ OwnAreas(l) /\ OwnAreas(fast)
  /\ \A i \in DOMAIN mounts : mounts[i].fs # fast
  /\ LET orig == << l, "corig", 0 >>
     IN Command(l, [n \in {l, orig, fast} |->
                      IF n = l THEN Volume(OnVolumes(2, {orig, fast}))
                      ELSE IF n = orig THEN [lvs[l] EXCEPT !.visible = FALSE]
                      ELSE [lvs[fast] EXCEPT !.visible = FALSE]],
                held[l], {l, fast})

\* l goes with its sub-LVs and its cache; snapshots of it lose their origin.
Remove(l) ==
  LET out == {l} \cup {k \in basis[l] : ~Visible(k)}
      family == out \cup {<< k, r[1], r[2] >> : k \in out, r \in Subs}
      Without(seg) == [seg EXCEPT !.refs = @ \ {l}]
  IN /\ Visible(l)
     /\ \A i \in DOMAIN mounts : mounts[i].fs # l
     /\ \A k \in LVs \ {l} : l \notin basis[k]
     /\ Change
     /\ \A p \in PVs : Present(p)
     /\ lvs' = [n \in Names |->
                  IF n \in family \/ ~Exists(n) THEN NoLv
                  ELSE [lvs[n] EXCEPT !.segs = [i \in DOMAIN @ |-> Without(@[i])]]]
     /\ held' = [k \in LVs |-> IF k \in out THEN Nowhere ELSE held[k]]
     /\ basis' = [k \in LVs |-> IF k \in out THEN {} ELSE basis[k]]
     /\ legs' = [x \in LVs \X {0, 1} |-> IF x[1] \in out THEN "none" ELSE legs[x]]
     /\ torn' = (pc = "collect")
     /\ UNCHANGED << gone, mounts, kept, away, mute >>

\* The PV an image of a RAID is on.
LegPv(l, i) == lvs[<< l, "rimage", i >>].segs[1].areas[1]

\* The images on what goes with a disk are dead, until the LV is refreshed.
Unplug(d) ==
  /\ d \notin gone
  /\ Change
  /\ gone' = gone \cup {d}
  /\ legs' = [x \in LVs \X {0, 1} |->
                IF IsRaid(x[1]) /\ DisksUnder(DeviceOf[LegPv(x[1], x[2])]) \subseteq gone'
                THEN "D" ELSE legs[x]]
  /\ torn' = (pc = "collect")
  /\ UNCHANGED << lvs, held, basis, mounts, kept, away, mute >>

Plug(d) ==
  /\ d \in gone
  /\ Change
  /\ gone' = gone \ {d}
  /\ torn' = (pc = "collect")
  /\ UNCHANGED << lvs, legs, held, basis, mounts, kept, away, mute >>

Refresh(l) ==
  /\ Failed(l)
  /\ Change
  /\ \A p \in PVs : Present(p)
  /\ legs' = [x \in LVs \X {0, 1} |-> IF x[1] = l /\ legs[x] = "D" THEN "a" ELSE legs[x]]
  /\ torn' = (pc = "collect")
  /\ UNCHANGED << lvs, gone, held, basis, mounts, kept, away, mute >>

\* The images of an LV that has no dead one are in sync again.
Synced(l) ==
  /\ Resyncing(l) /\ ~Failed(l)
  /\ legs' = [x \in LVs \X {0, 1} |-> IF x[1] = l THEN "A" ELSE legs[x]]
  /\ torn' = (pc = "collect")
  /\ UNCHANGED << lvs, gone, held, basis, mounts, pollVars, kept, away, mute, changes >>

Attach(m) ==
  /\ m.mnt \notin MountedAt(mounts)
  /\ Change
  /\ mounts' = Append(mounts, m)
  /\ away' = away \ {m.mnt}
  /\ UNCHANGED << hostVars, kept, mute, torn >>

\* A filesystem may be mounted more than once.
Mount(fs, mnt) ==
  /\ IF fs \in LVs THEN Visible(fs) /\ ~IsPool(fs) ELSE Alive(fs)
  /\ ~Hurt(fs)
  /\ Attach([fs |-> fs, root |-> "/", mnt |-> mnt])

\* A directory of it too: a bind mount, or a subvolume of btrfs.
Bind(i, mnt) == Attach([fs |-> mounts[i].fs, root |-> "dir", mnt |-> mnt])

Umount(i) ==
  /\ Change
  /\ mounts' = SubSeq(mounts, 1, i - 1) \o SubSeq(mounts, i + 1, Len(mounts))
  /\ kept' = kept \ {mounts[i]}
  /\ UNCHANGED << hostVars, away, mute, torn >>

-------------------------------------------------------------------------------
Poll == ReadFilesystems \/ ReadMissing \/ ReadVgs \/ Collect

Lvm ==
  \/ \E l \in LVs, p \in PVs : CreateLinear(l, p) \/ Extend(l, p)
  \/ \E l \in LVs, p, q \in PVs :
       CreateStriped(l, p, q) \/ CreateRaid(l, p, q) \/ CreatePool(l, p, q)
  \/ \E l, k \in LVs : CreateThin(l, k) \/ Snapshot(l, k) \/ Cache(l, k)
  \/ \E l \in LVs : Remove(l) \/ Refresh(l) \/ Synced(l)

Host ==
  \/ \E d \in Disks : Unplug(d) \/ Plug(d)
  \/ \E fs \in FsHolders, mnt \in MountPoints : Mount(fs, mnt)
  \/ \E i \in DOMAIN mounts : Umount(i) \/ \E mnt \in MountPoints : Bind(i, mnt)

Next == Poll \/ Lvm \/ Host

Spec == Init /\ [][Next]_vars

-------------------------------------------------------------------------------
(***************************************************************************)
(* Properties.                                                             *)
(***************************************************************************)

\* What the variables hold.
TypeOK ==
  /\ lvs \in [Names -> Volumes \cup {NoLv}]
  /\ gone \subseteq Disks
  /\ legs \in [LVs \X {0, 1} -> {"A", "a", "D", "none"}]
  /\ mounts \in Seq(Mounts)
  /\ pc \in {"idle", "fstab", "vgs", "collect"}
  /\ listed \subseteq Mounts
  /\ missing \subseteq Fstab
  /\ layout \in [LVs -> {NoLv} \cup SUBSET PVs]
  /\ attached \subseteq PVs /\ degraded \subseteq Arrays
  /\ cache \in [Nodes -> {Unread} \cup SUBSET Disks]
  /\ current \in [fss : SUBSET Views, missing : SUBSET Fstab, lost : SUBSET PVs,
                 arrays : SUBSET Arrays, known : SUBSET LVs, raids : SUBSET LVs,
                 resyncs : SUBSET LVs]
  /\ held \in [LVs -> [PVs -> Nat]]
  /\ basis \in [LVs -> SUBSET LVs]
  /\ kept \subseteq Mounts
  /\ away \subseteq MountPoints
  /\ mute \subseteq FsHolders
  /\ torn \in BOOLEAN
  /\ changes \in Nat

\* A thin snapshot names its pool and its origin, which is in that pool: its tree
\* reaches the pool twice.
ReachedTwice(l) == \E k \in Kids(l), j \in Kids(l) : k # j /\ j \in Kids(k)

\* Whatever was created, grown, cached, snapshot and removed, what the readers
\* make of the backup (lvm.py L172-L256) is what LVM did: the space allocated on
\* each PV is what the LVs hold there, counted once; an LV's layout names the
\* PVs its data is on, with the extents it has on each.  Extents of a thin
\* snapshot are excepted: lv_tree counts the pool of its origin again.
LvmAccounted ==
  /\ \A p \in PVs : UsedOn(p) = Held(p)
  /\ \A l \in LVs : Visible(l) =>
       /\ LayoutOf(l) = PvsUnder(l)
       /\ ~ReachedTwice(l) => \A p \in PVs : TreeOn(l, p) = ExtentsOn(l, p)

\* A mount point that stays as it is during a poll is reported as it is, though
\* mountinfo is read twice (storage_lvm.py L298-L303): one that fstab mounts is
\* reported as not mounted only if it is not, and a filesystem that is mounted
\* whole is listed exactly once, however often it is mounted.
MountsReported ==
  [][Collect =>
       /\ \A m \in kept : /\ m.mnt \notin current'.missing
                          /\ m.root = "/" /\ m.fs \notin mute =>
                               \E v \in current'.fss : v.fs = m.fs
       /\ \A mnt \in away : /\ mnt \in Fstab => mnt \in current'.missing
                            /\ \A v \in current'.fss : v.mnt # mnt
       /\ \A v, w \in current'.fss : v.fs = w.fs /\ v.fs \notin Btrfs => v = w]_vars

\* A filesystem that stays mounted is shown on the LV, the PVs and the disks that
\* it is on, whatever failed or was replaced since an earlier poll, unless disks
\* or LVs changed between the reading of the backups and that of sysfs.  Nothing
\* is shown under a btrfs (storage_lvm.py L132-L147, L304-L333).
BackingShown ==
  [][Collect /\ ~torn => \A v \in current'.fss : (\E m \in kept : m.mnt = v.mnt) =>
       IF v.fs \in Btrfs THEN v.lv = NoLv /\ v.disks = {}
       ELSE IF v.fs \in LVs
       THEN /\ v.lv = v.fs
            /\ AnyPresent => v.pvs = PvsUnder(v.fs)
            /\ v.disks = UNION {DisksUnder(DeviceOf[p]) \ gone : p \in PvsUnder(v.fs)}
       ELSE v.lv = NoLv /\ v.disks = DisksUnder(v.fs) \ gone]_vars

\* An LV that has lost a disk, or an image of which is not in sync, raises an alarm
\* in every poll that nothing tore, until it is whole again: a missing PV, a
\* degraded array, a failed RAID or one that resyncs (those that dmsetup, which may
\* fail, lets the poll know of).  What is not a RAID raises none once its last PV
\* has gone, as the VG is then not listed any more (lvm.py L283, storage_lvm.py
\* L155-L170, L206-L218, L223-L242).
LossAlarmed ==
  [][Collect /\ ~torn => \A l \in LVs : Visible(l) =>
       /\ l \in current'.known /\ HealthOf(l) \cap {"a", "D"} # {} =>
            l \in current'.raids \cup current'.resyncs
       /\ AnyPresent => \A p \in PvsUnder(l) : DisksUnder(DeviceOf[p]) \cap gone # {} =>
            p \in current'.lost \/ DeviceOf[p] \in current'.arrays]_vars
===============================================================================
