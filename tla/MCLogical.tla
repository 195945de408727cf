------------------------------- MODULE MCLogical -------------------------------
(***************************************************************************)
(* Three disks: one with a PV and a btrfs on its partitions, and two under *)
(* an array that is the other PV, one of them by a partition beside which  *)
(* it holds a plain filesystem.                                            *)
(***************************************************************************)
EXTENDS LogicalStorage, TLC

CONSTANTS sda, sdb, sdc, sda1, sda2, sdb1, sdb2, md0, p1, p2

MCDisks      == {sda, sdb, sdc}
MCPartitions == {sda1, sda2, sdb1, sdb2}
MCParentDisk == sda1 :> sda @@ sda2 :> sda @@ sdb1 :> sdb @@ sdb2 :> sdb
MCMembers    == md0 :> {sdb1, sdc}
MCDeviceOf   == p1 :> sda1 @@ p2 :> md0

\* LVs are interchangeable, and so are mount points, as fstab mounts each; the
\* run checks no liveness.
Symmetry == Permutations(LVs) \cup Permutations(MountPoints)
===============================================================================
