SPECIFICATION Spec
CONSTANTS
  sda = sda
  sdb = sdb
  sdc = sdc
  sda1 = sda1
  sda2 = sda2
  sdb1 = sdb1
  sdb2 = sdb2
  md0 = md0
  p1 = p1
  p2 = p2
  LVs = {l1, l2, l3}
  PVs = {p1, p2}
  PeCount = 4
  Disks <- MCDisks
  Partitions <- MCPartitions
  Arrays = {md0}
  ParentDisk <- MCParentDisk
  Members <- MCMembers
  DeviceOf <- MCDeviceOf
  Plain = {sda2, sdb2}
  MountPoints = {m1, m2}
  Fstab = {m1, m2}
  Btrfs = {sda2}
  NoLv = NoLv
  Unread = Unread
  MaxChanges = 4
INVARIANTS
  TypeOK
  LvmAccounted
PROPERTIES
  MountsReported
  
  
SYMMETRY Symmetry
