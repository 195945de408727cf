SPECIFICATION FairSpec
CONSTANTS
  Hosts = {h1, h2}
  Drives = {d1}
  Suffixes = {s1}
  h1 = h1
  Infos = {i1}
  Absent = Absent
  NoHost = NoHost
  InitialAt <- MCInitialAt
  MaxStarts = 2
  MaxMishaps = 1
  MaxChanges = 2
INVARIANTS
  TypeOK
  OnlineIsBacked
  OwnDiscovery

  
CHECK_DEADLOCK FALSE
