SPECIFICATION Spec
CONSTANTS
  N = 2
  Watched = 2
  KindSeq <- MCKindSeq
  Instances = {1}
  Tables <- MCTables
  Columns <- MCColumns
  a = a
  InitialSays <- MCInitialSays
  InitialHas <- MCInitialHas
  Values = {a, b}
  NoValue = NoValue
  PortWalks = 1
  CommandTime = 1
  TTL = 3
  ErrorRetry = 2
  Interval = 1
  ExpireAfter = 13
  MaxChanges = 1
  MaxMishaps = 1
INVARIANTS
  TypeOK
  AnnouncedCovers
  PicksUpChanges
  
PROPERTIES
  NotErased
  RetryPaced
CHECK_DEADLOCK FALSE
