SPECIFICATION FairSpec
CONSTANTS
  Workers = {w1, w2}
  Actions <- MCActions
  MaxPresses = 3
  MaxStarts = 2
  MaxDrops = 1
INVARIANTS
  TypeOK
  HaltIsLast
  EveryCommandPressed
  QuietShowsIdle
  GoneShowsOffline
PROPERTIES
  
  BusyEnds
CHECK_DEADLOCK FALSE
