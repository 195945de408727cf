SPECIFICATION FairSpec
CONSTANTS
  Pollers = {p1, p2}
  Controllers = {c1}
  HasPorts = TRUE
  MaxStarts = 2
  MaxDrops = 1
  MaxChanges = 1
INVARIANTS
  TypeOK
  AllGoneShowsOffline

  
CHECK_DEADLOCK FALSE
