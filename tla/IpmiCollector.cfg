SPECIFICATION FairSpec
CONSTANTS
  Sensors = {t1}
  Slots = {p1}
  Values = {ok, error}
  NoData = NoData
  NoValue = NoValue
  Silent = Silent
  MaxStarts = 2
  MaxMishaps = 2
  MaxChanges = 2
INVARIANTS
  TypeOK
  GoneShowsOffline
  EntitiesKnown

  
CHECK_DEADLOCK FALSE
