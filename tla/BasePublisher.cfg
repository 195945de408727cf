SPECIFICATION FairSpec
CONSTANTS
  Suffixes = {s1}
  Payloads = {a, b}
  NoPayload = NoPayload
  NoSuffix = NoSuffix
  Static = Static
  MaxChanges = 2
  MaxBreaks = 1
  MaxStarts = 2
INVARIANTS
  TypeOK
  GoneShowsOffline
  AttributesShown
  GoneIsNull
  EntitiesKnown
PROPERTIES
  EventuallyShown
CHECK_DEADLOCK FALSE
