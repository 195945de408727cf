SPECIFICATION Spec
CONSTANTS
  Suffixes = {s1}
  Payloads = {a}
  NoPayload = NoPayload
  NoSuffix = NoSuffix
  Static = Static
  MaxChanges = 2
  MaxBreaks = 1
  MaxStarts = 1
INVARIANT GoneEmptied
CHECK_DEADLOCK FALSE
