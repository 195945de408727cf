SPECIFICATION FairSpec
CONSTANTS
  NoReply = NoReply
  NoJob = NoJob
  Ports = {p1}
  Workers = {w1}
  MaxCommands = 1
  MaxMishaps = 1
  InitialHw <- MCInitialHw
  MaxStarts = 1
PROPERTIES
  BusyEnds
  EventuallyShown
CHECK_DEADLOCK FALSE
