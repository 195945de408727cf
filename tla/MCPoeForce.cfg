SPECIFICATION Spec
CONSTANTS
  NoReply = NoReply
  NoJob = NoJob
  Ports = {p1}
  Workers = {w1, w2}
  MaxCommands = 2
  MaxMishaps = 0
  InitialHw <- MCInitialHw
  MaxStarts = 1
INVARIANT ForceSurvives
SYMMETRY WorkerSymmetry
CHECK_DEADLOCK FALSE
