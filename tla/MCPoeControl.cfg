SPECIFICATION Spec
CONSTANTS
  NoReply = NoReply
  NoJob = NoJob
  Ports = {p1}
  Workers = {w1, w2}
  MaxCommands = 2
  MaxMishaps = 1
  InitialHw <- MCInitialHw
  MaxStarts = 1
INVARIANTS
  TypeOK
  CycleRestores

  
SYMMETRY WorkerSymmetry
CHECK_DEADLOCK FALSE
