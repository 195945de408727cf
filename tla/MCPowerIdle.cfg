SPECIFICATION FairSpec
CONSTANTS
  Workers = {w1, w2}
  Actions <- MCActions
  MaxPresses = 2
  MaxStarts = 2
  MaxDrops = 1
PROPERTY HaltStaysOnShow
CHECK_DEADLOCK FALSE
