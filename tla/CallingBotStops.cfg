SPECIFICATION FairSpec
CONSTANTS
  Ours = ours
  Strays = {stray}
  NoCall = none
  Ranks = {1, 3, 5}
  Bodies = {1}
  MayFail = FALSE
  MaxLeft = 0
  MaxStarts = 1
PROPERTIES KnownCallEnds StopDrains
CHECK_DEADLOCK FALSE
