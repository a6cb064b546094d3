SPECIFICATION Spec
CONSTANTS
  Ours = ours
  Strays = {stray}
  NoCall = none
  Ranks = {1, 5}
  Bodies = {1}
  MayFail = TRUE
  MaxLeft = 1
  MaxStarts = 2
INVARIANTS TypeOK OneCallOneHangup AttemptsOnRecord RefusedPlacedNothing EndedIsOver CallbacksTellOneCall
PROPERTY NoCallAfterStop
CHECK_DEADLOCK FALSE
