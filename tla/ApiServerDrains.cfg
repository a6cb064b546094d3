CONSTANTS
  Requests = {r1, r2}
  Owners = {"calendar-meeting-create"}
  OperatorLimit = 1
  PureLimit = 1
  ReadLimit = 1
  MutationLimit = 1
SPECIFICATION Spec
INVARIANT StoppedMeansDrained
CHECK_DEADLOCK FALSE
