CONSTANTS
  Requests = {r1, r2, r3}
  Owners = {"whoami", "calendar-meeting-create", "sharepoint-trusted-version-lifecycle"}
  OperatorLimit = 2
  PureLimit = 2
  ReadLimit = 1
  MutationLimit = 1
SPECIFICATION FairSpec
INVARIANTS TypeOK SlotsMatchHandlers MutationsExclusive OneRecordEach StopLosesNoAnswer
PROPERTY SignalEndsProcess
CHECK_DEADLOCK FALSE
