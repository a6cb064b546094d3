SPECIFICATION Spec
CONSTANTS
  MaxVisits = 2
  MaxMeddles = 1
INVARIANT ConflictChangedNothing
CHECK_DEADLOCK FALSE
