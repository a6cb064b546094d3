SPECIFICATION Spec
CONSTANTS
  Kinds = {"contact", "inbox-rule", "category", "draft", "todo-task", "sharepoint-file"}
  Ids = {"i1", "i2"}
  MaxCalls = 3
  MaxEdits = 1
  Senders = {"s1", "s2"}
  Meetings = {"m1", "m2"}
  MaxEvents = 3
  MaxRead = 2
  MaxAge = 1
  MaxClock = 2
  MaxRestarts = 1
  Scopes = {"Mail.Send", "Tasks.ReadWrite"}
  Callers = {"c1", "c2"}
  MaxAsks = 3
  MaxVisits = 3
  MaxMeddles = 2
  MaxLag = 3
  MaxLate = 1
  MaxEditors = 1
INVARIANTS
  TypeOK
  OneObject
  CallsHeal
  KnowsWhatWasSent
  TelemetryTruthful
  TokenForOwnScope
  CleanupLeavesNothing
PROPERTIES
  DeletesOnlyItsOwn
  CallersAnswered
CHECK_DEADLOCK FALSE
