SPECIFICATION Spec
CONSTANTS
  Accounts = {"a", "b"}
  Operations = {"onedrive", "calendar", "contact", "fixed", "help-desk", "email"}
  MaxClicks = 2
  MaxLoads = 3
  MaxLabCalls = 4
  MaxCommands = 4
  MaxPolls = 4
  MaxOthers = 2
  MaxFaults = 3
  Families = {"gsa", "tls", "updates", "entra", "passkey", "product", "student"}
  MaxStarts = 2
  MaxFailed = 1
  MaxChanges = 1
  MaxReads = 9
  MaxProofs = 3
  MaxSessions = 2
  MaxProbes = 3
  MaxClones = 2
  MaxPasskeys = 3
  MaxModes = 3
INVARIANTS
  TypeOK
  NothingOrphaned
  CompletedMeansClean
  GivenBack
  BaselinesExact
PROPERTIES
  NothingRepeatedBlindly
  SilentAfterSignOut
CHECK_DEADLOCK FALSE
