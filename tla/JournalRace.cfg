SPECIFICATION Spec
CONSTANTS
  c1 = c1 c2 = c2 c3 = c3 c4 = c4 o1 = o1 o2 = o2
  Calls = {c1, c2, c3}
  Owners = {o1, o2}
  NoOwner = none
  Times = {1, 2}
  Leases = {1}
  Retention = 1
  MayCall <- RaceCalls
  CreateReturnsEtag = TRUE
  MayDamage = TRUE
SYMMETRY RaceSymmetry
INVARIANTS TypeOK JournalWritesReadable OneOwnerPerLife ConflictMeansNotApplied
PROPERTY ImplementsLedger
CHECK_DEADLOCK FALSE
