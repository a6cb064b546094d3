SPECIFICATION Spec
CONSTANTS
  c1 = c1 c2 = c2 c3 = c3 c4 = c4 o1 = o1 o2 = o2
  Calls = {c1, c2}
  Owners = {o1, o2}
  NoOwner = none
  Times = {1, 2}
  Leases = {1}
  Retention = 1
  MayCall <- FollowUpCalls
  CreateReturnsEtag = FALSE
  MayDamage = TRUE
PROPERTIES CallsReturn
CHECK_DEADLOCK FALSE
