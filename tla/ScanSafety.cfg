SPECIFICATION Spec
CONSTANTS
  w1 = w1
  w2 = w2
  None = None
  MaxId = 3
  CN <- MCCN
  Workers = {w1, w2}
  Zones = 2
  MemberQueueSize = 1
  BatchSize = 2
  Resets = {soon}
  Panics = TRUE
  MaxCrashes = 1
SYMMETRY Symmetry
INVARIANTS TypeOK MembersInOnePlace CountersAgree ScanIsComplete FailureIsRetried StatusAgrees
