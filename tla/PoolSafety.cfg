SPECIFICATION Spec
CONSTANTS
  k1 = k1
  k2 = k2
  w1 = w1
  w2 = w2
  Keys = {k1}
  EnvKey = EnvKey
  None = None
  Workers = {w1, w2}
  SafetyBudget = 4
  EstCostPerMember = 2
  DefaultLimitPerHour = 9
  Hour = 2
  DisabledCooldown = 1
  ReconcileEvery = 1
  ReconcileUseThreshold = 2
  ForbiddenErrThreshold = 2
  MaxZones = 2
  ZoneCost = 1
  RateReplies <- MCReplies
  Failures <- MCFailures
  EnvConfigured = TRUE
  LostAcks = FALSE
  MaxTime = 3
  MaxUses = 4
  MaxErrs = 2
  MaxRestarts = 1
SYMMETRY Symmetry
CHECK_DEADLOCK FALSE
INVARIANTS TypeOK EstimateBounded ReserveAbsorbsLeases UsesAccounted
PROPERTIES DisabledIsFinal ProbeForbiddenSticks ImplementsLeasePool
