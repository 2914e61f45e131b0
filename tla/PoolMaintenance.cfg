SPECIFICATION FairSpec
CONSTANTS
  k1 = k1
  k2 = k2
  w1 = w1
  w2 = w2
  Keys = {k1}
  EnvKey = EnvKey
  None = None
  Workers = {w1}
  SafetyBudget = 1
  EstCostPerMember = 1
  DefaultLimitPerHour = 9
  Hour = 2
  DisabledCooldown = 2
  ReconcileEvery = 1
  ReconcileUseThreshold = 2
  ForbiddenErrThreshold = 2
  MaxZones = 1
  ZoneCost = 1
  RateReplies <- MCReplies
  Failures <- MCFewFailures
  EnvConfigured = FALSE
  LostAcks = TRUE
  MaxTime = 2
  MaxUses = 2
  MaxErrs = 2
  MaxRestarts = 0
CHECK_DEADLOCK FALSE
PROPERTIES UsesFlushed DueRefreshed
INVARIANTS UsesAccounted
