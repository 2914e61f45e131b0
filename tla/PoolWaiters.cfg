SPECIFICATION WSpec
CONSTANTS
  k1 = k1
  k2 = k2
  w1 = w1
  w2 = w2
  Keys = {k1, k2}
  EnvKey = EnvKey
  None = None
  Workers = {w1, w2}
  SafetyBudget = 4
  EstCostPerMember = 2
  DefaultLimitPerHour = 9
  Hour = 2
  DisabledCooldown = 2
  ReconcileEvery = 2
  ReconcileUseThreshold = 2
  ForbiddenErrThreshold = 2
  MaxZones = 1
  ZoneCost = 1
  RateReplies <- MCReplies
  Failures <- MCFailures
  EnvConfigured = TRUE
  LostAcks = FALSE
  MaxTime = 4
  MaxUses = 2
  MaxErrs = 1
  MaxRestarts = 0
  PerMemberTimeout = 1
  RetryAfter = 1
  MaxWait = 3
SYMMETRY Symmetry
CHECK_DEADLOCK FALSE
INVARIANTS CountdownIsRecent NoHotLoop SleepIsPrecise EtaAgrees
