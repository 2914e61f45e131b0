SPECIFICATION Spec
CONSTANTS
  Deps = {"database", "redis"}
  HealthProbeTimeout = 3
  Deaf = {"redis"}
  ReadTimeout = 2
  MaxTime = 7
  MaxTurns = 3
CHECK_DEADLOCK FALSE
INVARIANTS ProbeIsCapped
