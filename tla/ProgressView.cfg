SPECIFICATION MCSpec
CONSTANTS
  w1 = w1
  w2 = w2
  None = None
  MaxId = 2
  CN <- Ids
  Workers = {w1, w2}
  Zones = 1
  MaxScans = 2
SYMMETRY Symmetry
CHECK_DEADLOCK FALSE
INVARIANTS TypeOK CountersFit DataWasUploaded IdleIsFrozen LastScanAddsUp
