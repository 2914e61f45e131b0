SPECIFICATION Spec
CONSTANTS
  w1 = w1
  w2 = w2
  None = None
  MaxId = 1
  CN <- Ids
  Workers = {w1}
  Zones = 2
  MemberQueueSize = 1
  BatchSize = 1
  Resets = {soon}
  Panics = FALSE
  MaxCrashes = 0
PROPERTIES MemoErrorsSpareKey
