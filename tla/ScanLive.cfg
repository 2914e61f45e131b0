SPECIFICATION FairSpec
CONSTANTS
  w1 = w1
  w2 = w2
  None = None
  MaxId = 3
  CN <- Ids
  Workers = {w1}
  Zones = 1
  MemberQueueSize = 1
  BatchSize = 1
  Resets = {}
  Panics = TRUE
  MaxCrashes = 0
PROPERTIES ScanEnds DueIsRetried
