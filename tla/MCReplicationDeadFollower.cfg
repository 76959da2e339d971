\* One follower, which may die for good, two messages, fair scheduling.
SPECIFICATION FairSpec
CONSTANTS
  f1 = f1
  v1 = v1
  v2 = v2
  Follower = {f1}
  Mortal = {f1}
  Value = {v1}
  BatchSize = 2
  MaxLen = 2
  MaxBreaks = 0
PROPERTIES WatermarkCatchesUp
CHECK_DEADLOCK FALSE
