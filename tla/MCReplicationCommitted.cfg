\* One follower and one message: what the watermark says of the in-sync set.
SPECIFICATION Spec
CONSTANTS
  f1 = f1
  v1 = v1
  v2 = v2
  Follower = {f1}
  Mortal = {}
  Value = {v1}
  BatchSize = 2
  MaxLen = 2
  MaxBreaks = 0
PROPERTIES AdvanceIsReplicated
CHECK_DEADLOCK FALSE
