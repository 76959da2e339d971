\* One follower, which may die, whose stream breaks once; two messages, two payloads.
SPECIFICATION FairSpec
CONSTANTS
  f1 = f1
  v1 = v1
  v2 = v2
  Follower = {f1}
  Mortal = {f1}
  Value = {v1, v2}
  BatchSize = 2
  MaxLen = 2
  MaxBreaks = 1
INVARIANTS TypeOK FollowerLogIsPrefix WatermarksBounded
PROPERTIES FollowersKeepMessages WatermarksNeverDecrease AdvanceCoversInSync FollowersConverge WatermarkCatchesUpUnlessDeath
CHECK_DEADLOCK FALSE
