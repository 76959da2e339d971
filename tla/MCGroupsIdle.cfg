\* Two members of a topic with one partition.
SPECIFICATION Spec
CONSTANTS
  Member = {1, 2}
  NumPartitions = 1
  MaxLen = 1
  MaxFails = 0
INVARIANTS DisjointSlices
CHECK_DEADLOCK FALSE
