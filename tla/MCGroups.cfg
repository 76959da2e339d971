\* Three members of a topic with two partitions, one record each, one failure.
SPECIFICATION FairSpec
CONSTANTS
  Member = {1, 2, 3}
  NumPartitions = 2
  MaxLen = 1
  MaxFails = 1
INVARIANTS TypeOK RangesPartitionTopic SettledMembersDisjoint CommittedWasDelivered
PROPERTIES DeliveredUnlessStuck
CHECK_DEADLOCK FALSE
