\* One member that reads two partitions, one of them empty.
SPECIFICATION FairSpec
CONSTANTS
  Member = {1}
  NumPartitions = 2
  MaxLen = 1
  MaxFails = 0
PROPERTIES PollReturnsAvailable
CHECK_DEADLOCK FALSE
