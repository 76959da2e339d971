\* Two brokers, two partitions, two goroutines; one promotion, one crash or failure.
SPECIFICATION FairSpec
CONSTANTS
  b1 = b1
  b2 = b2
  main = main
  other = other
  w1 = w1
  w2 = w2
  Broker = {b1, b2}
  Order <- MCOrder
  Caller = {main, other}
  Main = main
  Worker = {w1, w2}
  Hash <- MCHash
  NumPartitions = 2
  MaxPromotions = 1
  MaxFaults = 1
INVARIANTS TypeOK MetadataIndexed
PROPERTIES AckedByNamedPrimary RetryReachesLeader
CHECK_DEADLOCK FALSE
