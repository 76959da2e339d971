\* Goroutines that route a key while another program creates the topic.
SPECIFICATION FairSpec
CONSTANTS
  b1 = b1
  b2 = b2
  main = main
  other = other
  w1 = w1
  w2 = w2
  Broker = {b1, b2}
  Order <- MCOrder
  Caller = {main, other}
  Main = main
  Worker = {w1, w2}
  Hash <- MCSameHash
  NumPartitions = 2
  MaxPromotions = 1
  MaxFaults = 0
INVARIANTS KeyKeepsPartition
CHECK_DEADLOCK FALSE
