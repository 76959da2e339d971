\* A broker that a promotion passed over, and a goroutine that has its address.
SPECIFICATION FairSpec
CONSTANTS
  b1 = b1
  b2 = b2
  main = main
  other = other
  w1 = w1
  w2 = w2
  Broker = {b1, b2}
  Order <- MCOrder
  Caller = {main}
  Main = main
  Worker = {w1}
  Hash <- MCHash
  NumPartitions = 2
  MaxPromotions = 1
  MaxFaults = 0
PROPERTIES RetryReachesPrimary
CHECK_DEADLOCK FALSE
