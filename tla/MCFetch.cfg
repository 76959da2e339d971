\* Two streams, two producers, a log of two records, one failure.
SPECIFICATION FairSpec
CONSTANTS
  s1 = s1
  s2 = s2
  none = none
  p1 = p1
  p2 = p2
  Stream = {s1, s2}
  NoStream = none
  Producer = {p1, p2}
  BatchSize = 2
  Start = {0, 1}
  MaxLen = 2
  MaxBreaks = 1
INVARIANTS TypeOK OnlyVisibleSent NoLostWakeup
PROPERTIES DeliveredInOrder VisibleDelivered
CHECK_DEADLOCK FALSE
