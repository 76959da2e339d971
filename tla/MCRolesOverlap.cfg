\* Two transitions at once: the one that was overtaken lowers the epoch.
SPECIFICATION Spec
CONSTANTS
  c1 = c1
  c2 = c2
  Caller = {c1, c2}
  MaxEpoch = 2
  MaxRequests = 3
PROPERTIES EpochNeverDecreases
CHECK_DEADLOCK FALSE
