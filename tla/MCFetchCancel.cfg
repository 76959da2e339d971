\* One stream that breaks while its handler is about to sleep.
SPECIFICATION FairSpec
CONSTANTS
  s1 = s1
  s2 = s2
  none = none
  p1 = p1
  p2 = p2
  Stream = {s1}
  NoStream = none
  Producer = {p1}
  BatchSize = 2
  Start = {0}
  MaxLen = 1
  MaxBreaks = 1
PROPERTIES CancelledHandlerReturns
CHECK_DEADLOCK FALSE
