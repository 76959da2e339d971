\* Three brokers: a report and a tick of the loop about one silent leader.
SPECIFICATION Spec
CONSTANTS
  b1 = b1
  b2 = b2
  b3 = b3
  none = none
  r1 = r1
  Broker = {b1, b2, b3}
  NoBroker = none
  Reporter = {r1}
  MaxLEO = 0
  MaxEpoch = 3
  MaxOutages = 1
  MaxLost = 0
SYMMETRY Symmetry
PROPERTIES PromotionBumpsEpoch
