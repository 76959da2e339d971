\* Two brokers, one outage, one failed call or commit, fair scheduling.
SPECIFICATION FairSpec
CONSTANTS
  b1 = b1
  b2 = b2
  b3 = b3
  none = none
  r1 = r1
  Broker = {b1, b2}
  NoBroker = none
  Reporter = {}
  MaxLEO = 0
  MaxEpoch = 4
  MaxOutages = 1
  MaxLost = 1
PROPERTIES DownPrimaryReplaced
