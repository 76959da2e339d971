\* Two brokers, one of which is silent for a while; no call is lost.
SPECIFICATION FairSpec
CONSTANTS
  b1 = b1
  b2 = b2
  b3 = b3
  none = none
  r1 = r1
  Broker = {b1, b2}
  NoBroker = none
  Reporter = {}
  MaxLEO = 0
  MaxEpoch = 3
  MaxOutages = 1
  MaxLost = 0
PROPERTIES ReturningBrokerFollows
