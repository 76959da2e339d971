\* Two brokers, one report, one outage, and one call or commit that fails.
SPECIFICATION Spec
CONSTANTS
  b1 = b1
  b2 = b2
  b3 = b3
  none = none
  r1 = r1
  Broker = {b1, b2}
  NoBroker = none
  Reporter = {r1}
  MaxLEO = 0
  MaxEpoch = 3
  MaxOutages = 1
  MaxLost = 1
SYMMETRY Symmetry
INVARIANTS TypeOK ReplicasKept LeadersWereElected OneLeaderPerEpoch
