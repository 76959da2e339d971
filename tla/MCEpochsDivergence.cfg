\* Two brokers, three messages, one outage.
SPECIFICATION Spec
CONSTANTS
  b1 = b1
  b2 = b2
  NoBroker = NoBroker
  Broker = {b1, b2}
  First = b1
  MaxMsgs = 3
  MaxEpoch = 2
  MaxOutages = 1
  MaxFaults = 0
PROPERTIES DivergenceDetected
CHECK_DEADLOCK FALSE
