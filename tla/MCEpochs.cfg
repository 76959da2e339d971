\* Two brokers, three messages; one crash or silence, one eviction, broken stream or
\* leader reported as unreachable.
SPECIFICATION Spec
CONSTANTS
  b1 = b1
  b2 = b2
  NoBroker = NoBroker
  Broker = {b1, b2}
  First = b1
  MaxMsgs = 3
  MaxEpoch = 3
  MaxOutages = 1
  MaxFaults = 1
INVARIANTS TypeOK LogsAgreeUnlessLeft
PROPERTIES OnlyStraysDiscarded ReadableStays IsrFromCurrentLeader
CHECK_DEADLOCK FALSE
