\* Two callers at once, three requests with current and older epochs; the broker may
\* close.  The system may stop: by a panic, or in Broker.Close.
SPECIFICATION FairSpec
CONSTANTS
  c1 = c1
  c2 = c2
  Caller = {c1, c2}
  MaxEpoch = 1
  MaxRequests = 3
INVARIANTS TypeOK OneTaskOfTheRole
PROPERTIES EpochLoweredOnlyByOvertaken TransitionsFinish
CHECK_DEADLOCK FALSE
