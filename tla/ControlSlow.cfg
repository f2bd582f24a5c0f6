SPECIFICATION FairSpec
CONSTANTS
  MissLimit = 3
  Burst = 2
  Lag = 2
  MaxBeats = 7
  MaxRequests = 2
CHECK_DEADLOCK FALSE
INVARIANT NumberedInOrder
PROPERTY StallIsNoticed
