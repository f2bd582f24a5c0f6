SPECIFICATION OutcomesSpec
CONSTANTS
  m = m
  n = n
  Sessions = {"s"}
  Ids <- TwoIds
  Keys = {"k"}
  NoKey = "none"
  Bodies = {"x", "y"}
  Inputs <- KeyedAndPlain
  MaxAttempts = 2
  MaxTime = 1
  MaxLosses = 1
  Deadlines = {2}
  MaxCall = 1
  Retention = 1
  MaxPending = 2
  MaxCalls = 2
  MaxRecords = 1
  MaxStreams = 1
  MaxItems = 2
  Capacity = 1
  Bridged = {2}
SYMMETRY IdSymmetry
INVARIANTS
  TablesAreExact
  AnswersAreOwn
  NoOrphans
  DemandDriven
  NobodyIsForgotten
PROPERTY NoSecondEffect
PROPERTY ChannelIsKept
PROPERTY FarChannelIsKept
CHECK_DEADLOCK FALSE
