SPECIFICATION SessionSpec
CONSTANTS
  a = a
  b = b
  NoContext = NoContext
  NoSession = NoSession
  Sessions <- TwoSessions
  FinishCodes <- AllCodes
  MayExpire <- NoContexts
  MayRevoke <- NoContexts
  MaxContexts = 3
  OrdinaryCap = 2
  NestedCap = 1
  LifecycleCap = 1
  QueueCap = 1
  FrameCap = 8
  MaxDepth = 8
  LiveCap = 2
  WorkerCap = 9
CHECK_DEADLOCK FALSE
PROPERTY UnrelatedContextsSurvive
