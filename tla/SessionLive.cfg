SPECIFICATION FairSessionSpec
CONSTANTS
  a = a
  b = b
  NoContext = NoContext
  NoSession = NoSession
  Sessions <- TwoSessions
  FinishCodes <- AllCodes
  MayExpire <- AllContexts
  MayRevoke <- FirstContext
  MaxContexts = 2
  OrdinaryCap = 1
  NestedCap = 1
  LifecycleCap = 0
  QueueCap = 1
  FrameCap = 8
  MaxDepth = 8
  LiveCap = 1
  WorkerCap = 2
CHECK_DEADLOCK FALSE
INVARIANT ChildrenAreCounted
INVARIANT OnlyPacketsAreCharged
PROPERTY ImplementsScheduler
PROPERTY EveryOpenSettles
PROPERTY FailedSessionsAreReaped
