SPECIFICATION SessionSpec
CONSTANTS
  a = a
  b = b
  NoContext = NoContext
  NoSession = NoSession
  Sessions <- TwoSessions
  FinishCodes <- AllCodes
  MayExpire <- NoContexts
  MayRevoke <- NoContexts
  MaxContexts = 3
  OrdinaryCap = 1
  NestedCap = 1
  LifecycleCap = 0
  QueueCap = 1
  FrameCap = 8
  MaxDepth = 8
  LiveCap = 2
  WorkerCap = 2
CHECK_DEADLOCK FALSE
SYMMETRY SessionSymmetry
INVARIANT InFlightIsCharged
INVARIANT CarrierIsMonotone
INVARIANT EndpointsAreOpen
