SPECIFICATION Spec
CONSTANTS
  a = a
  b = b
  NoContext = NoContext
  NoSession = NoSession
  Sessions <- TwoSessions
  MaxContexts = 3
  OrdinaryCap = 1
  NestedCap = 1
  LifecycleCap = 1
  QueueCap = 2
  FrameCap = 3
  FinishCodes = {"complete", "UNAVAILABLE"}
  MaxDepth = 3
SYMMETRY SessionSymmetry
INVARIANTS
  SlotAccounting
  WorkConserving
  FamilyEndsTogether
PROPERTIES
  StartsInOrder
  QuarantineHolds
  OnlyOneFamilyEnds
CHECK_DEADLOCK FALSE
