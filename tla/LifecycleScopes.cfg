SPECIFICATION Spec
CONSTANTS
  MaxInstances = 1
  Requires <- Alone
  ScopeIds = {"root", "a", "b"}
  Homes = {"root", "a", "b"}
  Root = "root"
  MaxGeneration = 1
  MaxEffects = 2
  Operators = 1
  Roots = {1}
  Unloads = {}
  Revocable = {1}
  Faults = {"cleanup"}
CHECK_DEADLOCK FALSE
INVARIANT CleanedInReverse
INVARIANT ClosedIsEmpty
