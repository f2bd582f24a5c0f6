SPECIFICATION Spec
CONSTANTS
  MaxInstances = 2
  Requires <- Pair
  ScopeIds = {"root", "a"}
  Homes = {"root"}
  Root = "root"
  MaxGeneration = 1
  MaxEffects = 1
  Operators = 1
  Roots = {1}
  Unloads = {2}
  Revocable = {}
  Faults = {"timeout", "link", "trust", "cleanup", "audit"}
CHECK_DEADLOCK FALSE
INVARIANT DependentsFollow
INVARIANT DisposedIsClean
