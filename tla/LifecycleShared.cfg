SPECIFICATION Spec
CONSTANTS
  MaxInstances = 3
  Requires <- Shared
  ScopeIds = {"root"}
  Homes = {"root"}
  Root = "root"
  MaxGeneration = 1
  MaxEffects = 1
  Operators = 0
  Roots = {1, 2}
  Unloads = {}
  Revocable = {}
  Faults = {}
CHECK_DEADLOCK FALSE
INVARIANT DependencyErrorsAreFinal
