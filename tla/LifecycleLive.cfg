SPECIFICATION FairProfilesSpec
CONSTANTS
  MaxInstances = 2
  Requires <- Pair
  ScopeIds = {"root", "a"}
  Homes = {"root"}
  Root = "root"
  MaxGeneration = 1
  MaxEffects = 1
  Operators = 1
  Roots = {1}
  Unloads = {2}
  Revocable = {}
  Faults = {"code", "audit"}
  Plugins <- Both
  ProfileScopes <- OneScope
CHECK_DEADLOCK FALSE
INVARIANT FailedProfilesLeaveNothing
PROPERTY StartsSettle
