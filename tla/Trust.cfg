SPECIFICATION PackagesSpec
CONSTANTS
  None = None
  MaxTime = 2
  Policies <- SomePolicies
  Revocations <- SomeLists
  Rotations <- SomeRotations
  Faults = {"write", "sync"}
  Index = "index"
  IndexOf <- SomeIndexes
  ManifestOf <- SomeManifests
  Size <- SomeSizes
  MaxFile = 1
  MaxPackage = 1
  Signed <- SomeSigned
  Endorses <- SomeKeys
  Revokes <- SomeRevoked
  Submissions <- SomeSubmissions
INVARIANTS
  NoRollback
  RootsAreChained
PROPERTIES
  SavedTimesHold
  VerifiedIsSigned
