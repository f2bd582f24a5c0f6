SPECIFICATION FairEventsSpec
CONSTANTS
  p = p
  q = q
  root = root
  child = child
  b = b
  Instances = {p, q}
  Scopes = {root, child}
  Root = root
  Parent <- MCParent
  Contexts <- MCContexts
  Policy <- MCPolicy
  MaxGrants = 3
  AuditCapacity = 2
  MaxGeneration = 2
  MaxTime = 1
  MaxReads = 1
  MaxDrains = 1
  Subs = {b}
  Context <- MCContext
  EventQueue = 2
  MaxEvents = 3
INVARIANTS
  NothingIsLost
  HandlersAreSerial
CHECK_DEADLOCK FALSE
PROPERTIES
  AuthorityNeverReturns
  UsesAreAuthorized
  QueuesDrain
