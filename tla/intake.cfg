CONSTANTS
  d1 = d1
  d2 = d2
  apply = apply
  read = read
  Collections = {apply, read}
  CollectionOf <- TwoCollections
  DeleteHandled = {read}
  Docs = {d1, d2}
  NoDoc = NoDoc
  ResyncPeriod = 1
  Cooldown = 1
  Capacity = 1
  MaxRev = 2
  MaxFailures = 1
SPECIFICATION FairSpec
CHECK_DEADLOCK FALSE
INVARIANTS
  TypeOK
  NothingMissed
  RevisitedInTime
PROPERTIES
  Implements
  Reconciled
