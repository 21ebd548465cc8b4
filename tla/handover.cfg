CONSTANTS
  big = big
  rounded = rounded
  small = small
  Objects = {small, big, rounded}
  Float64 <- Rounding
  None = None
  Docs = {d1}
  Replicas = {r1, r2}
  Extensions = {small, big, None, ""}
  MaxRev = 2
  MaxElections = 2
  MaxFailures = 1
SPECIFICATION FairSpec
CHECK_DEADLOCK FALSE
INVARIANTS
  TypeOK
  SuccessIsAcknowledged
  FakeAgrees
  RewriteKeeps
PROPERTIES
  NoBlindOverwrite
  Converges
