CONSTANTS
  d1 = d1
  t1 = t1
  Desires = {d1}
  Targets = {t1}
  TargetOf <- OneTarget
  Scopes = {s1}
  Contents = {good, other, bad}
  Malformed = {bad}
  Foreign = foreign
  NoDoc = NoDoc
  ApplyErrors = {"server"}
  Workers = {w1, w2}
  MaxRev = 2
  MaxUpsets = 2
SPECIFICATION Spec
CHECK_DEADLOCK FALSE
SYMMETRY WorkerSymmetry
INVARIANTS
  TypeOK
  SuccessIsAcknowledged
  SuccessMeansApplied
  IdleMeansReported
PROPERTIES
  ObservedNeverRegresses
