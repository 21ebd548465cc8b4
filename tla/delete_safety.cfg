CONSTANTS
  d1 = d1
  t1 = t1
  Desires = {d1}
  Targets = {t1}
  TargetOf <- OneTarget
  NoDoc = NoDoc
  ApiErrors = {"client", "server"}
  Workers = {w1, w2}
  MaxRev = 2
  MaxUID = 2
  MaxRestarts = 1
SPECIFICATION Spec
CHECK_DEADLOCK FALSE
SYMMETRY WorkerSymmetry
INVARIANTS
  TypeOK
  SuccessMeansWasGone
  IdleMeansReported
PROPERTIES
  ReportsNeverRegress
