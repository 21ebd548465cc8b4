CONSTANTS
  Desires = {d1}
  Scopes = {s1}
  Targets = {t1, t2}
  NoTarget = noTarget
  Unlistable = {}
  NoDoc = NoDoc
  Inexact = {2}
  MaxRev = 2
  MaxChanges = 1
  MaxRestarts = 1
SPECIFICATION Spec
CHECK_DEADLOCK FALSE
SYMMETRY TargetSymmetry
INVARIANTS
  TypeOK
  IdleMeansWatched
PROPERTIES
  NoBlindOverwrite
