CONSTANTS
  d1 = d1
  t1 = t1
  Desires = {d1}
  Targets = {t1}
  TargetOf <- OneTarget
  Scopes = {s1, s2}
  Contents = {good}
  Malformed = {}
  Foreign = foreign
  NoDoc = NoDoc
  ApplyErrors = {"server"}
  Workers = {w1, w2}
  MaxRev = 2
  MaxUpsets = 0
SPECIFICATION Spec
CHECK_DEADLOCK FALSE
PROPERTIES
  RetriedAfterConflict
