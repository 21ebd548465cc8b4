CONSTANTS
  d1 = d1
  t1 = t1
  Desires = {d1}
  Targets = {t1}
  TargetOf <- OneTarget
  Scopes = {s1}
  Contents = {good, bad}
  Malformed = {bad}
  Foreign = foreign
  NoDoc = NoDoc
  ApplyErrors = {"server"}
  Workers = {w1}
  MaxRev = 2
  MaxUpsets = 1
SPECIFICATION FairSpec
CHECK_DEADLOCK FALSE
PROPERTIES
  Converges
  DriftRepaired
