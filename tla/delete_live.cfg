CONSTANTS
  d1 = d1
  t1 = t1
  Desires = {d1}
  Targets = {t1}
  TargetOf <- OneTarget
  NoDoc = NoDoc
  ApiErrors = {"server"}
  Workers = {w1}
  MaxRev = 1
  MaxUID = 2
  MaxRestarts = 1
SPECIFICATION FairSpec
CHECK_DEADLOCK FALSE
PROPERTIES
  StatusCatchesUp
  DeletedForGood
