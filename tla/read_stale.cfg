CONSTANTS
  Desires = {d1}
  Scopes = {s1}
  Targets = {t1}
  NoTarget = noTarget
  Unlistable = {}
  NoDoc = NoDoc
  Inexact = {2}
  MaxRev = 2
  MaxChanges = 0
  MaxRestarts = 0
SPECIFICATION FairSpec
CHECK_DEADLOCK FALSE
PROPERTIES
  Converges
