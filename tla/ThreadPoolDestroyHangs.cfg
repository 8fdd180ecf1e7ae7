SPECIFICATION FairSpec
CONSTANTS
  Workers = {w1, w2, w3}
  Clients = {c1}
  Jobs = {j1, j2}
  None = None
  Minimum = 1
  Maximum = 2
  LingerZero = FALSE
  CreateMayFail = FALSE
PROPERTIES DestroyReturns
CHECK_DEADLOCK FALSE
