SPECIFICATION Spec
CONSTANTS
  Workers = {w1, w2, w3, w4}
  Clients = {c1, c2}
  Jobs = {j1, j2, j3, j4}
  None = None
  Minimum = 1
  Maximum = 3
  LingerZero = FALSE
  CreateMayFail = TRUE
SYMMETRY Symmetry
INVARIANTS TypeOK CountersOK NoLostJobSignal  FreedMeansQuiet
PROPERTIES ImplementsService
CHECK_DEADLOCK FALSE
