CONSTANTS
  Acceptors = {a1}
  Processors = {p1, p2}
  Responders = {r1}
  a1 = a1
  p1 = p1
  p2 = p2
  r1 = r1
  MaxJobs = 2
  MallocMayFail = TRUE
  NULL = NULL
SPECIFICATION Spec
SYMMETRY Symmetry
INVARIANTS
  TypeOK
  QueuesExclusive
  JobInOnePlace
  NoLostStop
  StoppedOnce
CONSTRAINT FailureBound
CHECK_DEADLOCK FALSE
