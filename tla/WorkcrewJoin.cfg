CONSTANTS
  Acceptors = {a1}
  Processors = {p1}
  Responders = {r1}
  a1 = a1
  p1 = p1
  r1 = r1
  MaxJobs = 1
  MallocMayFail = FALSE
  NULL = NULL
SPECIFICATION FairSpec
PROPERTIES
  JoinReturns
CHECK_DEADLOCK FALSE
