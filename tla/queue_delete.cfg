SPECIFICATION Spec
CONSTANTS
  Requests = {r1}
  Workers = {w1}
  Operators = {o1}
  Queries = {q1}
  Releases = {t1}
  None = None
  DuplicateCheck = TRUE
  Watched = TRUE
  MaxAttempts = 2
  MaxCalls = 1
  MaxStops = 0
  MaxFaults = 0
INVARIANT DeleteLeavesNoFile
CHECK_DEADLOCK FALSE
