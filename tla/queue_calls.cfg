SPECIFICATION Spec
CONSTANTS
  Requests = {r1}
  Workers = {w1, w2}
  Operators = {o1, o2}
  Queries = {q1}
  Releases = {t1, t2}
  None = None
  DuplicateCheck = FALSE
  Watched = TRUE
  MaxAttempts = 2
  MaxCalls = 3
  MaxStops = 1
  MaxFaults = 1
SYMMETRY Symmetry
INVARIANT OneWorkerPerRequest
PROPERTY ImplementsLifecycle
CHECK_DEADLOCK FALSE
