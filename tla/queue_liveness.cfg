SPECIFICATION FairSpec
CONSTANTS
  Requests = {r1, r2}
  Workers = {w1}
  Operators = {o1}
  Queries = {q1}
  Releases = {t1}
  None = None
  DuplicateCheck = TRUE
  Watched = FALSE
  MaxAttempts = 2
  MaxCalls = 1
  MaxStops = 1
  MaxFaults = 0
PROPERTY EverySubmissionSettles
CHECK_DEADLOCK FALSE
