SPECIFICATION Spec
CONSTANTS
  Requests = {r1, r2}
  Workers = {w1, w2}
  Operators = {o1}
  Queries = {q1}
  Releases = {t1}
  None = None
  DuplicateCheck = TRUE
  Watched = TRUE
  MaxAttempts = 2
  MaxCalls = 1
  MaxStops = 1
  MaxFaults = 1
SYMMETRY Symmetry
INVARIANT
  TypeOK
  DownloadedOnDisk
  NoStrandedRequest
  AttemptBudget
  NoLitter
PROPERTY TerminalRests
CHECK_DEADLOCK FALSE
