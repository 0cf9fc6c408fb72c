SPECIFICATION FairSpec
CONSTANTS
  Callers = {c1, c2, c3}
  None = None
  Credentials = TRUE
  MaxCalls = 4
  MaxExpiries = 2
  MaxFaults = 2
INVARIANT
  TypeOK
  EnsureLogsInOnce
  NoFalseRejection
PROPERTY EveryCallReturns
CHECK_DEADLOCK FALSE
