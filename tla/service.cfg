SPECIFICATION FairSpec
CONSTANTS
  TraktEnabled = TRUE
  Workers = {w1, w2}
  Handlers = {h1}
  MaxRequests = 2
  MaxStarts = 1
  MaxFaults = 1
  AlertAfter = 1
  PingAttempts = 1
  MaxLost = 0
INVARIANT
  TypeOK
  NoLostWakeUp
  StoreOutlivesUsers
PROPERTY
  WorkGetsAWorker
  ShutdownEnds
  SyncAsAlone
CHECK_DEADLOCK FALSE
