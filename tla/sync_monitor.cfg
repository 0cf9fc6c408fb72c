SPECIFICATION FairSpec
CONSTANTS
  AlertAfter = 5
  PingAttempts = 3
  MaxStarts = 3
  MaxLost = 4
INVARIANT
  TypeOK
  BlipUnnoticed
PROPERTY
  AlertsOnStreakOnly
  MonitorCatchesUp
CHECK_DEADLOCK FALSE
