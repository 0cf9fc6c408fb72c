SPECIFICATION Spec
CONSTANTS
  Trackers = 2
  Configs <- MCConfigs
  Torrents <- MCTorrents
  Pages <- MCPages
  None = None
  MaxAttempts = 4
  BaseSeconds = 2
  MaxBackoff = 5
  MaxStops = 1
  MaxFaults = 1
INVARIANT
  NotFoundOnlyIfAllAnswered
CHECK_DEADLOCK FALSE
