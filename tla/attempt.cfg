SPECIFICATION FairSpec
CONSTANTS
  Trackers = 2
  Configs <- MCConfigs
  Torrents <- MCTorrents
  Pages <- MCPages
  None = None
  MaxAttempts = 4
  BaseSeconds = 2
  MaxBackoff = 5
  MaxStops = 1
  MaxFaults = 1
INVARIANT
  TypeOK
  BestReleaseTaken
  MockbustersKeptOut
  SilenceIsTheAnswer
  RetryableNotFinal
PROPERTY
  BackoffGrows
  AttemptEnds
  ImplementsQueue
CHECK_DEADLOCK FALSE
