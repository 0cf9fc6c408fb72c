SPECIFICATION FairSpec
CONSTANTS
  MaxPairs = 4
  MaxRelinks = 1
  MaxEdits = 2
  MaxCrashes = 1
  MaxFaults = 2
INVARIANT
  TypeOK
  GrantKept
  RefreshStartsFromLive
  SettingsSurvive
PROPERTY HeldPairStored
