SPECIFICATION FairSpec
CONSTANTS
  Movies = {m1, m2, m3}
  Unusable = {}
  PageLimit = 1
  MaxPages = 2
  MaxEdits = 3
  MaxFaults = 0
  MaxStops = 0
PROPERTY ImportContinues
