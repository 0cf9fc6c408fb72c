SPECIFICATION FairSpec
CONSTANTS
  Movies = {m1, m2, m3, u}
  Unusable = {u}
  PageLimit = 2
  MaxPages = 2
  MaxEdits = 4
  MaxFaults = 1
  MaxStops = 1
INVARIANT
  TypeOK
  OncePerMovie
  NothingBelowCursor
PROPERTY EveryMovieScheduled
