SPECIFICATION FairSpec
CONSTANTS
  Conns = {c1, c2}
  NoOne = NoOne
  MaxCrashes = 0
PROPERTIES
  HungRebuildsAreKilled
CHECK_DEADLOCK FALSE
