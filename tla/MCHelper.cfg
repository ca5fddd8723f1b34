SPECIFICATION FairSpec
CONSTANTS
  Conns = {c1, c2, c3}
  NoOne = NoOne
  MaxCrashes = 1
INVARIANTS
  TypeOK
  OneLiveRebuildPerIncarnation
PROPERTIES
  HonestExit
  LiveUnitsAreSpared
  RequestsEnd
  ImplementsService
CHECK_DEADLOCK FALSE
