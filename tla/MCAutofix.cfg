SPECIFICATION FairSpec
CONSTANTS
  backup = backup
  dock = dock
  sync = sync
  Units = {backup, dock}
  NameOf <- OneName
  ScopeOf <- TwoScopes
  NoUnit = NoUnit
  MaxAttempts = 1
  SystemAllowed = TRUE
  Limit = 2
  MaxFailures = 3
  MaxFaults = 2
INVARIANTS
  TypeOK
  LoopGuard
PROPERTIES
  OnlyNewFailuresAreHandled
  NewFailuresAreAnswered
CHECK_DEADLOCK FALSE
