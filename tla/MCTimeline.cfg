SPECIFICATION Spec
CONSTANTS
  Units = {nginx}
  Clients = {tray, hub}
  Limits = {1, 2}
  Cap = 2
  Retention = 0
  MaxRows = 3
  MaxTime = 2
  MaxChanges = 2
  MaxFaults = 1
INVARIANTS
  TypeOK
  TransitionsAlternate
  PagesAreComplete
  StreakIsNotFlattered
SYMMETRY Alike
CHECK_DEADLOCK FALSE
