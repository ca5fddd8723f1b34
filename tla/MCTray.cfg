SPECIFICATION FairTraySpec
CONSTANTS
  Units = {1, 2}
  Refreshes = {r1, r2}
  Fixes = {f1}
  MaxChanges = 2
  MaxTrouble = 1
INVARIANTS
  TrayTypeOK
PROPERTIES
  RestartsWereNeeded
  ViewSettles
  IconReturns
CHECK_DEADLOCK FALSE
