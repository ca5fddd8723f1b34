SPECIFICATION FairSpec
CONSTANTS
  t1 = t1
  t2 = t2
  s1 = s1
  s2 = s2
  Tasks = {t1, t2}
  Sessions = {s1, s2}
  SessionOf <- OneSession
  Pkgs = {p, q}
  MaxCrashes = 1
INVARIANTS
  TypeOK
  MixedIsAccountedFor
  FileDescribesSystem
PROPERTIES
  AppliedIsActive
  UndoneAsTold
  ConfirmedActionsEnd
CHECK_DEADLOCK FALSE
