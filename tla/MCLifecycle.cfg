SPECIFICATION FairSpec
CONSTANTS
  Conns = {c1, c2}
  Tasks = {w1, w2, w3}
  Daemon = Daemon
  Monitors = Monitors
  None = None
INVARIANTS
  TypeOK
  OnlyStubbornTasksOutliveTheStore
  PromptsEndWithTheirClient
PROPERTY
  ShutdownEnds
CHECK_DEADLOCK FALSE
