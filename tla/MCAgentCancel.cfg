SPECIFICATION FairSpec
CONSTANTS
  Queries = {q1, q2}
  Sessions = {s1, s2}
  MaxRounds = 2
  MaxCalls = 2
PROPERTY CancelStopsTheLoop
CHECK_DEADLOCK FALSE
