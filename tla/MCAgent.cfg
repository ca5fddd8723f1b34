SPECIFICATION Spec
CONSTANTS
  Queries = {q1, q2}
  Sessions = {s1, s2}
  MaxRounds = 2
  MaxCalls = 2
INVARIANTS
  TypeOK
  SwitchIsTested
  OnlyReviewedLeaves
SYMMETRY Alike
CHECK_DEADLOCK FALSE
