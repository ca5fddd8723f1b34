SPECIFICATION Spec
CONSTANTS
  t1 = t1
  t2 = t2
  s1 = s1
  s2 = s2
  Tasks = {t1, t2}
  Sessions = {s1, s2}
  SessionOf <- TwoSessions
  Pkgs = {p, q}
  MaxCrashes = 0
PROPERTIES
  BuildFailureRollsNothingBack
CHECK_DEADLOCK FALSE
