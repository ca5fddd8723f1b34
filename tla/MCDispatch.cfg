SPECIFICATION FairSpec
CONSTANTS
  q1 = q1
  q2 = q2
  q3 = q3
  web = web
  tray = tray
  talk = talk
  Queries = {q1, q2, q3}
  Conns = {web, tray}
  ConnOf <- TwoPeers
  Sessions = {talk}
  SessionOf <- OneSession
INVARIANTS
  TypeOK
  ConsentFirst
PROPERTIES
  TurnsAreAnswered
  SecondTerminalNeedsStall
  QueriesEnd
CHECK_DEADLOCK FALSE
