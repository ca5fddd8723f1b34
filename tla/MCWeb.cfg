SPECIFICATION FairSpec
CONSTANTS
  Streams = {s1}
  MaxSessions = 2
  MaxPrompts = 3
INVARIANTS
  TypeOK
  AnswersAreReal
PROPERTIES
  AbandonedStreamsEnd
  LostQueriesEnd
CHECK_DEADLOCK FALSE
