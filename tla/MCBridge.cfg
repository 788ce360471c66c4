CONSTANTS
  MaxSessions = 2
  MaxQuestions = 3
  MaxSent = 2
SPECIFICATION FairSpec
PROPERTY StopEnds
INVARIANTS ActedOnce LeftoversIgnored AnswersMeet
CHECK_DEADLOCK FALSE
