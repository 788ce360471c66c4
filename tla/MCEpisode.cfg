SPECIFICATION FairSpec
CONSTANTS
  TurnCap = 2
  Budget = 6
  Kickoff = 1
  Large = 2
  KeepRecent = 1
  RetryLimit = 1
  SdkRetries = 1
  Web = TRUE
  MaxNotes = 1
  MaxPauses = 1
  MaxQuestions = 1
  MaxClicks = 1
INVARIANTS LateRequests PausedHolds MeasuredFits
PROPERTIES FinishWins EpisodeEnds
