CONSTANTS
  r1 = r1
  bye = bye
  Request <- Typed
  ExitWord <- Leaving
  Goal = goal
  Fix = fix
  MaxReviewIterations = 2
  Reports = 1
  MaxEdits = 1
  MaxRuns = 2
SPECIFICATION FairSpec
INVARIANTS CompleteMeansDone RequestsKept
PROPERTY ComesToRest
