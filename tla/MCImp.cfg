CONSTANTS
  MaxNode = 4
  MaxDepth = 3
  Plans <- AllPlans
  Cased = {2}
  Uncuttable = {4}
  MaxAttempts = 1
  MaxDeferrals = 1
  MaxPlannerEpisodes = 2
  MaxNewDeps = 1
  MaxEdits = 1
  MaxRuns = 1
SPECIFICATION Spec
INVARIANTS ParentLast NothingLost VouchedFor
PROPERTIES DependenciesFirst ReopenedForCause
