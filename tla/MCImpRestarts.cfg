CONSTANTS
  MaxNode = 3
  MaxDepth = 3
  Plans <- ShortPlans
  Cased = {2}
  Uncuttable = {3}
  MaxAttempts = 1
  MaxDeferrals = 1
  MaxPlannerEpisodes = 1
  MaxNewDeps = 0
  MaxEdits = 1
  MaxRuns = 2
SPECIFICATION FairSpec
PROPERTY RunEnds
