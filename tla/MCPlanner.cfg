CONSTANTS
  MaxNode = 3
  MaxDepth = 3
  Plans <- AllTrees
  RedoCap = 1
  EscalationCap = 1
  MaxEpisodes = 2
  PARALLEL_LLM = 2
  CONTEXT_SIZE = 10
  Servers <- SomeServers
  MinConfidence = 75
  Continuations = 1
  MaxNewDeps = 1
  MaxRuns = 1
SPECIFICATION InterruptedSpec
INVARIANTS DependenciesSound ParentsReopened EpisodesBounded
PROPERTIES FinishedKept RewritesAreJudged
