CONSTANTS
  MaxNode = 2
  MaxDepth = 3
  Plans <- AllTrees
  RedoCap = 1
  EscalationCap = 1
  MaxEpisodes = 4
  PARALLEL_LLM = 2
  CONTEXT_SIZE = 10
  Servers <- SomeServers
  MinConfidence = 75
  Continuations = 1
  MaxNewDeps = 0
  MaxRuns = 2
SPECIFICATION FairSpec
PROPERTY RunEnds
