SPECIFICATION FairSpec
CONSTANTS
  Remote = {"bridge"}
  MaxRequests = 2
  MaxSessions = 2
INVARIANT StoreKept
PROPERTIES OnceInOrder QueuedRun SignalsHeeded
