SPECIFICATION Spec
CONSTANTS
  Process = {"p", "q"}
  Manager = {"run", "look", "other"}
  Home <- MCHome
  NoProcess = "nobody"
  Runner = {"run", "other"}
  Ids = {"s1", "s2", "old"}
  OldId = {"old"}
  Thread = {"main", "worker"}
  Command = {"x", "y"}
  NoSession = "no session"
  MaxRows = 3
INVARIANTS RowsInOrder HistoryKept OneGoal VerifiedHere
PROPERTIES OneProcessAtATime
