CONSTANTS
  Case = {c1, c2}
  Value = {"v", "w"}
  FileValue = "v"
  Screen = {"home"}
  Frame = {x, y}
  Caller = {t1, t2}
  MaxNumber = 2
  MaxChanges = 3
SYMMETRY Alike
SPECIFICATION EvidenceSpec
INVARIANT NoTwins
PROPERTIES RenamesKeep AcceptedStands
CHECK_DEADLOCK FALSE
