CONSTANTS
  x = x
  s1 = s1
  Name = {x}
  File = {f, g}
  Session = {s1}
  Leaf = {k1, k2}
  NoLeaf = NoLeaf
  NoSession = NoSession
  Thread = {t1, t2}
  SessionOf <- OneSession
  MaxCommits = 3
  MaxWrites = 2
  Start <- Starts
  Written <- Texts
SYMMETRY Alike
SPECIFICATION Spec
INVARIANTS DoneWorkOnDisk
PROPERTIES RealCodeKept
CHECK_DEADLOCK FALSE
