SPECIFICATION ToolsSpec
CONSTANTS
  e1 = e1
  e2 = e2
  add = add
  app_py = app_py
  spec_py = spec_py
  total = total
  Thread = {e1, e2}
  MaxNode = 5
  Function = {add}
  File = {app_py, spec_py}
  TestNamed = {spec_py}
  Misplaced <- Apart
  Case = {total}
  Batches <- SomeBatches
  MaxHandle = 2
  MaxCalls = 3
INVARIANTS EndedIsGone CasesHaveOneOwner
CHECK_DEADLOCK FALSE
