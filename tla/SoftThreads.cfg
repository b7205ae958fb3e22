SPECIFICATION Spec
CONSTANTS
  Task = {main, th}
  Main = main
  Threaded = {th}
  CopiesContext = TRUE
  Block = {b1}
  Failure = {f1}
  Builder = {a1}
  Label = {}
  NoBlock = NoBlock
  NoLabel = NoLabel
  MaxDepth = 1
INVARIANTS
  NoOrphanedFailure
CHECK_DEADLOCK FALSE
