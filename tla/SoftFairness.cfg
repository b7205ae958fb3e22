SPECIFICATION FairSpec
CONSTANTS
  Task = {main, co}
  Main = main
  Threaded = {}
  CopiesContext = FALSE
  Block = {b1, b2}
  Failure = {f1}
  Builder = {a1}
  Label = {l1, l2}
  NoBlock = NoBlock
  NoLabel = NoLabel
  MaxDepth = 2
INVARIANTS
  GroupInEffect
PROPERTIES
  EventuallyTold
CHECK_DEADLOCK FALSE
