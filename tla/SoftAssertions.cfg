SPECIFICATION Spec
CONSTANTS
  Task = {main, co, th}
  Main = main
  Threaded = {th}
  CopiesContext = FALSE
  Block = {b1, b2, b3}
  Failure = {f1}
  Builder = {a1}
  Label = {}
  NoBlock = NoBlock
  NoLabel = NoLabel
  MaxDepth = 3
SYMMETRY Symmetric
INVARIANTS
  TypeOK
  NoOrphanedFailure
  ListeningHasOneOwner
  OwnerCollectsHere
PROPERTIES
  KeepsLedger
CHECK_DEADLOCK FALSE
