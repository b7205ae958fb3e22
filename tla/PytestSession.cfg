SPECIFICATION Spec
CONSTANTS
  c1 = c1
  c2 = c2
  c3 = c3
  c4 = c4
  old = old
  a = a
  b = b
  x = x
  s1 = s1
  f1 = f1
  f2 = f2
  f3 = f3
  t1 = t1
  t2 = t2
  Text = {old, a, b}
  NoText = NoText
  Comma = comma
  Call = {c1, c2, c3, c4}
  Empty = {c1, c3, c4}
  WithArgs = {c1}
  ExampleLimit = 1
  MaxClusters = 2
  Absent = 9
  Worker = {w1, w2}
  Controller = ctl
  Mortal = {w2}
  Foreign = {w1}
  File = {f1, f2, f3}
  Rooted = {f1, f3}
  Installed = {f3}
  Source <- MCSource
  Edit = edit
  Case <- MCCase
  Suite <- MCSuite
  NoReach = NoReach
  NoKey = NoKey
  Minimum = 2
  Escalated = TRUE
  MaxRuns = 3
  MaxEdits = 1
INVARIANTS
  LiteralsHold
  NothingDropped
  SummaryIsHonest
  SweepIsExact
CHECK_DEADLOCK FALSE
