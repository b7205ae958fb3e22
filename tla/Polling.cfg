SPECIFICATION MCSpec
CONSTANTS
  k1 = k1
  k2 = k2
  Key = {k1, k2}
  Unkeyed = Unkeyed
  plain = plain
  other = other
  Exc = {plain, other}
  ClassOf <- Classes
  HeadLimit = 1
  TailLimit = 2
  Timeout = {1, 9}
  Interval = {0, 3}
  MaxClock = 2
  MaxPolls = 5
  MaxChains = 3
CHECK_DEADLOCK FALSE
INVARIANTS KeepsTheWindow TellsTheTruth UsesTheBudget AbandonedIsHeard
PROPERTY PollEnds
