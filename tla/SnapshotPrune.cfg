SPECIFICATION Spec
CONSTANTS
  w1 = w1
  w2 = w2
  Worker = {w1, w2}
  Mortal = {w2}
  Controller = controller
  k1 = k1
  k2 = k2
  Key = {k1, k2}
  a = a
  b = b
  Value = {a, b}
  Mode <- Modes
  Absent = Absent
  Nobody = Nobody
  MaxCalls = 1
CHECK_DEADLOCK FALSE
PROPERTY UsedIsKept
