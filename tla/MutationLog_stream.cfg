CONSTANTS
  w1 = w1
  w2 = w2
  p1 = p1
  a = a
  b = b
  Writers = {w1, w2}
  Panels = {p1}
  Tables = {a, b}
  TableOf <- OneTableEach
  Capacity = 2
  MaxId = 3
  MaxLife = 1
SPECIFICATION FairSpec
INVARIANT NoLostWakeup
INVARIANT NothingSkipped
PROPERTY NothingRepeated
PROPERTY WritesLight
PROPERTY CatchesUp
