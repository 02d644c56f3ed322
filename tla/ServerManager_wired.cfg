CONSTANTS
  p1 = p1
  p2 = p2
  c1 = c1
  c2 = c2
  c3 = c3
  None = None
  Ports = {p1, p2}
  Polls = {c1, c2, c3}
  MissThreshold = 2
  BackoffThreshold = 2
  BackoffCycles = 2
SPECIFICATION Spec
SYMMETRY Interchangeable
INVARIANTS NoticesAreReal ScansGoOn ActiveFollowsList
PROPERTY DetectedOnce
