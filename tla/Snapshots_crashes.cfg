CONSTANTS
  i1 = i1
  i2 = i2
  i3 = i3
  Ids <- ThreeIds
  Labels = {"none", "named"}
  MaxSnapshots = 1
  MaxQueue = 2
  MaxContexts = 2
  OldFiles <- Stores
  Absent = Absent
  Empty = Empty
  Torn = Torn
SPECIFICATION Spec
SYMMETRY Interchangeable
INVARIANTS TypeOK FileIntact SettledMeansSaved
PROPERTY DurableUnlessDisturbed
