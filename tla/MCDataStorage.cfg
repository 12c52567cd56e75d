\* Pushes beside overlapping exports and renderings.
CONSTANTS
  Workers = {w1, w2}
  None = None
  SerialMod = 4
  IdMod = 2
  SsePeriod = 2
  BlobPeriod = 2
  MaxPending = 3
  MaxPool = 1
SYMMETRY WorkerSymmetry
SPECIFICATION Spec
INVARIANTS DrainTakesAll FreshWave ExportsInOrder
PROPERTIES FeedSpec
CHECK_DEADLOCK FALSE
