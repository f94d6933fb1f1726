\* One goroutine inserts, without a lock, while two others test, on a filter
\* from a v5 file and in windows of one key.
SPECIFICATION Spec
CONSTANTS
  k1 = k1
  k2 = k2
  k3 = k3
  k4 = k4
  BlockBits = 8
  WordBits = 4
  U32 = 16
  U64 = 4
  Goroutines = {g1, g2, g3}
  Writers = {g1}
  Locking = FALSE
  Keys <- MCKeys
  Hash <- MCHash
  Batches <- MCTwoBatches
  Shape <- MCShapeV5
  BatchWindow = 1
INVARIANTS
  NoFalseNegatives
  IInv
