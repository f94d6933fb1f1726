\* Two goroutines that both insert and test, every call under a RWMutex:
\* safety, the refinement, and that every call returns.
SPECIFICATION FairSpec
CONSTANTS
  k1 = k1
  k2 = k2
  k3 = k3
  k4 = k4
  BlockBits = 8
  WordBits = 4
  U32 = 16
  U64 = 4
  Goroutines = {g1, g2}
  Writers = {g1, g2}
  Locking = TRUE
  Keys <- MCKeys
  Hash <- MCHash
  Batches <- MCBatches
  Shape <- MCShape
  BatchWindow = 2
INVARIANTS
  TypeOK
  NoFalseNegatives
  ExactBits
  BatchAgreesWithTest
  EveryKeyAnswered
PROPERTIES
  Refines
  EveryCallReturns
