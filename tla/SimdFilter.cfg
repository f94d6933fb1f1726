\* Two goroutines that both insert and test under a RWMutex, on a processor
\* with AVX2 and on one without.
SPECIFICATION Spec
CONSTANTS
  k1 = k1
  k2 = k2
  k3 = k3
  k4 = k4
  Goroutines = {g1, g2}
  Writers = {g1, g2}
  Locking = TRUE
  Keys = {k1, k2, k3, k4}
  Hash <- MCHash
  Batches <- MCBatches
  BatchWindow = 2
  NumBlocks = 2
  SimdLanes = 2
  LaneBits = 4
  U32 = 16
  IdxShift = 2
  Salt <- MCSalt
INVARIANTS
  TypeOK
  NoFalseNegatives
  ScalarLayout
  BatchAgreesWithTest
PROPERTY
  Refines
