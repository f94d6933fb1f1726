\* Two goroutines that insert, test and deduplicate under a RWMutex.
SPECIFICATION Spec
CONSTANTS
  k1 = k1
  k2 = k2
  Goroutines = {g1, g2}
  Writers = {g1, g2}
  Locking = TRUE
  Keys = {k1, k2}
  Hasher <- MCHasher
  Sizes <- MCSizes
  U64 = 16
  WordBits = 4
INVARIANTS
  TypeOK
  NoFalseNegatives
  TestAndAddAnswersBefore
PROPERTIES
  OneNewcomer
  Refines
