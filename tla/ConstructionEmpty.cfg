\* Filters built for no keys.
SPECIFICATION BuildSpec
CHECK_DEADLOCK FALSE
CONSTANTS
  xxh3 = xxh3
  murmur3 = murmur3
  siphash = siphash
  BlockBits = 4
  MaxK = 2
  Limit = 8
  MaxBits = 255
  Estimates <- MCEstimates
  Calls <- EmptyCalls
  Ln2 <- MCLn2
  NaNAsUint <- MCNaN
  SimdBlockBits = 2
  Kinds = {xxh3, murmur3, siphash}
  XXH3 = xxh3
  SipHash = siphash
  Bases <- MCBases
INVARIANT
  OptimalHashCount
