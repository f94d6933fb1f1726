\* Every constructor: options, estimates or a search, hash, aligned array.
SPECIFICATION FairBuildSpec
CHECK_DEADLOCK FALSE
CONSTANTS
  xxh3 = xxh3
  murmur3 = murmur3
  siphash = siphash
  BlockBits = 4
  MaxK = 2
  Limit = 8
  MaxBits = 255
  Estimates <- MCEstimates
  Calls <- MCCalls
  Ln2 <- MCLn2
  NaNAsUint <- MCNaN
  SimdBlockBits = 2
  Kinds = {xxh3, murmur3, siphash}
  XXH3 = xxh3
  SipHash = siphash
  Bases <- MCBases
INVARIANTS
  BuildTypeOK
  OwnCacheLine
  RoundsUp
  LastOptionWins
  TunedMeetsTarget
  TunedIsCheapest
PROPERTY
  ConstructionEnds
