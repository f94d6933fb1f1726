\* Every stride of a 512-bit block, up to k = 20.
SPECIFICATION Spec
CHECK_DEADLOCK FALSE
CONSTANTS
  BlockBits = 512
  WordBits = 64
  U32 = 1024
  U64 = 1024
  MaxK = 20
INVARIANT
  NearlyDistinct
