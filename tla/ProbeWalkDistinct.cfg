\* The comment on the stride: all k probes are distinct.
SPECIFICATION Spec
CHECK_DEADLOCK FALSE
CONSTANTS
  BlockBits = 512
  WordBits = 64
  U32 = 1024
  U64 = 1024
  MaxK = 20
INVARIANT
  ProbesDistinct
