\* Filters replaced under traffic, by ReadFrom under a lock or by a swap.
SPECIFICATION FairSpec
CONSTANTS
  x = x
  y = y
  BlockBits = 4
  WordBits = 2
  U32 = 4
  U64 = 4
  Objs = {o1, o2, o3}
  First = o1
  Readers = {r1, r2}
  Keys = {x, y}
  Seeds = {0, 1}
  Hash <- MCHash
  Versions <- MCVersions
  MaxReplaced = 2
INVARIANTS
  TypeOK
  NoIndexOutOfRange
  AnswersOfOneVersion
  NoFalseNegatives
PROPERTIES
  ReplacesAtomically
  SwapBlocksNoTest
