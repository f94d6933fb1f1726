\* Filters saved and loaded across hosts, versions, crashes and short writes.
SPECIFICATION Spec
CONSTANTS
  little = little
  big = big
  k1 = k1
  k2 = k2
  xxh3 = xxh3
  custom = custom
  h1 = h1
  h2 = h2
  r1 = r1
  new = new
  v5 = v5
  v4 = v4
  other = other
  BlockBits = 4
  WordBits = 4
  ByteBits = 2
  U32 = 4
  U64 = 4
  Procs = {little, big}
  BigEndian = {big}
  Keys = {k1, k2}
  Hashed = {}
  Seeds = {0}
  BuiltIn = {xxh3}
  Custom = {}
  Hashers = {h1, h2}
  HasherOf <- MCHasherOf
  MayRegister <- None
  HashOf <- MCHashOf
  RawHash <- NoRawHash
  Sizes <- MCSizes
  Streams = {new, v5, v4, other}
  Archive <- MCArchive
  MagicBytes = 8
  HeaderBytes = 40
  Cuts <- MCCuts
  NoKind = NoKind
  NoHasher = NoHasher
INVARIANTS
  TypeOK
  NoFalseNegatives
  EqualAnswersAlike
PROPERTIES
  FailedReadLeavesReceiver
  ReloadsWhatWasWritten
