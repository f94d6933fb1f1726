----------------------------- MODULE BlockProbe -----------------------------
(***************************************************************************)
(* Where the bits of a key live in a blocked filter (filter_blocked.go).   *)
(*                                                                         *)
(* The high 64 bits of the key's 128-bit hash pick a block, one cache      *)
(* line; the low 64 bits are split in two 32-bit seeds that walk the       *)
(* block: the walk's i-th state gives the i-th of the k bits.              *)
(*                                                                         *)
(* The bit array is a function from word index to the set of bit numbers   *)
(* that are 1 in that word, so `|=` is a union and `&` a membership test.  *)
(* The machine's widths are parameters; in the code they are 512, 64,      *)
(* 2^32 and 2^64.                                                          *)
(***************************************************************************)
EXTENDS Integers

CONSTANTS BlockBits,    \* bits of a block: one cache line
          WordBits,     \* bits of a word of the array
          U32,          \* uint32 arithmetic wraps at U32
          U64           \* a 64-bit hash half is below U64

(***************************************************************************)
(* A block is a whole number of words, the block size divides 2^32 (both   *)
(* are powers of two), and 2^32 is even.                                   *)
(***************************************************************************)
ASSUME WidthAssumption ==
  /\ BlockBits \in Nat \ {0} /\ WordBits \in Nat \ {0}
  /\ U32 \in Nat \ {0} /\ U64 \in Nat \ {0}
  /\ BlockBits % WordBits = 0
  /\ U32 % BlockBits = 0
  /\ U32 % 2 = 0

BlockWords == BlockBits \div WordBits

\* The two halves of a 128-bit hash: hi below 2^64, lo two 32-bit halves.
HashValue == [hi : 0 .. U64 - 1, lo : 0 .. U32 * U32 - 1]

\* The fields of a filter that decide where its bits are.
FilterShape == [numBlocks : Nat \ {0}, k : Nat \ {0}, fastrange : BOOLEAN]

\* A position of the walk: first word of the block, next bit, stride.
ProbeState == [off : Nat, a : 0 .. U32 - 1, b : 0 .. U32 - 1]

-----------------------------------------------------------------------------
\* x | 1; and mutated, the stride is left even when it is.
OddDropped(x) == x

Odd(x) == x + 1 - (x % 2)

(***************************************************************************)
(* The block of a hash: Lemire's (hi * n) >> 64 for filters built by this  *)
(* version, hi % n for filters read from a v5 file.                        *)
(***************************************************************************)
BlockIndex(f, hi) ==
  IF f.fastrange THEN (hi * f.numBlocks) \div U64 ELSE hi % f.numBlocks

BlockOffsetHash(f, h) ==
  [off |-> BlockIndex(f, h.hi) * BlockWords,
   a   |-> h.lo % U32,
   b   |-> Odd(h.lo \div U32)]

(***************************************************************************)
(* One turn of the enhanced double hashing loop: a += b; b += i.           *)
(***************************************************************************)
Advance(s, i) == [s EXCEPT !.a = (s.a + s.b) % U32, !.b = (s.b + i) % U32]

\* The bit of the block that a walk state stands on: a & blockMask.
BlockBit(s) == s.a % BlockBits
WordOf(s)   == s.off + BlockBit(s) \div WordBits
BitOf(s)    == BlockBit(s) % WordBits

(***************************************************************************)
(* The walk of a hash: its state before each turn of the loop.             *)
(***************************************************************************)
Walk(f, h) ==
  LET w[i \in 0 .. f.k] == IF i = 0 THEN BlockOffsetHash(f, h)
                                    ELSE Advance(w[i - 1], i - 1)
  IN  w

\* The k (word, bit) pairs a key sets and tests.
Positions(f, h) ==
  LET w == Walk(f, h) IN {<<WordOf(w[i]), BitOf(w[i])>> : i \in 0 .. f.k - 1}

WordIndices(f) == 0 .. f.numBlocks * BlockWords - 1

BitArrays(f) == [WordIndices(f) -> SUBSET (0 .. WordBits - 1)]

\* A fresh filter: every bit is 0.
ZeroBits(f) == [w \in WordIndices(f) |-> {}]

\* All (word, bit) pairs that are 1 in a bit array.
BitsOf(words) ==
  {p \in (DOMAIN words) \X (0 .. WordBits - 1) : p[2] \in words[p[1]]}
=============================================================================
