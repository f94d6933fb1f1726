-------------------------- MODULE BlockProbeProofs --------------------------
(***************************************************************************)
(* The walk of a key is well defined, and every bit it visits is a bit of  *)
(* the array, for all block, word and integer widths and every hash.       *)
(***************************************************************************)
EXTENDS BlockProbe, WellFoundedInduction, TLAPS

-----------------------------------------------------------------------------
(***************************************************************************)
(* Arithmetic.                                                             *)
(***************************************************************************)
LEMMA ModRange ==
  ASSUME NEW x \in Int, NEW m \in Nat \ {0}
  PROVE  x % m \in 0 .. m - 1
OBVIOUS

LEMMA DivBelow ==
  ASSUME NEW x \in Nat, NEW m \in Nat \ {0}, NEW n \in Nat, x < m * n
  PROVE  x \div m \in Nat /\ x \div m < n
OBVIOUS

LEMMA OddRange ==
  ASSUME NEW m \in Nat \ {0}, m % 2 = 0, NEW x \in 0 .. m - 1
  PROVE  Odd(x) \in 1 .. m - 1
BY DEF Odd

(***************************************************************************)
(* A block is BlockWords whole words.                                      *)
(***************************************************************************)
LEMMA BlockWordsFact ==
  BlockWords \in Nat \ {0} /\ BlockBits = WordBits * BlockWords
BY WidthAssumption DEF BlockWords

-----------------------------------------------------------------------------
(***************************************************************************)
(* Induction on the natural numbers, as the least element of a set.        *)
(***************************************************************************)
LEMMA LeastNat ==
  ASSUME NEW T \in SUBSET Nat, T # {}
  PROVE  \E x \in T : \A y \in T : x <= y
<1>1. \E x \in T : \A y \in T : ~(<<y, x>> \in OpToRel(<, Nat))
  BY WFMin, NatLessThanWellFounded
<1>2. PICK x \in T : \A y \in T : ~(<<y, x>> \in OpToRel(<, Nat))
  BY <1>1
<1>3. \A y \in T : <<y, x>> \in Nat \X Nat
  OBVIOUS
<1>4. \A y \in T : ~(y < x)
  BY <1>2, <1>3 DEF OpToRel
<1> QED
  BY <1>4

-----------------------------------------------------------------------------
(***************************************************************************)
(* The states of a walk.                                                   *)
(***************************************************************************)
LEMMA BlockIndexRange ==
  ASSUME NEW f \in FilterShape, NEW hi \in 0 .. U64 - 1
  PROVE  BlockIndex(f, hi) \in 0 .. f.numBlocks - 1
<1>1. f.numBlocks \in Nat \ {0} /\ U64 \in Nat \ {0} /\ hi \in Nat /\ hi < U64
  BY WidthAssumption DEF FilterShape
<1>2. CASE f.fastrange
  <2>1. hi * f.numBlocks \in Nat /\ hi * f.numBlocks < U64 * f.numBlocks
    BY <1>1
  <2>2. (hi * f.numBlocks) \div U64 \in Nat /\ (hi * f.numBlocks) \div U64 < f.numBlocks
    BY <1>1, <2>1, DivBelow
  <2> QED
    BY <1>1, <1>2, <2>2 DEF BlockIndex
<1>3. CASE ~f.fastrange
  BY <1>1, <1>3, ModRange DEF BlockIndex
<1> QED
  BY <1>2, <1>3

LEMMA WalkStart ==
  ASSUME NEW f \in FilterShape, NEW h \in HashValue
  PROVE  /\ BlockOffsetHash(f, h) \in ProbeState
         /\ BlockOffsetHash(f, h).off = BlockIndex(f, h.hi) * BlockWords
<1>0. U32 \in Nat \ {0}
  BY WidthAssumption
<1>1. h.hi \in 0 .. U64 - 1 /\ h.lo \in Nat /\ h.lo < U32 * U32
  BY <1>0 DEF HashValue
<1>2. BlockIndex(f, h.hi) * BlockWords \in Nat
  BY <1>1, BlockIndexRange, BlockWordsFact
<1>3. h.lo % U32 \in 0 .. U32 - 1
  <2>1. h.lo \in Int
    BY <1>1
  <2> QED
    BY <1>0, <2>1, ModRange, Zenon
<1>4. h.lo \div U32 \in 0 .. U32 - 1
  <2>1. h.lo \div U32 \in Nat /\ h.lo \div U32 < U32
    BY <1>0, <1>1, DivBelow
  <2> QED
    BY <1>0, <2>1
<1>5. Odd(h.lo \div U32) \in 0 .. U32 - 1
  BY <1>4, WidthAssumption, OddRange
<1> QED
  BY <1>2, <1>3, <1>5 DEF BlockOffsetHash, ProbeState

LEMMA AdvanceType ==
  ASSUME NEW s \in ProbeState, NEW i \in Nat
  PROVE  Advance(s, i) \in ProbeState /\ Advance(s, i).off = s.off
<1>1. s.a + s.b \in Int /\ s.b + i \in Int
  BY WidthAssumption DEF ProbeState
<1>2. (s.a + s.b) % U32 \in 0 .. U32 - 1 /\ (s.b + i) % U32 \in 0 .. U32 - 1
  BY <1>1, WidthAssumption, ModRange
<1> QED
  BY <1>2 DEF Advance, ProbeState

(***************************************************************************)
(* The recursive definition of the walk has a solution: else there is a    *)
(* shortest walk without one, and a shorter walk extends to it.            *)
(***************************************************************************)
Solves(s, w, n) ==
  w = [i \in 0 .. n |-> IF i = 0 THEN s ELSE Advance(w[i - 1], i - 1)]

LEMMA WalkExists ==
  ASSUME NEW s, NEW n \in Nat
  PROVE  \E w : Solves(s, w, n)
<1> DEFINE T == {m \in Nat : ~ \E w : Solves(s, w, m)}
<1>1. SUFFICES ASSUME n \in T PROVE FALSE
  OBVIOUS
<1>2. PICK m \in T : \A y \in T : m <= y
  BY <1>1, LeastNat
<1>3. CASE m = 0
  <2>1. Solves(s, [i \in 0 .. 0 |-> s], 0)
    BY DEF Solves
  <2> QED
    BY <1>2, <1>3, <2>1
<1>4. CASE m # 0
  <2>1. m \in Nat /\ m - 1 \in Nat
    BY <1>4
  <2>2. PICK w : Solves(s, w, m - 1)
    <3>1. m - 1 \notin T
      <4> HIDE DEF T
      <4> QED
        BY <1>2, <2>1
    <3> QED
      BY <2>1, <3>1
  <2> DEFINE v == [i \in 0 .. m |-> IF i = m THEN Advance(w[m - 1], m - 1) ELSE w[i]]
  <2>3. \A i \in 0 .. m : v[i] = IF i = 0 THEN s ELSE Advance(v[i - 1], i - 1)
    <3>1. TAKE i \in 0 .. m
    <3>2. CASE i = m
      <4>1. v[i] = Advance(w[m - 1], m - 1)
        BY <3>2
      <4>2. m - 1 \in 0 .. m /\ m - 1 # m
        BY <2>1
      <4>3. v[m - 1] = w[m - 1]
        BY <4>2
      <4> QED
        BY <1>4, <3>2, <4>1, <4>3
    <3>3. CASE i # m
      <4>1. i \in 0 .. m - 1 /\ v[i] = w[i]
        BY <2>1, <3>1, <3>3
      <4>2. w[i] = IF i = 0 THEN s ELSE Advance(w[i - 1], i - 1)
        BY <2>2, <4>1 DEF Solves
      <4>3. CASE i # 0
        <5>1. i - 1 \in 0 .. m /\ i - 1 # m
          BY <2>1, <4>1, <4>3
        <5>2. v[i - 1] = w[i - 1]
          BY <5>1
        <5> QED
          BY <4>1, <4>2, <4>3, <5>2
      <4> QED
        BY <4>1, <4>2, <4>3
    <3> QED
      BY <3>2, <3>3
  <2>4. Solves(s, v, m)
    BY <2>3 DEF Solves
  <2> QED
    BY <1>2, <2>4
<1> QED
  BY <1>3, <1>4

(***************************************************************************)
(* What a walk is, turn by turn.                                           *)
(***************************************************************************)
LEMMA WalkTurns ==
  ASSUME NEW f \in FilterShape, NEW h
  PROVE  /\ Walk(f, h) = [i \in 0 .. f.k |-> Walk(f, h)[i]]
         /\ Walk(f, h)[0] = BlockOffsetHash(f, h)
         /\ \A i \in 0 .. f.k - 1 : Walk(f, h)[i + 1] = Advance(Walk(f, h)[i], i)
<1> DEFINE s == BlockOffsetHash(f, h)
           W == Walk(f, h)
<1>1. f.k \in Nat
  BY DEF FilterShape
<1>2. W = [i \in 0 .. f.k |-> IF i = 0 THEN s ELSE Advance(W[i - 1], i - 1)]
  <2>1. \E w : Solves(s, w, f.k)
    BY <1>1, WalkExists
  <2> QED
    BY <2>1 DEF Walk, Solves
<1> HIDE DEF W
<1>3. W = [i \in 0 .. f.k |-> W[i]]
  BY <1>2
<1>4. W[0] = s
  BY <1>1, <1>2
<1>5. \A i \in 0 .. f.k - 1 : W[i + 1] = Advance(W[i], i)
  <2>1. TAKE i \in 0 .. f.k - 1
  <2>2. i + 1 \in 0 .. f.k /\ i + 1 # 0 /\ (i + 1) - 1 = i
    BY <1>1
  <2>3. W[i + 1] = Advance(W[(i + 1) - 1], (i + 1) - 1)
    BY <1>2, <2>2
  <2> QED
    BY <2>2, <2>3
<1> QED
  BY <1>3, <1>4, <1>5 DEF W

(***************************************************************************)
(* A walk stays in the block it starts in.                                 *)
(***************************************************************************)
LEMMA WalkTypes ==
  ASSUME NEW f \in FilterShape, NEW h \in HashValue, NEW i \in 0 .. f.k
  PROVE  /\ Walk(f, h)[i] \in ProbeState
         /\ Walk(f, h)[i].off = BlockIndex(f, h.hi) * BlockWords
<1> DEFINE Good(n) == /\ Walk(f, h)[n] \in ProbeState
                      /\ Walk(f, h)[n].off = BlockIndex(f, h.hi) * BlockWords
           T == {n \in 0 .. f.k : ~Good(n)}
<1>1. f.k \in Nat
  BY DEF FilterShape
<1>2. Good(0)
  BY WalkStart, WalkTurns
<1>3. \A n \in 0 .. f.k - 1 : Good(n) => Good(n + 1)
  <2>1. SUFFICES ASSUME NEW n \in 0 .. f.k - 1, Good(n) PROVE Good(n + 1)
    OBVIOUS
  <2>2. Walk(f, h)[n + 1] = Advance(Walk(f, h)[n], n)
    BY WalkTurns
  <2>3. n \in Nat
    BY <1>1
  <2> QED
    BY <2>1, <2>2, <2>3, AdvanceType
<1> HIDE DEF Good
<1>4. SUFFICES ASSUME T # {} PROVE FALSE
  BY DEF Good
<1>5. T \in SUBSET Nat /\ T \subseteq 0 .. f.k
  BY <1>1
<1>6. PICK m \in T : \A y \in T : m <= y
  <2> HIDE DEF T
  <2> QED
    BY <1>4, <1>5, LeastNat
<1>7. m - 1 \in 0 .. f.k - 1 /\ m - 1 \in 0 .. f.k /\ m - 1 \notin T
  <2>1. m # 0
    BY <1>2
  <2> HIDE DEF T
  <2> QED
    BY <1>1, <1>5, <1>6, <2>1
<1>8. Good((m - 1) + 1)
  BY <1>3, <1>7
<1> QED
  BY <1>1, <1>8

(***************************************************************************)
(* THEOREM: every word the k-probe loops touch exists, whatever the hash:  *)
(* no probe is out of bounds, and all of them are in one block.            *)
(***************************************************************************)
THEOREM ProbesInBlock ==
  ASSUME NEW f \in FilterShape, NEW h \in HashValue, NEW i \in 0 .. f.k
  PROVE  LET s     == Walk(f, h)[i]
             start == BlockIndex(f, h.hi) * BlockWords
         IN  /\ WordOf(s) \in start .. start + BlockWords - 1
             /\ WordOf(s) \in WordIndices(f)
             /\ BitOf(s) \in 0 .. WordBits - 1
<1> DEFINE s == Walk(f, h)[i]
           B == BlockIndex(f, h.hi)
           q == BlockBit(s) \div WordBits
<1>1. WordBits \in Nat \ {0} /\ BlockBits \in Nat \ {0}
  BY WidthAssumption
<1>2. BlockWords \in Nat \ {0} /\ BlockBits = WordBits * BlockWords
  BY BlockWordsFact
<1>3. f.numBlocks \in Nat \ {0} /\ B \in 0 .. f.numBlocks - 1
  <2>1. h.hi \in 0 .. U64 - 1
    BY DEF HashValue
  <2> QED
    BY <2>1, BlockIndexRange DEF FilterShape
<1>4. s \in ProbeState /\ s.off = B * BlockWords
  BY WalkTypes
<1>5. BlockBit(s) \in 0 .. BlockBits - 1
  <2>1. s.a \in Int
    BY <1>4, WidthAssumption DEF ProbeState
  <2> QED
    BY <1>1, <2>1, ModRange, Zenon DEF BlockBit
<1>6. BitOf(s) \in 0 .. WordBits - 1
  <2>1. BlockBit(s) \in Int
    BY <1>1, <1>5
  <2> QED
    BY <1>1, <2>1, ModRange, Zenon DEF BitOf
<1>7. q \in Nat /\ q < BlockWords
  <2>1. BlockBit(s) \in Nat /\ BlockBit(s) < WordBits * BlockWords
    BY <1>1, <1>2, <1>5
  <2> QED
    BY <1>1, <1>2, <2>1, DivBelow
<1> HIDE DEF s, B, q
<1>8. WordOf(s) = B * BlockWords + q
  BY <1>4 DEF WordOf, q
<1>9. B * BlockWords \in Nat /\ B * BlockWords + BlockWords <= f.numBlocks * BlockWords
  <2>1. B + 1 <= f.numBlocks /\ B \in Nat
    BY <1>3
  <2>2. (B + 1) * BlockWords <= f.numBlocks * BlockWords
    BY <1>2, <1>3, <2>1
  <2>3. (B + 1) * BlockWords = B * BlockWords + BlockWords
    BY <1>2, <2>1
  <2>4. B * BlockWords \in Nat /\ f.numBlocks * BlockWords \in Nat
    BY <1>2, <1>3, <2>1
  <2> QED
    BY <2>2, <2>3, <2>4
<1>10. f.numBlocks * BlockWords \in Nat
  BY <1>2, <1>3
<1>11. WordOf(s) \in B * BlockWords .. B * BlockWords + BlockWords - 1
  BY <1>2, <1>7, <1>8, <1>9
<1>12. WordOf(s) \in WordIndices(f)
  BY <1>2, <1>7, <1>8, <1>9, <1>10 DEF WordIndices
<1> QED
  BY <1>6, <1>11, <1>12 DEF s, B

-----------------------------------------------------------------------------
(***************************************************************************)
(* Congruences.                                                            *)
(***************************************************************************)
LEMMA SameRemainder ==
  ASSUME NEW x \in Int, NEW y \in Int, NEW m \in Nat \ {0}, x % m = y % m
  PROVE  \E t \in Int : x - y = m * t
<1>1. /\ x \div m \in Int /\ y \div m \in Int
      /\ x = m * (x \div m) + (x % m) /\ y = m * (y \div m) + (y % m)
  OBVIOUS
<1>2. PICK q \in Int, r \in Int : q = x \div m /\ r = y \div m
  BY <1>1
<1>3. x - y = m * q - m * r
  <2>1. x % m \in Int
    BY ModRange
  <2>2. m * q \in Int /\ m * r \in Int
    BY <1>2
  <2> QED
    BY <1>1, <1>2, <2>1, <2>2
<1>4. m * q - m * r = m * (q - r) /\ q - r \in Int
  BY <1>2
<1> QED
  BY <1>3, <1>4

\* Wrapping at a multiple of m does not change the remainder modulo m.
LEMMA WrapRemainder ==
  ASSUME NEW x \in Int, NEW n \in Nat \ {0}, NEW m \in Nat \ {0}, n % m = 0
  PROVE  \E t \in Int : (x % n) = x - m * t
<1>1. PICK c \in Int : n = m * c
  BY SMT
<1>2. PICK q \in Int : q = x \div n
  OBVIOUS
<1>3. x = n * q + (x % n)
  BY <1>2
<1>4. PICK t \in Int : t = c * q
  BY <1>1, <1>2
<1>5. n * q = m * t
  <2>1. (m * c) * q = m * (c * q)
    BY <1>1, <1>2
  <2> QED
    BY <1>1, <1>4, <2>1
<1>6. PICK z \in Int, r \in Int : z = m * t /\ r = x % n
  BY <1>4, ModRange
<1>7. r = x - z
  BY <1>3, <1>5, <1>6
<1> QED
  BY <1>6, <1>7

LEMMA OddIsOdd ==
  ASSUME NEW x \in Nat
  PROVE  \A t \in Int : Odd(x) # 2 * t
BY DEF Odd

(***************************************************************************)
(* THEOREM: the first three bits of a key are distinct, in a block of a    *)
(* multiple of four bits: the odd stride of blockOffsetHash is never a     *)
(* multiple, nor half a multiple, of the block.                            *)
(***************************************************************************)
THEOREM FirstProbesDistinct ==
  ASSUME NEW f \in FilterShape, NEW h \in HashValue, f.k >= 3, BlockBits % 4 = 0
  PROVE  /\ BlockBit(Walk(f, h)[0]) # BlockBit(Walk(f, h)[1])
         /\ BlockBit(Walk(f, h)[1]) # BlockBit(Walk(f, h)[2])
         /\ BlockBit(Walk(f, h)[0]) # BlockBit(Walk(f, h)[2])
<1>0. U32 \in Nat \ {0} /\ BlockBits \in Nat \ {0} /\ U32 % BlockBits = 0 /\ f.k \in Nat
  BY WidthAssumption DEF FilterShape
<1>1. PICK s0, s1, s2 : s0 = Walk(f, h)[0] /\ s1 = Walk(f, h)[1] /\ s2 = Walk(f, h)[2]
  OBVIOUS
<1>2. s0 \in ProbeState /\ s1 \in ProbeState /\ s2 \in ProbeState
  <2>1. 0 \in 0 .. f.k /\ 1 \in 0 .. f.k /\ 2 \in 0 .. f.k
    BY <1>0
  <2> QED
    BY <1>1, <2>1, WalkTypes
<1>3. s1 = Advance(s0, 0) /\ s2 = Advance(s1, 1)
  <2>1. 0 \in 0 .. f.k - 1 /\ 1 \in 0 .. f.k - 1 /\ 0 + 1 = 1 /\ 1 + 1 = 2
    BY <1>0
  <2> QED
    BY <1>1, <2>1, WalkTurns
<1>4. PICK a \in Int, b \in Int, a1 \in Int, a2 \in Int :
        a = s0.a /\ b = s0.b /\ a1 = s1.a /\ a2 = s2.a
  BY <1>0, <1>2 DEF ProbeState
<1>5. a1 = (a + b) % U32 /\ s1.b = b
  <2>1. s1.a = (s0.a + s0.b) % U32 /\ s1.b = (s0.b + 0) % U32
    BY <1>2, <1>3 DEF Advance, ProbeState
  <2>2. b \in 0 .. U32 - 1
    BY <1>2, <1>4 DEF ProbeState
  <2>3. (b + 0) % U32 = b
    BY <1>0, <2>2
  <2> QED
    BY <1>4, <2>1, <2>3
<1>6. a2 = (a1 + b) % U32
  BY <1>2, <1>3, <1>4, <1>5 DEF Advance, ProbeState
<1>7. PICK t1 \in Int : a1 = a + b - BlockBits * t1
  <2>1. a + b \in Int
    BY <1>4
  <2>2. PICK t \in Int : ((a + b) % U32) = (a + b) - BlockBits * t
    <3>1. U32 \in Nat \ {0} /\ BlockBits \in Nat \ {0} /\ U32 % BlockBits = 0
      BY <1>0
    <3> QED
      BY <2>1, <3>1, WrapRemainder
  <2>3. a1 = a + b - BlockBits * t
    BY <1>0, <1>4, <1>5, <2>2
  <2> QED
    BY <2>3
<1>8. PICK t2 \in Int : a2 = a1 + b - BlockBits * t2
  <2>1. a1 + b \in Int
    BY <1>4
  <2>2. PICK t \in Int : ((a1 + b) % U32) = (a1 + b) - BlockBits * t
    <3>1. U32 \in Nat \ {0} /\ BlockBits \in Nat \ {0} /\ U32 % BlockBits = 0
      BY <1>0
    <3> QED
      BY <2>1, <3>1, WrapRemainder
  <2>3. a2 = a1 + b - BlockBits * t
    BY <1>0, <1>4, <1>6, <2>2
  <2> QED
    BY <2>3
<1>9. \A t \in Int : b # 2 * t
  <2>1. h.lo \div U32 \in Nat /\ s0 = BlockOffsetHash(f, h)
    <3>1. h.lo \in Nat
      BY <1>0 DEF HashValue
    <3>2. h.lo \div U32 \in Nat
      BY <1>0, <3>1
    <3> QED
      BY <1>1, <3>2, WalkTurns
  <2>2. b = Odd(h.lo \div U32)
    BY <1>4, <2>1 DEF BlockOffsetHash
  <2> QED
    BY <2>1, <2>2, OddIsOdd
<1>10. PICK e \in Int : BlockBits = 4 * e
  <2>1. BlockBits = 4 * (BlockBits \div 4) /\ BlockBits \div 4 \in Int
    BY <1>0
  <2> QED
    BY <2>1
<1>11. /\ BlockBit(Walk(f, h)[0]) = a % BlockBits /\ BlockBit(Walk(f, h)[1]) = a1 % BlockBits
       /\ BlockBit(Walk(f, h)[2]) = a2 % BlockBits
  BY <1>1, <1>4 DEF BlockBit
<1>12. ASSUME NEW x \in Int, NEW y \in Int, NEW t \in Int, x % BlockBits = y % BlockBits,
              y = x + b - BlockBits * t
       PROVE  FALSE
  <2>1. PICK u \in Int : y - x = BlockBits * u
    <3>1. BlockBits \in Nat \ {0} /\ y % BlockBits = x % BlockBits
      BY <1>0, <1>12
    <3> QED
      BY <3>1, SameRemainder
  <2>2. b = BlockBits * u + BlockBits * t
    BY <1>0, <1>4, <1>12, <2>1
  <2>3. BlockBits * u + BlockBits * t = 2 * (2 * (e * (u + t))) /\ 2 * (e * (u + t)) \in Int
    BY <1>10, <2>1
  <2> QED
    BY <1>9, <2>2, <2>3
<1>13. a % BlockBits # a1 % BlockBits
  BY <1>4, <1>7, <1>12
<1>14. a1 % BlockBits # a2 % BlockBits
  BY <1>4, <1>8, <1>12
<1>15. a % BlockBits # a2 % BlockBits
  <2>1. SUFFICES ASSUME a % BlockBits = a2 % BlockBits PROVE FALSE
    OBVIOUS
  <2>2. PICK u \in Int : a2 - a = BlockBits * u
    <3>1. /\ BlockBits \in Nat \ {0} /\ a \in Int /\ a2 \in Int
          /\ a2 % BlockBits = a % BlockBits
      BY <1>0, <1>4, <2>1
    <3> QED
      BY <3>1, SameRemainder
  <2>3. b + b = BlockBits * u + BlockBits * t1 + BlockBits * t2
    <3>1. PICK z \in Int, z1 \in Int, z2 \in Int :
            z = BlockBits * u /\ z1 = BlockBits * t1 /\ z2 = BlockBits * t2
      BY <1>0, <1>7, <1>8, <2>2
    <3>2. a1 = a + b - z1 /\ a2 = a1 + b - z2 /\ a2 - a = z
      BY <1>7, <1>8, <2>2, <3>1
    <3>3. b + b = z + z1 + z2
      BY <1>4, <3>1, <3>2
    <3> QED
      BY <3>1, <3>3
  <2>4. BlockBits * u + BlockBits * t1 + BlockBits * t2 = 4 * (e * (u + t1 + t2))
        /\ e * (u + t1 + t2) \in Int
    BY <1>10, <2>2
  <2>5. b = 2 * (e * (u + t1 + t2))
    BY <1>4, <2>3, <2>4
  <2> QED
    BY <1>9, <2>4, <2>5
<1> QED
  BY <1>11, <1>13, <1>14, <1>15

-----------------------------------------------------------------------------
(***************************************************************************)
(* Remainders.                                                             *)
(***************************************************************************)
LEMMA Quotient ==
  ASSUME NEW x \in Int, NEW m \in Nat \ {0}
  PROVE  x \div m \in Int /\ x % m \in 0 .. m - 1 /\ x = m * (x \div m) + (x % m)
OBVIOUS

LEMMA RemainderIs ==
  ASSUME NEW m \in Nat \ {0}, NEW p \in Int, NEW r \in 0 .. m - 1
  PROVE  (m * p + r) % m = r /\ (m * p + r) \div m = p
<1>1. PICK x \in Int : x = m * p + r
  OBVIOUS
<1>2. PICK d \in Int, e \in 0 .. m - 1 : d = x \div m /\ e = x % m /\ x = m * d + e
  BY Quotient
<1>3. PICK y \in Int, z \in Int : y = m * p /\ z = m * d
  BY <1>2
<1>4. PICK g \in Int : g = p - d
  <2>1. d \in Int
    BY <1>2
  <2> QED
    BY <2>1
<1>5. m * g = y - z
  <2>1. d \in Int
    BY <1>2
  <2> QED
    BY <1>3, <1>4, <2>1
<1>6. m * g < m /\ m * g > -m
  <2>1. y + r = z + e /\ e \in 0 .. m - 1
    BY <1>1, <1>2, <1>3
  <2> QED
    BY <1>3, <1>5, <2>1
<1>7. ~(g >= 1) /\ ~(g <= -1)
  <2>1. \A n \in Nat \ {0}, c \in Int : (c >= 1 => n * c >= n) /\ (c <= -1 => n * c <= -n)
    OBVIOUS
  <2> QED
    BY <1>4, <1>6, <2>1
<1>8. g = 0 /\ y = z
  <2>1. g = 0
    BY <1>4, <1>7
  <2> QED
    BY <1>3, <1>5, <2>1
<1>9. d = p /\ e = r
  <2>1. d \in Int /\ e \in 0 .. m - 1 /\ y + r = z + e
    BY <1>1, <1>2, <1>3
  <2> QED
    BY <1>3, <1>4, <1>8, <2>1
<1> QED
  BY <1>1, <1>2, <1>9

\* Equal remainders are a difference that the modulus divides.
LEMMA RemaindersEqual ==
  ASSUME NEW x \in Int, NEW y \in Int, NEW m \in Nat \ {0}
  PROVE  x % m = y % m <=> \E t \in Int : x - y = m * t
<1>1. ASSUME NEW t \in Int, x - y = m * t PROVE x % m = y % m
  <2>1. PICK d \in Int, e \in 0 .. m - 1 : e = y % m /\ y = m * d + e
    BY SMT
  <2>2. x = m * (d + t) + e
    <3>1. PICK a \in Int, b \in Int : a = m * d /\ b = m * t
      BY <2>1
    <3>2. m * (d + t) = a + b
      BY <2>1, <3>1
    <3> QED
      BY <1>1, <2>1, <3>1, <3>2
  <2>3. d + t \in Int
    BY <2>1
  <2> QED
    BY <2>1, <2>2, <2>3, RemainderIs
<1>2. x % m = y % m => \E t \in Int : x - y = m * t
  BY SameRemainder
<1> QED
  BY <1>1, <1>2

-----------------------------------------------------------------------------
(***************************************************************************)
(* The closed form of the walk: the stride has grown by Growth(i) before   *)
(* turn i, and the bits have drifted by Drift(i) from the arithmetic       *)
(* progression of the first stride.                                        *)
(***************************************************************************)
Growth(i) == (i * (i - 1)) \div 2
Drift(i)  == (i * (i - 1) * (i - 2)) \div 6

LEMMA DriftTurns ==
  /\ Growth(0) = 0 /\ Drift(0) = 0
  /\ \A i \in Nat : /\ Growth(i) \in Int /\ Drift(i) \in Int
                    /\ Growth(i + 1) = Growth(i) + i
                    /\ Drift(i + 1) = Drift(i) + Growth(i)
<1>1. Growth(0) = 0 /\ Drift(0) = 0
  BY DEF Growth, Drift
<1>2. ASSUME NEW i \in Nat
      PROVE  /\ Growth(i) \in Int /\ Drift(i) \in Int
             /\ Growth(i + 1) = Growth(i) + i
             /\ Drift(i + 1) = Drift(i) + Growth(i)
  <2>1. PICK x \in Int, y \in Int : x = i * (i - 1) /\ y = i * (i - 1) * (i - 2)
    OBVIOUS
  <2>2. Growth(i) = x \div 2 /\ Drift(i) = y \div 6
    BY <2>1 DEF Growth, Drift
  <2>3. (i + 1) * ((i + 1) - 1) = x + 2 * i
    BY <2>1
  <2>4. (i + 1) * ((i + 1) - 1) * ((i + 1) - 2) = y + 3 * x
    BY <2>1
  <2>5. \E q \in Int : x = 2 * q
    <3>1. PICK q \in Int : i = 2 * q \/ i = 2 * q + 1
      <4>1. i = 2 * (i \div 2) \/ i = 2 * (i \div 2) + 1
        OBVIOUS
      <4> QED
        BY <4>1
    <3>2. x = 2 * (q * (i - 1)) \/ x = 2 * (i * q)
      BY <2>1, <3>1
    <3>3. q * (i - 1) \in Int /\ i * q \in Int
      BY <3>1
    <3> QED
      BY <3>2, <3>3
  <2>6. PICK q \in Int : x = 2 * q
    BY <2>5
  <2>7. \A z, w \in Int : (2 * z) \div 2 = z /\ (w + 6 * z) \div 6 = w \div 6 + z
    OBVIOUS
  <2>8. Growth(i) = q
    BY <2>2, <2>6, <2>7
  <2>9. Growth(i + 1) = q + i
    <3>1. x + 2 * i = 2 * (q + i) /\ q + i \in Int
      BY <2>6
    <3> QED
      BY <2>3, <2>7, <3>1 DEF Growth
  <2>10. Drift(i + 1) = y \div 6 + q
    <3>1. y + 3 * x = y + 6 * q
      BY <2>1, <2>6
    <3> QED
      BY <2>1, <2>4, <2>6, <2>7, <3>1 DEF Drift
  <2> QED
    BY <2>1, <2>2, <2>8, <2>9, <2>10
<1> QED
  BY <1>1, <1>2

\* What holds at the start of a walk, and after a turn if before it, holds.
LEMMA WalkInduction ==
  ASSUME NEW n \in Nat, NEW G, 0 \in G, \A i \in 0 .. n - 1 : i \in G => i + 1 \in G
  PROVE  0 .. n \subseteq G
<1> DEFINE T == (0 .. n) \ G
<1>1. SUFFICES ASSUME T # {} PROVE FALSE
  OBVIOUS
<1>2. PICK m \in T : \A y \in T : m <= y
  <2>1. T \in SUBSET Nat
    OBVIOUS
  <2> HIDE DEF T
  <2> QED
    BY <1>1, <2>1, LeastNat
<1>3. m \in 0 .. n /\ m \notin G /\ m # 0
  BY <1>2
<1>4. m - 1 \in 0 .. n - 1 /\ m - 1 \in 0 .. n /\ (m - 1) + 1 = m
  BY <1>3
<1>5. m - 1 \in G
  <2>1. m - 1 \notin T
    <3> HIDE DEF T
    <3> QED
      BY <1>2, <1>3, <1>4
  <2> QED
    BY <1>4, <2>1
<1> QED
  BY <1>3, <1>4, <1>5

-----------------------------------------------------------------------------
(***************************************************************************)
(* Congruence modulo m.                                                    *)
(***************************************************************************)
Same(x, y, m) == \E t \in Int : x - y = m * t

LEMMA SameIsRemainder ==
  ASSUME NEW x \in Int, NEW y \in Int, NEW m \in Nat \ {0}
  PROVE  Same(x, y, m) <=> x % m = y % m
BY RemaindersEqual DEF Same

LEMMA SameBack ==
  ASSUME NEW x \in Int, NEW y \in Int, NEW m \in Int, Same(x, y, m)
  PROVE  Same(y, x, m)
<1>1. PICK t \in Int : x - y = m * t
  BY DEF Same
<1>2. y - x = m * (-t) /\ -t \in Int
  <2>1. PICK z \in Int : z = m * t
    OBVIOUS
  <2>2. m * (-t) = -z
    BY <2>1
  <2> QED
    BY <1>1, <2>1, <2>2
<1> QED
  BY <1>2 DEF Same

LEMMA SameSum ==
  ASSUME NEW x \in Int, NEW y \in Int, NEW u \in Int, NEW v \in Int, NEW m \in Int,
         Same(x, y, m), Same(u, v, m)
  PROVE  Same(x + u, y + v, m)
<1>1. PICK t \in Int : x - y = m * t
  BY DEF Same
<1>2. PICK w \in Int : u - v = m * w
  BY DEF Same
<1>3. m * (t + w) = m * t + m * w /\ t + w \in Int
  OBVIOUS
<1>4. PICK p \in Int : p = m * t
  OBVIOUS
<1>5. PICK q \in Int : q = m * w
  OBVIOUS
<1>6. (x + u) - (y + v) = p + q
  BY <1>1, <1>2, <1>4, <1>5
<1>7. (x + u) - (y + v) = m * (t + w)
  BY <1>3, <1>4, <1>5, <1>6
<1> QED
  BY <1>3, <1>7 DEF Same

LEMMA SameThrough ==
  ASSUME NEW x \in Int, NEW y \in Int, NEW z \in Int, NEW m \in Int,
         Same(x, y, m), Same(y, z, m)
  PROVE  Same(x, z, m)
<1>1. Same(x + y, y + z, m)
  BY SameSum
<1>2. (x + y) - (y + z) = x - z
  OBVIOUS
<1> QED
  BY <1>1, <1>2 DEF Same

LEMMA SameTimes ==
  ASSUME NEW x \in Int, NEW y \in Int, NEW i \in Int, NEW m \in Int, Same(x, y, m)
  PROVE  Same(i * x, i * y, m)
<1>1. PICK t \in Int : x - y = m * t
  BY DEF Same
<1>2. i * x - i * y = i * (x - y)
  OBVIOUS
<1>3. i * (m * t) = m * (i * t) /\ i * t \in Int
  OBVIOUS
<1>4. i * x - i * y = m * (i * t)
  BY <1>1, <1>2, <1>3
<1> QED
  BY <1>3, <1>4 DEF Same

LEMMA SameSelf ==
  ASSUME NEW x \in Int, NEW m \in Int
  PROVE  Same(x, x, m)
<1>1. x - x = m * 0
  OBVIOUS
<1> QED
  BY <1>1 DEF Same

\* Wrapping at a multiple of m is no change modulo m.
LEMMA SameWrap ==
  ASSUME NEW x \in Int, NEW n \in Nat \ {0}, NEW m \in Nat \ {0}, n % m = 0
  PROVE  x % n \in Int /\ Same(x % n, x, m)
<1>1. PICK y \in Int : y = x % n
  BY ModRange
<1>2. PICK t \in Int : y = x - m * t
  <2>1. \E t \in Int : (x % n) = x - m * t
    BY WrapRemainder, Zenon
  <2> QED
    BY <1>1, <2>1, Zenon
<1>3. y - x = m * (-t) /\ -t \in Int
  <2>1. PICK z \in Int : z = m * t
    OBVIOUS
  <2>2. m * (-t) = -z
    BY <2>1
  <2> QED
    BY <1>2, <2>1, <2>2
<1> QED
  BY <1>1, <1>3 DEF Same

\* The remainder is the same number modulo m.
LEMMA SameReduced ==
  ASSUME NEW x \in Int, NEW m \in Nat \ {0}
  PROVE  x % m \in Int /\ Same(x % m, x, m)
<1>1. m % m = 0
  OBVIOUS
<1> QED
  BY <1>1, SameWrap

-----------------------------------------------------------------------------
(***************************************************************************)
(* The wrap at 2^32 in the loop of addBits and testBits is lost in the     *)
(* mask of the block: modulo the block size, the walk is its closed form.  *)
(***************************************************************************)
LEMMA WalkCongruences ==
  ASSUME NEW f \in FilterShape, NEW h \in HashValue, NEW i \in 0 .. f.k
  PROVE  LET s == Walk(f, h)[0] IN
         /\ Same(Walk(f, h)[i].a, s.a + i * s.b + Drift(i), BlockBits)
         /\ Same(Walk(f, h)[i].b, s.b + Growth(i), BlockBits)
<1>0. U32 \in Nat \ {0} /\ BlockBits \in Nat \ {0} /\ U32 % BlockBits = 0 /\ f.k \in Nat
  BY WidthAssumption DEF FilterShape
<1>1. PICK a \in Int, b \in Int : a = Walk(f, h)[0].a /\ b = Walk(f, h)[0].b
  BY <1>0, WalkTypes DEF ProbeState
<1> DEFINE Good(n) == /\ Same(Walk(f, h)[n].a, a + n * b + Drift(n), BlockBits)
                      /\ Same(Walk(f, h)[n].b, b + Growth(n), BlockBits)
<1>2. Good(0)
  <2>1. a + 0 * b + Drift(0) = a /\ b + Growth(0) = b
    <3>1. 0 * b = 0
      BY <1>1
    <3>2. Growth(0) = 0 /\ Drift(0) = 0
      BY DriftTurns
    <3> QED
      BY <1>1, <3>1, <3>2
  <2>2. Same(a, a, BlockBits) /\ Same(b, b, BlockBits)
    BY <1>0, <1>1, SameSelf
  <2> QED
    BY <1>1, <2>1, <2>2
<1> HIDE DEF Good
<1>3. ASSUME NEW n \in 0 .. f.k - 1, Good(n) PROVE Good(n + 1)
  <2>0. n \in Nat /\ n \in 0 .. f.k
    BY <1>0
  <2>1. Walk(f, h)[n] \in ProbeState /\ Walk(f, h)[n + 1] = Advance(Walk(f, h)[n], n)
    BY <2>0, WalkTurns, WalkTypes
  <2>2. PICK c \in Int, d \in Int : c = Walk(f, h)[n].a /\ d = Walk(f, h)[n].b
    BY <1>0, <2>1 DEF ProbeState
  <2>3. Walk(f, h)[n + 1].a = (c + d) % U32 /\ Walk(f, h)[n + 1].b = (d + n) % U32
    BY <2>1, <2>2 DEF Advance, ProbeState
  <2>4. /\ Growth(n) \in Int /\ Drift(n) \in Int
        /\ Growth(n + 1) = Growth(n) + n /\ Drift(n + 1) = Drift(n) + Growth(n)
    BY <2>0, DriftTurns
  <2>5. PICK m \in Int : m = n * b /\ m + b = (n + 1) * b
    <3>1. \A p \in Nat, q \in Int : p * q \in Int /\ p * q + q = (p + 1) * q
      OBVIOUS
    <3> QED
      BY <1>1, <2>0, <3>1
  <2>6. PICK x \in Int : x = a + m + Drift(n)
    BY <1>1, <2>4, <2>5
  <2>7. PICK y \in Int : y = b + Growth(n)
    BY <1>1, <2>4
  <2>8. x + y = a + (m + b) + Drift(n + 1) /\ y + n = b + Growth(n + 1)
    <3>1. m \in Int /\ a \in Int /\ b \in Int /\ n \in Int
      BY <1>1, <2>0, <2>5
    <3> QED
      BY <2>4, <2>6, <2>7, <3>1
  <2>9. Same(c, x, BlockBits) /\ Same(d, y, BlockBits)
    BY <1>3, <2>2, <2>5, <2>6, <2>7 DEF Good
  <2>10. BlockBits \in Int /\ n \in Int /\ c + d \in Int /\ d + n \in Int
         /\ x + y \in Int /\ y + n \in Int
    BY <1>0, <2>0, <2>2, <2>6, <2>7
  <2>11. Same(c + d, x + y, BlockBits) /\ Same(d + n, y + n, BlockBits)
    BY <2>2, <2>6, <2>7, <2>9, <2>10, SameSum, SameSelf
  <2>12. /\ (c + d) % U32 \in Int /\ (d + n) % U32 \in Int
         /\ Same((c + d) % U32, c + d, BlockBits) /\ Same((d + n) % U32, d + n, BlockBits)
    <3>1. U32 \in Nat \ {0} /\ BlockBits \in Nat \ {0} /\ U32 % BlockBits = 0
      BY <1>0
    <3> QED
      BY <2>10, <3>1, SameWrap
  <2>13. Same((c + d) % U32, x + y, BlockBits) /\ Same((d + n) % U32, y + n, BlockBits)
    BY <2>10, <2>11, <2>12, SameThrough
  <2> QED
    BY <2>3, <2>5, <2>8, <2>13 DEF Good
<1>4. DEFINE G == {n \in 0 .. f.k : Good(n)}
<1>5. 0 \in G /\ \A n \in 0 .. f.k - 1 : n \in G => n + 1 \in G
  BY <1>0, <1>2, <1>3
<1>6. i \in G
  <2> HIDE DEF G
  <2> QED
    BY <1>0, <1>5, WalkInduction
<1>7. Good(i)
  BY <1>6
<1> QED
  BY <1>1, <1>7 DEF Good

(***************************************************************************)
(* THEOREM: the bit of probe i is the first bit plus i times the stride    *)
(* plus i(i-1)(i-2)/6, modulo the block size.                              *)
(***************************************************************************)
THEOREM WalkClosedForm ==
  ASSUME NEW f \in FilterShape, NEW h \in HashValue, NEW i \in 0 .. f.k
  PROVE  LET s == Walk(f, h)[0] IN
         BlockBit(Walk(f, h)[i]) = (s.a + i * s.b + Drift(i)) % BlockBits
<1>0. BlockBits \in Nat \ {0} /\ f.k \in Nat /\ i \in Nat
  BY WidthAssumption DEF FilterShape
<1>1. PICK a \in Int, b \in Int, c \in Int :
        a = Walk(f, h)[0].a /\ b = Walk(f, h)[0].b /\ c = Walk(f, h)[i].a
  <2>1. Walk(f, h)[0] \in ProbeState /\ Walk(f, h)[i] \in ProbeState
    BY <1>0, WalkTypes
  <2> QED
    BY <2>1, WidthAssumption DEF ProbeState
<1>2. PICK x \in Int : x = a + i * b + Drift(i)
  <2>1. i * b \in Int
    BY <1>0, <1>1
  <2>2. Drift(i) \in Int
    BY <1>0, DriftTurns
  <2> QED
    BY <1>1, <2>1, <2>2
<1>3. Same(c, x, BlockBits)
  BY <1>1, <1>2, WalkCongruences
<1>4. c % BlockBits = x % BlockBits
  BY <1>0, <1>1, <1>2, <1>3, SameIsRemainder
<1> QED
  BY <1>1, <1>2, <1>4 DEF BlockBit

(***************************************************************************)
(* THEOREM: whether two probes of a key are the same bit depends on their  *)
(* turns and on the stride modulo the block size alone: not on the first   *)
(* bit, the block, the width of the registers or the filter.               *)
(***************************************************************************)
THEOREM CollisionsByStride ==
  ASSUME NEW f \in FilterShape, NEW h \in HashValue,
         NEW i \in 0 .. f.k, NEW j \in 0 .. f.k
  PROVE  LET stride == Walk(f, h)[0].b % BlockBits IN
         BlockBit(Walk(f, h)[i]) = BlockBit(Walk(f, h)[j]) <=>
           (i * stride + Drift(i)) % BlockBits = (j * stride + Drift(j)) % BlockBits
<1>0. BlockBits \in Nat \ {0} /\ f.k \in Nat /\ i \in Nat /\ j \in Nat
  BY WidthAssumption DEF FilterShape
<1>1. PICK a \in Int, b \in Int : a = Walk(f, h)[0].a /\ b = Walk(f, h)[0].b
  <2>1. Walk(f, h)[0] \in ProbeState
    BY <1>0, WalkTypes
  <2> QED
    BY <2>1, WidthAssumption DEF ProbeState
<1>2. PICK r \in Int : r = b % BlockBits /\ Same(r, b, BlockBits)
  BY <1>0, <1>1, SameReduced
<1>3. ASSUME NEW n \in Nat, n \in 0 .. f.k
      PROVE  \E x, y \in Int : /\ y = n * r + Drift(n)
                               /\ BlockBit(Walk(f, h)[n]) = x % BlockBits
                               /\ Same(a + y, x, BlockBits)
  <2>1. n * b \in Int /\ n * r \in Int /\ Drift(n) \in Int
    BY <1>1, <1>2, <1>3, DriftTurns
  <2>2. PICK x \in Int : x = (a + Drift(n)) + n * b
    BY <1>1, <2>1
  <2>3. PICK y \in Int : y = n * r + Drift(n)
    BY <2>1
  <2>4. x = a + n * b + Drift(n) /\ a + y = (a + Drift(n)) + n * r
    BY <1>1, <2>1, <2>2, <2>3
  <2>5. BlockBit(Walk(f, h)[n]) = x % BlockBits
    BY <1>1, <1>3, <2>4, WalkClosedForm
  <2>6. Same(n * r, n * b, BlockBits)
    BY <1>0, <1>1, <1>2, <1>3, SameTimes
  <2>7. Same(a + Drift(n), a + Drift(n), BlockBits) /\ a + Drift(n) \in Int
    BY <1>0, <1>1, <2>1, SameSelf
  <2>8. Same((a + Drift(n)) + n * r, (a + Drift(n)) + n * b, BlockBits)
    BY <1>0, <2>1, <2>6, <2>7, SameSum
  <2> QED
    BY <2>2, <2>3, <2>4, <2>5, <2>8
<1>4. PICK xi \in Int, yi \in Int :
        /\ yi = i * r + Drift(i) /\ BlockBit(Walk(f, h)[i]) = xi % BlockBits
        /\ Same(a + yi, xi, BlockBits)
  BY <1>0, <1>3
<1>5. PICK xj \in Int, yj \in Int :
        /\ yj = j * r + Drift(j) /\ BlockBit(Walk(f, h)[j]) = xj % BlockBits
        /\ Same(a + yj, xj, BlockBits)
  BY <1>0, <1>3
<1>6. PICK pi \in Int, pj \in Int : pi = a + yi /\ pj = a + yj
  BY <1>1, <1>4, <1>5
<1>7. \A x, y \in Int : Same(x, y, BlockBits) <=> x % BlockBits = y % BlockBits
  BY <1>0, SameIsRemainder
<1>8. pi % BlockBits = xi % BlockBits /\ pj % BlockBits = xj % BlockBits
  BY <1>4, <1>5, <1>6, <1>7, Zenon
<1>9. pi % BlockBits = pj % BlockBits <=> yi % BlockBits = yj % BlockBits
  <2>1. pi - pj = yi - yj
    BY <1>1, <1>4, <1>5, <1>6
  <2>2. Same(pi, pj, BlockBits) <=> Same(yi, yj, BlockBits)
    BY <2>1 DEF Same
  <2>3. Same(pi, pj, BlockBits) <=> pi % BlockBits = pj % BlockBits
    BY <1>6, <1>7, Zenon
  <2>4. Same(yi, yj, BlockBits) <=> yi % BlockBits = yj % BlockBits
    <3>1. yi \in Int /\ yj \in Int
      BY <1>4, <1>5
    <3> QED
      BY <1>7, <3>1, Zenon
  <2> QED
    BY <2>2, <2>3, <2>4, Zenon
<1>10. xi % BlockBits = xj % BlockBits <=> yi % BlockBits = yj % BlockBits
  BY <1>8, <1>9, Zenon
<1> QED
  BY <1>1, <1>2, <1>4, <1>5, <1>10, Zenon

-----------------------------------------------------------------------------
\* The turns that are off the beat, and the turns whose stride is odd.
OffBeat(i)   == IF i % 4 = 1 THEN 1 ELSE 0
OddStride(i) == IF i % 4 \in {0, 1} THEN 1 ELSE 0

LEMMA BeatTurns ==
  ASSUME NEW n \in Nat
  PROVE  /\ OffBeat(n) \in Int /\ OddStride(n) \in Int
         /\ Same(OffBeat(n) + OddStride(n), OffBeat(n + 1), 2)
         /\ Same(OddStride(n) + n, OddStride(n + 1), 2)
<1>1. PICK q \in Nat, r \in 0 .. 3 : n = 4 * q + r
  <2>1. n \div 4 \in Nat /\ n % 4 \in 0 .. 3 /\ n = 4 * (n \div 4) + (n % 4)
    OBVIOUS
  <2> QED
    BY <2>1
<1>2. n % 4 = r /\ (n + 1) % 4 = IF r = 3 THEN 0 ELSE r + 1
  BY <1>1
<1>3. /\ OffBeat(n) = IF r = 1 THEN 1 ELSE 0
      /\ OddStride(n) = IF r \in {0, 1} THEN 1 ELSE 0
      /\ OffBeat(n + 1) = IF r = 0 THEN 1 ELSE 0
      /\ OddStride(n + 1) = IF r \in {0, 3} THEN 1 ELSE 0
  BY <1>1, <1>2 DEF OffBeat, OddStride
<1>4. \E t \in Int : (OffBeat(n) + OddStride(n)) - OffBeat(n + 1) = 2 * t
  <2>1. (OffBeat(n) + OddStride(n)) - OffBeat(n + 1) \in {2 * 0, 2 * 1}
    BY <1>1, <1>3
  <2> QED
    BY <2>1
<1>5. \E t \in Int : (OddStride(n) + n) - OddStride(n + 1) = 2 * t
  <2>1. (OddStride(n) + n) - OddStride(n + 1) =
          CASE r = 0 -> 2 * (2 * q) [] r = 1 -> 2 * (2 * q + 1)
            [] r = 2 -> 2 * (2 * q + 1) [] r = 3 -> 2 * (2 * q + 1)
    BY <1>1, <1>3
  <2> QED
    BY <1>1, <2>1
<1> QED
  BY <1>3, <1>4, <1>5 DEF Same

LEMMA WalkParity ==
  ASSUME NEW f \in FilterShape, NEW h \in HashValue, NEW i \in 0 .. f.k
  PROVE  Same(Walk(f, h)[i].a, Walk(f, h)[0].a + OffBeat(i), 2)
<1>0. U32 \in Nat \ {0} /\ U32 % 2 = 0 /\ f.k \in Nat /\ 2 \in Nat \ {0} /\ 2 \in Int
  BY WidthAssumption DEF FilterShape
<1>1. PICK a \in Int, b \in Int : a = Walk(f, h)[0].a /\ b = Walk(f, h)[0].b
  BY <1>0, WalkTypes DEF ProbeState
<1> DEFINE Good(n) == /\ Same(Walk(f, h)[n].a, a + OffBeat(n), 2)
                      /\ Same(Walk(f, h)[n].b, OddStride(n), 2)
<1>2. Good(0)
  <2>1. OffBeat(0) = 0 /\ OddStride(0) = 1
    BY DEF OffBeat, OddStride
  <2>2. b = Odd(h.lo \div U32) /\ h.lo \div U32 \in Nat
    <3>1. h.lo \in Nat
      BY <1>0 DEF HashValue
    <3>2. h.lo \div U32 \in Nat
      BY <1>0, <3>1
    <3>3. Walk(f, h)[0] = BlockOffsetHash(f, h)
      BY WalkTurns
    <3>4. BlockOffsetHash(f, h).b = Odd(h.lo \div U32)
      BY DEF BlockOffsetHash
    <3> QED
      BY <1>1, <3>2, <3>3, <3>4
  <2>3. \A x \in Nat : \E t \in Int : Odd(x) - 1 = 2 * t
    BY DEF Odd
  <2>4. Same(b, 1, 2)
    BY <2>2, <2>3 DEF Same
  <2>5. Same(a, a, 2) /\ a + 0 = a
    BY <1>0, <1>1, SameSelf
  <2> QED
    BY <1>1, <2>1, <2>4, <2>5
<1> HIDE DEF Good
<1>3. ASSUME NEW n \in 0 .. f.k - 1, Good(n) PROVE Good(n + 1)
  <2>0. n \in Nat /\ n \in 0 .. f.k
    BY <1>0
  <2>1. Walk(f, h)[n] \in ProbeState /\ Walk(f, h)[n + 1] = Advance(Walk(f, h)[n], n)
    BY <2>0, WalkTurns, WalkTypes
  <2>2. PICK c \in Int, d \in Int : c = Walk(f, h)[n].a /\ d = Walk(f, h)[n].b
    BY <1>0, <2>1 DEF ProbeState
  <2>3. Walk(f, h)[n + 1].a = (c + d) % U32 /\ Walk(f, h)[n + 1].b = (d + n) % U32
    BY <2>1, <2>2 DEF Advance, ProbeState
  <2>4. PICK p \in Int, p1 \in Int, o \in Int, o1 \in Int :
          /\ p = OffBeat(n) /\ p1 = OffBeat(n + 1) /\ o = OddStride(n) /\ o1 = OddStride(n + 1)
          /\ Same(p + o, p1, 2) /\ Same(o + n, o1, 2)
    <3>1. n + 1 \in Nat
      BY <2>0
    <3> QED
      BY <2>0, <3>1, BeatTurns
  <2>5. Same(c, a + p, 2) /\ Same(d, o, 2)
    BY <1>3, <2>2, <2>4 DEF Good
  <2>6. Same(c + d, (a + p) + o, 2) /\ Same(d + n, o + n, 2)
    <3>1. a + p \in Int /\ n \in Int /\ Same(n, n, 2)
      BY <1>0, <1>1, <2>0, <2>4, SameSelf
    <3> QED
      BY <1>0, <2>2, <2>4, <2>5, <3>1, SameSum
  <2>7. Same((a + p) + o, a + p1, 2)
    <3>1. Same(a, a, 2) /\ p + o \in Int
      BY <1>0, <1>1, <2>4, SameSelf
    <3>2. Same(a + (p + o), a + p1, 2)
      BY <1>0, <1>1, <2>4, <3>1, SameSum
    <3>3. a + (p + o) = (a + p) + o
      BY <1>1, <2>4
    <3> QED
      BY <3>2, <3>3
  <2>8. /\ (a + p) + o \in Int /\ a + p1 \in Int /\ o + n \in Int
        /\ c + d \in Int /\ d + n \in Int
    BY <1>1, <2>0, <2>2, <2>4
  <2>9. /\ (c + d) % U32 \in Int /\ (d + n) % U32 \in Int
        /\ Same((c + d) % U32, c + d, 2) /\ Same((d + n) % U32, d + n, 2)
    BY <1>0, <2>8, SameWrap
  <2>10. Same(c + d, a + p1, 2) /\ Same(d + n, o1, 2)
    BY <1>0, <2>4, <2>6, <2>7, <2>8, SameThrough
  <2>11. Same((c + d) % U32, a + p1, 2) /\ Same((d + n) % U32, o1, 2)
    BY <1>0, <2>4, <2>8, <2>9, <2>10, SameThrough
  <2> QED
    BY <2>3, <2>4, <2>11 DEF Good
<1>4. DEFINE G == {n \in 0 .. f.k : Good(n)}
<1>5. 0 \in G /\ \A n \in 0 .. f.k - 1 : n \in G => n + 1 \in G
  BY <1>0, <1>2, <1>3
<1>6. i \in G
  <2> HIDE DEF G
  <2> QED
    BY <1>0, <1>5, WalkInduction
<1>7. Good(i)
  BY <1>6
<1> QED
  BY <1>1, <1>7 DEF Good

(***************************************************************************)
(* THEOREM: in a block of an even number of bits the probes with           *)
(* i % 4 = 1 and the others share no bit: the stride is odd before turns   *)
(* 0 and 1 of every four and even before turns 2 and 3, so the walk leaves *)
(* the parity of its first bit at every turn 1 of four, for one turn.      *)
(***************************************************************************)
THEOREM OffBeatProbesApart ==
  ASSUME NEW f \in FilterShape, NEW h \in HashValue, BlockBits % 2 = 0,
         NEW i \in 0 .. f.k, NEW j \in 0 .. f.k, i % 4 = 1, j % 4 # 1
  PROVE  BlockBit(Walk(f, h)[i]) # BlockBit(Walk(f, h)[j])
<1>0. BlockBits \in Nat \ {0} /\ BlockBits % 2 = 0 /\ f.k \in Nat /\ 2 \in Nat \ {0} /\ 2 \in Int
  BY WidthAssumption DEF FilterShape
<1>1. PICK a \in Int, c \in Int, d \in Int :
        a = Walk(f, h)[0].a /\ c = Walk(f, h)[i].a /\ d = Walk(f, h)[j].a
  <2>1. Walk(f, h)[0] \in ProbeState /\ Walk(f, h)[i] \in ProbeState /\ Walk(f, h)[j] \in ProbeState
    BY <1>0, WalkTypes
  <2> QED
    BY <2>1, WidthAssumption DEF ProbeState
<1>2. OffBeat(i) = 1 /\ OffBeat(j) = 0
  BY DEF OffBeat
<1>3. Same(c, a + 1, 2) /\ Same(d, a + 0, 2)
  BY <1>1, <1>2, WalkParity
<1>4. PICK x \in Int, y \in Int :
        /\ x = c % BlockBits /\ y = d % BlockBits
        /\ Same(x, c, 2) /\ Same(y, d, 2)
  BY <1>0, <1>1, SameWrap
<1>5. a + 1 \in Int /\ a + 0 \in Int
  BY <1>1
<1>6. Same(x, a + 1, 2) /\ Same(a + 0, y, 2)
  <2>1. Same(x, a + 1, 2) /\ Same(y, a + 0, 2)
    BY <1>0, <1>1, <1>3, <1>4, <1>5, SameThrough
  <2> QED
    BY <1>0, <1>4, <1>5, <2>1, SameBack
<1>7. x # y
  <2>1. PICK t \in Int : x - (a + 1) = 2 * t
    BY <1>6 DEF Same
  <2>2. PICK u \in Int : (a + 0) - y = 2 * u
    BY <1>6 DEF Same
  <2> QED
    BY <1>1, <1>4, <2>1, <2>2
<1> QED
  BY <1>1, <1>4, <1>7 DEF BlockBit

-----------------------------------------------------------------------------
(***************************************************************************)
(* Powers of two, as the code's widths are: the members of every set that  *)
(* holds 1 and the double of each member.  An odd factor can be cancelled  *)
(* in a product that a power of two divides.                               *)
(***************************************************************************)
PowerOfTwo(m) ==
  \A S \in SUBSET Nat : (1 \in S /\ \A x \in S : 2 * x \in S) => m \in S

LEMMA OddCancels ==
  ASSUME NEW m, PowerOfTwo(m)
  PROVE  \A c, y, t \in Int : (2 * c + 1) * y = m * t => \E u \in Int : y = m * u
<1> DEFINE Cancels(n) == \A d, z, w \in Int : (2 * d + 1) * z = n * w => \E u \in Int : z = n * u
           S == {n \in Nat : Cancels(n)}
<1>1. Cancels(1)
  <2>1. \A z \in Int : z = 1 * z
    OBVIOUS
  <2> QED
    BY <2>1
<1>2. ASSUME NEW x \in Nat, Cancels(x) PROVE Cancels(2 * x)
  <2>1. SUFFICES ASSUME NEW d \in Int, NEW z \in Int, NEW w \in Int,
                        (2 * d + 1) * z = (2 * x) * w
                 PROVE  \E u \in Int : z = (2 * x) * u
    OBVIOUS
  <2>2. PICK e \in Int, g \in Int : e = d * z /\ g = x * w
    OBVIOUS
  <2>3. (2 * d + 1) * z = 2 * e + z /\ (2 * x) * w = 2 * g
    BY <2>2
  <2>4. PICK v \in Int : v = g - e /\ z = 2 * v
    BY <2>1, <2>2, <2>3
  <2>5. (2 * d + 1) * v = x * w
    <3>1. e = 2 * (d * v)
      BY <2>2, <2>4
    <3>2. (2 * d + 1) * v = 2 * (d * v) + v
      BY <2>4
    <3> QED
      BY <2>2, <2>4, <3>1, <3>2
  <2>6. PICK u \in Int : v = x * u
    <3>1. \A z1, w1 \in Int : (2 * d + 1) * z1 = x * w1 => \E u \in Int : z1 = x * u
      BY <1>2, <2>1
    <3> QED
      BY <2>1, <2>4, <2>5, <3>1, Zenon
  <2>7. z = (2 * x) * u
    BY <2>4, <2>6
  <2> QED
    BY <2>6, <2>7
<1> HIDE DEF Cancels
<1>3. S \in SUBSET Nat /\ 1 \in S /\ \A x \in S : 2 * x \in S
  BY <1>1, <1>2
<1>4. m \in S
  <2> HIDE DEF S
  <2> QED
    BY <1>3 DEF PowerOfTwo
<1>5. Cancels(m)
  BY <1>4
<1> QED
  BY <1>5 DEF Cancels

LEMMA NoSmallMultiple ==
  ASSUME NEW m \in Nat \ {0}, PowerOfTwo(m), NEW c \in Int, NEW y \in Int, NEW t \in Int,
         (2 * c + 1) * y = m * t, -m < y, y < m
  PROVE  y = 0
<1>1. \A d, x, w \in Int : (2 * d + 1) * x = m * w => \E u \in Int : x = m * u
  BY OddCancels
<1>2. PICK u \in Int : y = m * u
  <2> DEFINE OddTimes(d, x) == (2 * d + 1) * x
             Multiple(w) == m * w
  <2>1. \A d, x, w \in Int : OddTimes(d, x) = Multiple(w) => \E u \in Int : x = Multiple(u)
    BY <1>1, Zenon
  <2>2. OddTimes(c, y) = Multiple(t)
    OBVIOUS
  <2>3. \E u \in Int : y = Multiple(u)
    <3> HIDE DEF OddTimes, Multiple
    <3> QED
      BY <2>1, <2>2
  <2> QED
    BY <2>3, Zenon
<1>3. (u >= 1 => m * u >= m) /\ (u <= -1 => m * u <= -m)
  <2>1. \A n \in Nat \ {0}, x \in Int : (x >= 1 => n * x >= n) /\ (x <= -1 => n * x <= -n)
    OBVIOUS
  <2> QED
    BY <2>1
<1>4. u = 0
  BY <1>2, <1>3
<1> QED
  BY <1>2, <1>4

-----------------------------------------------------------------------------
(***************************************************************************)
(* Which probes of a key can be the same bit.  The drift in full, and what *)
(* it means for two probes to meet.                                        *)
(***************************************************************************)
LEMMA DriftInFull ==
  ASSUME NEW i \in Nat
  PROVE  Drift(i) \in Int /\ 6 * Drift(i) = i * (i - 1) * (i - 2)
<1> DEFINE Full(n) == 2 * Growth(n) = n * (n - 1) /\ 6 * Drift(n) = n * (n - 1) * (n - 2)
           G == {n \in 0 .. i : Full(n)}
<1>1. Full(0)
  <2>1. Growth(0) = 0 /\ Drift(0) = 0
    BY DriftTurns
  <2>2. 2 * 0 = 0 * (0 - 1) /\ 6 * 0 = 0 * (0 - 1) * (0 - 2)
    OBVIOUS
  <2> QED
    BY <2>1, <2>2, Zenon
<1>2. ASSUME NEW n \in 0 .. i - 1, Full(n) PROVE Full(n + 1)
  <2>1. PICK x \in Int, y \in Int : x = n * (n - 1) /\ y = n * (n - 1) * (n - 2)
    OBVIOUS
  <2>2. PICK g \in Int, d \in Int :
          /\ g = Growth(n) /\ d = Drift(n)
          /\ Growth(n + 1) = g + n /\ Drift(n + 1) = d + g
    <3>1. n \in Nat
      OBVIOUS
    <3>2. /\ Growth(n) \in Int /\ Drift(n) \in Int
          /\ Growth(n + 1) = Growth(n) + n /\ Drift(n + 1) = Drift(n) + Growth(n)
      BY <3>1, DriftTurns, Zenon
    <3> QED
      BY <3>2, Zenon
  <2>3. n \in Int /\ x \in Int /\ y \in Int
    BY <2>1
  <2>4. 2 * g = x /\ 6 * d = y
    BY <1>2, <2>1, <2>2
  <2>5. (n + 1) * ((n + 1) - 1) = x + 2 * n /\ (n + 1) * ((n + 1) - 1) * ((n + 1) - 2) = y + 3 * x
    BY <2>1
  <2>6. 2 * (g + n) = x + 2 * n /\ 6 * (d + g) = y + 3 * x
    <3> HIDE DEF G, Full
    <3> QED
      BY <2>2, <2>3, <2>4
  <2> QED
    BY <2>2, <2>5, <2>6
<1> HIDE DEF Full
<1>3. 0 \in G /\ \A n \in 0 .. i - 1 : n \in G => n + 1 \in G
  BY <1>1, <1>2
<1>4. i \in G
  <2> HIDE DEF G
  <2> QED
    BY <1>3, WalkInduction
<1>5. Full(i)
  BY <1>4
<1> QED
  BY <1>5, DriftTurns DEF Full

LEMMA StrideIsOdd ==
  ASSUME NEW f \in FilterShape, NEW h \in HashValue
  PROVE  \E c \in Int : Walk(f, h)[0].b = 2 * c + 1
<1>1. h.lo \in Nat /\ U32 \in Nat \ {0}
  BY WidthAssumption DEF HashValue
<1>2. PICK x \in Nat : x = h.lo \div U32
  BY <1>1
<1>3. Walk(f, h)[0] = BlockOffsetHash(f, h) /\ BlockOffsetHash(f, h).b = Odd(x)
  BY <1>2, WalkTurns DEF BlockOffsetHash
<1>4. PICK c \in Int : Odd(x) - 1 = 2 * c
  <2>1. \A n \in Nat : \E c \in Int : Odd(n) - 1 = 2 * c
    BY DEF Odd
  <2> QED
    BY <1>2, <2>1
<1>5. Odd(x) = 2 * c + 1
  <2>1. Odd(x) \in Int
    BY <1>2 DEF Odd
  <2> QED
    BY <1>4, <2>1
<1> QED
  BY <1>3, <1>5

LEMMA MeetingProbes ==
  ASSUME NEW f \in FilterShape, NEW h \in HashValue,
         NEW i \in 0 .. f.k, NEW j \in 0 .. f.k,
         BlockBit(Walk(f, h)[i]) = BlockBit(Walk(f, h)[j]),
         NEW b \in Int, b = Walk(f, h)[0].b
  PROVE  \E t \in Int : (i * b + Drift(i)) - (j * b + Drift(j)) = BlockBits * t
<1>0. BlockBits \in Nat \ {0} /\ f.k \in Nat /\ i \in Nat /\ j \in Nat
  BY WidthAssumption DEF FilterShape
<1>1. PICK a \in Int : a = Walk(f, h)[0].a
  BY WalkTypes, <1>0, WidthAssumption DEF ProbeState
<1>2. PICK u, v, d, e \in Int : u = i * b /\ v = j * b /\ d = Drift(i) /\ e = Drift(j)
  <2>1. i * b \in Int /\ j * b \in Int
    BY <1>0
  <2>2. Drift(i) \in Int /\ Drift(j) \in Int
    BY <1>0, DriftTurns
  <2> QED
    BY <2>1, <2>2
<1>3. PICK p \in Int, q \in Int : p = a + u + d /\ q = a + v + e
  BY <1>1, <1>2
<1>4. p = a + i * b + Drift(i) /\ q = a + j * b + Drift(j)
  BY <1>2, <1>3
<1>5. BlockBit(Walk(f, h)[i]) = p % BlockBits /\ BlockBit(Walk(f, h)[j]) = q % BlockBits
  BY <1>1, <1>4, WalkClosedForm
<1>6. PICK t \in Int : p - q = BlockBits * t
  <2>1. p % BlockBits = q % BlockBits
    BY <1>5
  <2> QED
    BY <1>0, <2>1, SameRemainder
<1>7. p - q = (u + d) - (v + e)
  BY <1>1, <1>2, <1>3
<1> QED
  BY <1>2, <1>6, <1>7

(***************************************************************************)
(* THEOREM: the probes of odd turn of a key are all different bits: in a   *)
(* block of a power of two bits, whatever the hash and the stride, for     *)
(* every k up to twice the block.  Half of what "all k probes are          *)
(* distinct" (filter_blocked.go:227) claims does hold.                     *)
(***************************************************************************)
THEOREM OddProbesDistinct ==
  ASSUME PowerOfTwo(BlockBits),
         NEW f \in FilterShape, f.k <= 2 * BlockBits, NEW h \in HashValue,
         NEW i \in 0 .. f.k, NEW j \in 0 .. f.k, i % 2 = 1, j % 2 = 1,
         BlockBit(Walk(f, h)[i]) = BlockBit(Walk(f, h)[j])
  PROVE  i = j
<1>0. BlockBits \in Nat \ {0} /\ f.k \in Nat /\ i \in Nat /\ j \in Nat
  BY WidthAssumption DEF FilterShape
<1>1. PICK p \in Nat, q \in Nat : i = 2 * p + 1 /\ j = 2 * q + 1
  <2>1. i = 2 * (i \div 2) + 1 /\ j = 2 * (j \div 2) + 1 /\ i \div 2 \in Nat /\ j \div 2 \in Nat
    BY <1>0
  <2> QED
    BY <2>1
<1>2. PICK b \in Int : b = Walk(f, h)[0].b
  BY StrideIsOdd
<1>3. PICK t \in Int : (i * b + Drift(i)) - (j * b + Drift(j)) = BlockBits * t
  BY <1>2, MeetingProbes
<1>4. PICK d \in Int, e \in Int :
        d = Drift(i) /\ e = Drift(j) /\ 6 * d = i * (i - 1) * (i - 2) /\ 6 * e = j * (j - 1) * (j - 2)
  BY <1>0, DriftInFull
<1>5. PICK c \in Int : c = 3 * b + 2 * (p * p + p * q + q * q) - 1
  OBVIOUS
<1>6. (2 * c + 1) * (p - q) = BlockBits * (3 * t)
  <2>1. 6 * d = 2 * (p * (4 * (p * p) - 1)) /\ 6 * e = 2 * (q * (4 * (q * q) - 1))
    BY <1>1, <1>4
  <2>2. 6 * (i * b - j * b) = 2 * ((6 * b) * (p - q))
    BY <1>1
  <2>3. p * (4 * (p * p) - 1) - q * (4 * (q * q) - 1)
          = (p - q) * (4 * (p * p + p * q + q * q) - 1)
    OBVIOUS
  <2>4. (2 * c + 1) * (p - q)
          = (6 * b) * (p - q) + (p - q) * (4 * (p * p + p * q + q * q) - 1)
    BY <1>5
  <2>5. i * b \in Int /\ j * b \in Int
    BY <1>0
  <2>6. 6 * (BlockBits * t) = 6 * (i * b - j * b) + 6 * d - 6 * e
    BY <1>3, <1>4, <2>5
  <2>7. PICK u, v, w, y, z \in Int :
          /\ u = p * (4 * (p * p) - 1) /\ v = q * (4 * (q * q) - 1)
          /\ w = (6 * b) * (p - q) /\ y = BlockBits * t
          /\ z = (p - q) * (4 * (p * p + p * q + q * q) - 1)
    BY <1>0
  <2>8. BlockBits * (3 * t) = 3 * y
    BY <1>0, <2>7
  <2>9. 6 * y = 2 * w + 2 * u - 2 * v /\ u - v = z /\ (2 * c + 1) * (p - q) = w + z
    BY <2>1, <2>2, <2>3, <2>4, <2>6, <2>7
  <2> QED
    BY <2>7, <2>8, <2>9
<1>7. PICK y \in Int, z \in Int : y = p - q /\ z = 3 * t
  BY <1>1, <1>3
<1>8. (2 * c + 1) * y = BlockBits * z
  BY <1>6, <1>7
<1>9. -BlockBits < y /\ y < BlockBits
  BY <1>0, <1>1, <1>7
<1>10. PowerOfTwo(BlockBits)
  OBVIOUS
<1>11. y = 0
  BY <1>0, <1>5, <1>7, <1>8, <1>9, <1>10, NoSmallMultiple, Zenon
<1> QED
  BY <1>1, <1>7, <1>11

(***************************************************************************)
(* THEOREM: the probes with i % 4 = 0 and those with i % 4 = 2 share no    *)
(* bit, in a block of a multiple of four bits: here the odd stride is      *)
(* what keeps them apart.                                                  *)
(***************************************************************************)
THEOREM EvenProbesApart ==
  ASSUME BlockBits % 4 = 0,
         NEW f \in FilterShape, NEW h \in HashValue,
         NEW i \in 0 .. f.k, NEW j \in 0 .. f.k, i % 4 = 0, j % 4 = 2
  PROVE  BlockBit(Walk(f, h)[i]) # BlockBit(Walk(f, h)[j])
<1>0. BlockBits \in Nat \ {0} /\ f.k \in Nat /\ i \in Nat /\ j \in Nat
  BY WidthAssumption DEF FilterShape
<1>1. PICK m \in Nat, n \in Nat : i = 4 * m /\ j = 4 * n + 2
  <2>1. i = 4 * (i \div 4) /\ j = 4 * (j \div 4) + 2 /\ i \div 4 \in Nat /\ j \div 4 \in Nat
    BY <1>0
  <2> QED
    BY <2>1
<1>2. PICK p \in Nat, q \in Nat : p = 2 * m /\ q = 2 * n + 1 /\ i = 2 * p /\ j = 2 * q
  BY <1>1
<1>3. PICK c \in Int, b \in Int : b = Walk(f, h)[0].b /\ b = 2 * c + 1
  BY StrideIsOdd
<1>4. PICK r \in Int : BlockBits = 4 * r
  <2>1. BlockBits = 4 * (BlockBits \div 4) /\ BlockBits \div 4 \in Int
    BY <1>0
  <2> QED
    BY <2>1
<1>5. SUFFICES ASSUME BlockBit(Walk(f, h)[i]) = BlockBit(Walk(f, h)[j]) PROVE FALSE
  OBVIOUS
<1>6. PICK t \in Int : (i * b + Drift(i)) - (j * b + Drift(j)) = BlockBits * t
  BY <1>3, <1>5, MeetingProbes
<1>7. PICK d \in Int, e \in Int :
        d = Drift(i) /\ e = Drift(j) /\ 6 * d = i * (i - 1) * (i - 2) /\ 6 * e = j * (j - 1) * (j - 2)
  BY <1>0, DriftInFull
<1>8. PICK g \in Int : g = 3 * b + 2 * (p * p + p * q + q * q) - 3 * (p + q) + 1
  OBVIOUS
<1>9. 6 * (r * t) = (p - q) * g
  <2>1. /\ 6 * d = 4 * (p * (2 * (p * p) - 3 * p + 1))
        /\ 6 * e = 4 * (q * (2 * (q * q) - 3 * q + 1))
    BY <1>2, <1>7
  <2>2. 6 * (i * b - j * b) = 4 * ((3 * b) * (p - q))
    BY <1>2
  <2>3. p * (2 * (p * p) - 3 * p + 1) - q * (2 * (q * q) - 3 * q + 1)
          = (p - q) * (2 * (p * p + p * q + q * q) - 3 * (p + q) + 1)
    OBVIOUS
  <2>4. (p - q) * g
          = (3 * b) * (p - q) + (p - q) * (2 * (p * p + p * q + q * q) - 3 * (p + q) + 1)
    BY <1>8
  <2>5. i * b \in Int /\ j * b \in Int
    BY <1>0, <1>3
  <2>6. 6 * (BlockBits * t) = 6 * (i * b - j * b) + 6 * d - 6 * e
    BY <1>6, <1>7, <2>5
  <2>7. PICK u, v, w, y, z \in Int :
          /\ u = p * (2 * (p * p) - 3 * p + 1) /\ v = q * (2 * (q * q) - 3 * q + 1)
          /\ w = (3 * b) * (p - q) /\ y = r * t
          /\ z = (p - q) * (2 * (p * p + p * q + q * q) - 3 * (p + q) + 1)
    OBVIOUS
  <2>8. BlockBits * t = 4 * y
    BY <1>4, <2>7
  <2>9. 24 * y = 4 * w + 4 * u - 4 * v /\ u - v = z /\ (p - q) * g = w + z
    BY <2>1, <2>2, <2>3, <2>4, <2>6, <2>7, <2>8
  <2> QED
    BY <2>7, <2>9
<1>10. PICK x \in Int, y \in Int : p - q = 2 * x + 1 /\ g = 2 * y + 1
  <2>1. p - q = 2 * (m - n - 1) + 1
    BY <1>2
  <2>2. PICK w \in Int : w = p * p + p * q + q * q
    OBVIOUS
  <2>3. 3 * b = 6 * c + 3 /\ 3 * (p + q) = 6 * (m + n) + 3
    BY <1>2, <1>3
  <2>4. g = 2 * (3 * c + w - 3 * (m + n)) + 1
    BY <1>2, <1>3, <1>8, <2>2, <2>3
  <2>5. m - n - 1 \in Int /\ 3 * c + w - 3 * (m + n) \in Int
    BY <1>1, <1>3, <2>2
  <2> QED
    BY <2>1, <2>4, <2>5
<1>11. (p - q) * g = 2 * (2 * (x * y) + x + y) + 1
  BY <1>10
<1>12. PICK v, w \in Int : v = r * t /\ w = x * y
  BY <1>4, <1>6, <1>10
<1>13. 6 * v = 2 * (2 * w + x + y) + 1
  BY <1>9, <1>11, <1>12
<1> QED
  BY <1>10, <1>12, <1>13

\* What the turns of two probes that meet can be.
MayMeet(i, j) ==
  \/ i % 2 = 0 /\ j % 4 = i % 4
  \/ i % 2 = 0 /\ j % 4 = 3
  \/ i % 4 = 3 /\ j % 2 = 0

(***************************************************************************)
(* THEOREM: which two probes of a key may be the same bit, whatever the    *)
(* hash: two of even turns that differ by a multiple of four, or one of a  *)
(* turn 3, 7, 11... and one of an even turn.  All others differ.           *)
(***************************************************************************)
THEOREM WhichProbesMeet ==
  ASSUME PowerOfTwo(BlockBits), BlockBits % 4 = 0,
         NEW f \in FilterShape, f.k <= 2 * BlockBits, NEW h \in HashValue,
         NEW i \in 0 .. f.k, NEW j \in 0 .. f.k, i # j,
         BlockBit(Walk(f, h)[i]) = BlockBit(Walk(f, h)[j])
  PROVE  MayMeet(i, j)
<1>0. BlockBits \in Nat \ {0} /\ BlockBits % 2 = 0 /\ f.k \in Nat /\ i \in Nat /\ j \in Nat
  BY WidthAssumption DEF FilterShape
<1>1. ~(i % 2 = 1 /\ j % 2 = 1)
  BY OddProbesDistinct
<1>2. ~(i % 4 = 1 /\ j % 4 # 1) /\ ~(j % 4 = 1 /\ i % 4 # 1)
  BY <1>0, OffBeatProbesApart
<1>3. ~(i % 4 = 0 /\ j % 4 = 2) /\ ~(j % 4 = 0 /\ i % 4 = 2)
  BY EvenProbesApart
<1>4. \A n \in Nat : n % 4 \in 0 .. 3 /\ n % 2 = IF n % 4 \in {0, 2} THEN 0 ELSE 1
  OBVIOUS
<1>5. /\ i % 4 \in 0 .. 3 /\ i % 2 = IF i % 4 \in {0, 2} THEN 0 ELSE 1
      /\ j % 4 \in 0 .. 3 /\ j % 2 = IF j % 4 \in {0, 2} THEN 0 ELSE 1
  BY <1>0, <1>4
<1> QED
  BY <1>1, <1>2, <1>3, <1>5 DEF MayMeet

(***************************************************************************)
(* The bits of a walk do not depend on how long it is.                     *)
(***************************************************************************)
LEMMA LongerWalk ==
  ASSUME NEW f \in FilterShape, NEW g \in FilterShape, NEW h \in HashValue,
         g.numBlocks = f.numBlocks, g.fastrange = f.fastrange,
         NEW i \in 0 .. f.k, i \in 0 .. g.k
  PROVE  BlockBit(Walk(g, h)[i]) = BlockBit(Walk(f, h)[i])
<1>1. BlockOffsetHash(g, h) = BlockOffsetHash(f, h)
  BY DEF BlockOffsetHash, BlockIndex
<1>2. Walk(g, h)[0] = Walk(f, h)[0]
  BY <1>1, WalkTurns
<1> QED
  BY <1>2, WalkClosedForm

-----------------------------------------------------------------------------
(***************************************************************************)
(* THEOREM: both range modes reach every block, as long as there are no    *)
(* more blocks than values of the high half of the hash.                   *)
(***************************************************************************)
THEOREM EveryBlockReached ==
  ASSUME NEW f \in FilterShape, f.numBlocks <= U64, NEW B \in 0 .. f.numBlocks - 1
  PROVE  \E hi \in 0 .. U64 - 1 : BlockIndex(f, hi) = B
<1>1. PICK n \in Nat \ {0}, u \in Nat \ {0} : n = f.numBlocks /\ u = U64 /\ n <= u /\ B \in 0 .. n - 1
  BY WidthAssumption DEF FilterShape
<1>2. CASE f.fastrange
  <2>1. PICK x \in Nat : x = B * u + (n - 1)
    <3>1. B * u \in Nat
      BY <1>1
    <3> QED
      BY <1>1, <3>1
  <2>2. PICK hi \in Nat : hi = x \div n
    BY <1>1, <2>1
  <2>3. PICK r \in 0 .. n - 1 : r = x % n
    BY <1>1, <2>1
  <2>4. x = n * hi + r
    BY <1>1, <2>1, <2>2, <2>3
  <2>5. PICK y \in Int, z \in Int : y = n * hi /\ z = B * u
    BY <1>1, <2>2
  <2>6. z <= y /\ y < z + u
    BY <1>1, <2>1, <2>3, <2>4, <2>5
  <2>7. hi < u
    <3>1. SUFFICES ASSUME hi >= u PROVE FALSE
      BY <1>1, <2>2
    <3>2. n * hi >= n * u
      <4>1. \A c, d, e \in Nat : d >= e => c * d >= c * e
        OBVIOUS
      <4> QED
        BY <1>1, <2>2, <3>1, <4>1
    <3>3. z + u <= n * u
      <4>1. (B + 1) * u <= n * u
        <5>1. \A c, d, e \in Nat : d <= e => d * c <= e * c
          OBVIOUS
        <5>2. B + 1 \in Nat /\ B + 1 <= n
          BY <1>1
        <5> QED
          BY <1>1, <5>1, <5>2
      <4>2. (B + 1) * u = B * u + u
        BY <1>1
      <4> QED
        BY <2>5, <4>1, <4>2
    <3>4. PICK w \in Int : w = n * u
      BY <1>1
    <3> QED
      BY <1>1, <2>5, <2>6, <3>2, <3>3, <3>4
  <2>8. (hi * n) \div u = B
    <3>1. PICK e \in 0 .. u - 1 : e = y - z
      BY <1>1, <2>5, <2>6
    <3>2. PICK v \in Nat : v = hi * n
      BY <1>1, <2>2
    <3>3. v = u * B + e
      <4>1. v = y /\ u * B = z
        BY <1>1, <2>2, <2>5, <3>2
      <4> QED
        BY <2>5, <3>1, <4>1
    <3>4. (u * B + e) \div u = B
      <4>1. u \in Nat \ {0} /\ B \in Int /\ e \in 0 .. u - 1
        BY <1>1, <3>1
      <4> QED
        BY <4>1, RemainderIs, Zenon
    <3> QED
      BY <3>2, <3>3, <3>4
  <2> QED
    BY <1>1, <1>2, <2>2, <2>7, <2>8 DEF BlockIndex
<1>3. CASE ~f.fastrange
  <2>1. B % n = B /\ B \in 0 .. u - 1
    BY <1>1
  <2> QED
    BY <1>1, <1>3, <2>1 DEF BlockIndex
<1> QED
  BY <1>2, <1>3

(***************************************************************************)
(* THEOREM: fastrange is even: hashes of one block differ by less than     *)
(* 2^64 / n, so that no block gets more than its share, rounded up.        *)
(***************************************************************************)
THEOREM BlocksAreEven ==
  ASSUME NEW f \in FilterShape, f.fastrange,
         NEW hi1 \in 0 .. U64 - 1, NEW hi2 \in 0 .. U64 - 1,
         BlockIndex(f, hi1) = BlockIndex(f, hi2)
  PROVE  (hi2 - hi1) * f.numBlocks < U64
<1>1. PICK n \in Nat \ {0}, u \in Nat \ {0} : n = f.numBlocks /\ u = U64
  BY WidthAssumption DEF FilterShape
<1>2. PICK x \in Nat, y \in Nat : x = hi1 * n /\ y = hi2 * n
  BY <1>1
<1>3. PICK d \in Int : d = x \div u /\ d = y \div u
  <2>1. x \div u \in Int
    BY <1>1, <1>2
  <2>2. x \div u = y \div u
    BY <1>1, <1>2 DEF BlockIndex
  <2> QED
    BY <2>1, <2>2
<1>4. PICK r \in 0 .. u - 1, s \in 0 .. u - 1 : x = u * d + r /\ y = u * d + s
  <2>0. x \in Int /\ y \in Int /\ u \in Nat \ {0}
    BY <1>1, <1>2
  <2>1. x = u * (x \div u) + (x % u) /\ x % u \in 0 .. u - 1
    BY <2>0, Quotient, Zenon
  <2>2. y = u * (y \div u) + (y % u) /\ y % u \in 0 .. u - 1
    BY <2>0, Quotient, Zenon
  <2> QED
    BY <1>3, <2>1, <2>2
<1>5. y - x < u
  <2>1. PICK z \in Int : z = u * d
    BY <1>1, <1>3
  <2> QED
    BY <1>1, <1>2, <1>4, <2>1
<1>6. (hi2 - hi1) * n = y - x
  <2>1. \A a, b, c \in Int : (a - b) * c = a * c - b * c
    OBVIOUS
  <2> QED
    BY <1>1, <1>2, <2>1
<1> QED
  BY <1>1, <1>5, <1>6

(***************************************************************************)
(* THEOREM: when the array starts on a cache line of one block, which is   *)
(* what allocBlocked is for, every bit of a key is in one line.            *)
(***************************************************************************)
THEOREM OneCacheLinePerKey ==
  ASSUME NEW bytes \in Nat \ {0}, NEW addr \in Nat, addr % (BlockWords * bytes) = 0,
         NEW f \in FilterShape, NEW h \in HashValue, NEW i \in 0 .. f.k
  PROVE  LET line == BlockWords * bytes IN
         \A byte \in 0 .. bytes - 1 :
           (addr + WordOf(Walk(f, h)[i]) * bytes + byte) \div line =
           addr \div line + BlockIndex(f, h.hi)
<1>0. BlockWords \in Nat \ {0}
  BY BlockWordsFact
<1>1. PICK line \in Nat \ {0} : line = BlockWords * bytes
  BY <1>0
<1>2. PICK B \in Nat, w \in Nat : B = BlockIndex(f, h.hi) /\ w = WordOf(Walk(f, h)[i])
                                  /\ w \in B * BlockWords .. B * BlockWords + BlockWords - 1
  <2>1. h.hi \in 0 .. U64 - 1
    BY DEF HashValue
  <2>2. PICK B \in Nat : B = BlockIndex(f, h.hi)
    BY <2>1, BlockIndexRange DEF FilterShape
  <2>3. WordOf(Walk(f, h)[i]) \in B * BlockWords .. B * BlockWords + BlockWords - 1
    BY <2>2, ProbesInBlock
  <2>4. B * BlockWords \in Nat
    BY <1>0, <2>2
  <2>5. WordOf(Walk(f, h)[i]) \in Nat
    BY <2>3, <2>4
  <2> QED
    BY <2>2, <2>3, <2>5
<1>3. PICK j \in 0 .. BlockWords - 1 : w = B * BlockWords + j
  <2>1. PICK s \in Nat : s = B * BlockWords
    BY <1>0, <1>2
  <2>2. w - s \in 0 .. BlockWords - 1 /\ w = s + (w - s)
    BY <1>0, <1>2, <2>1
  <2> QED
    BY <2>1, <2>2
<1>4. PICK q \in Nat : q = addr \div line /\ addr = line * q
  <2>1. PICK q \in Nat : q = addr \div line
    BY <1>1
  <2>2. addr = line * (addr \div line) + (addr % line)
    <3>1. addr \in Int /\ line \in Nat \ {0}
      BY <1>1
    <3> QED
      BY <3>1, Quotient, Zenon
  <2>3. addr % line = 0
    BY <1>1, Zenon
  <2>4. PICK z \in Nat : z = line * q
    BY <1>1, <2>1
  <2>5. addr = z + 0
    BY <2>1, <2>2, <2>3, <2>4, Zenon
  <2> QED
    BY <2>1, <2>4, <2>5
<1>5. ASSUME NEW byte \in 0 .. bytes - 1
      PROVE  (addr + w * bytes + byte) \div line = q + B
  <2>1. PICK r \in 0 .. line - 1 : r = j * bytes + byte
    <3>1. j * bytes \in Nat /\ j * bytes + bytes <= line
      <4>1. (j + 1) * bytes <= BlockWords * bytes
        <5>1. \A c, d, e \in Nat : d <= e => d * c <= e * c
          OBVIOUS
        <5>2. j + 1 \in Nat /\ j + 1 <= BlockWords /\ bytes \in Nat /\ BlockWords \in Nat
          BY <1>0, <1>3
        <5> QED
          BY <5>1, <5>2
      <4>2. (j + 1) * bytes = j * bytes + bytes /\ j * bytes \in Nat
        BY <1>0, <1>3
      <4> QED
        BY <1>1, <4>1, <4>2
    <3>2. PICK s \in Nat : s = j * bytes
      BY <3>1
    <3> QED
      BY <1>1, <3>1, <3>2
  <2>2. addr + w * bytes + byte = line * (q + B) + r
    <3>1. w * bytes = (B * BlockWords) * bytes + j * bytes
      <4>1. \A a, b, c \in Int : (a + b) * c = a * c + b * c
        OBVIOUS
      <4>2. B * BlockWords \in Int /\ j \in Int /\ bytes \in Int
        BY <1>0, <1>2, <1>3
      <4> QED
        BY <1>3, <4>1, <4>2
    <3>2. (B * BlockWords) * bytes = line * B
      <4>1. \A a, b, c \in Int : (a * b) * c = (b * c) * a
        OBVIOUS
      <4> QED
        BY <1>0, <1>1, <1>2, <4>1
    <3>3. line * (q + B) = line * q + line * B
      BY <1>1, <1>2, <1>4
    <3>4. PICK x \in Int, y \in Int, z \in Int : x = line * q /\ y = line * B /\ z = j * bytes
      BY <1>1, <1>2, <1>3, <1>4
    <3>5. w * bytes = y + z /\ line * (q + B) = x + y /\ addr = x /\ r = z + byte
      BY <1>4, <2>1, <3>1, <3>2, <3>3, <3>4
    <3> QED
      BY <3>4, <3>5
  <2>3. (line * (q + B) + r) \div line = q + B
    <3>1. q + B \in Int /\ line \in Nat \ {0} /\ r \in 0 .. line - 1
      BY <1>1, <1>2, <1>4, <2>1
    <3> QED
      BY <3>1, RemainderIs, Zenon
  <2> QED
    BY <2>2, <2>3
<1> QED
  BY <1>1, <1>2, <1>4, <1>5

=============================================================================
