--------------------------- MODULE ProbeWalkProofs ---------------------------
(***************************************************************************)
(* Proofs about the distinct bits of a key: for every hash, filter, width  *)
(* of the registers and number of blocks, and from them the invariant of   *)
(* ProbeWalk.                                                              *)
(***************************************************************************)
EXTENDS ProbeWalk, BlockProbeProofs, FiniteSetTheorems

\* The bits that the first n probes of a hash set.
Seen(f, h, n) == {BlockBit(Walk(f, h)[m]) : m \in 0 .. n - 1}

OneIf(c) == IF c THEN 1 ELSE 0

\* Whether probe n finds its bit set by a probe before it.
Again(f, h, n) == OneIf(BlockBit(Walk(f, h)[n]) \in Seen(f, h, n))

LEMMA SeenGrows ==
  ASSUME NEW f, NEW h, NEW n \in Nat
  PROVE  /\ IsFiniteSet(Seen(f, h, n)) /\ Cardinality(Seen(f, h, n)) \in Nat
         /\ Cardinality(Seen(f, h, n + 1)) = Cardinality(Seen(f, h, n)) + 1 - Again(f, h, n)
<1>1. IsFiniteSet(0 .. n - 1)
  BY FS_Interval
<1>2. IsFiniteSet(Seen(f, h, n))
  <2> DEFINE Bit(m) == BlockBit(Walk(f, h)[m])
  <2>1. PICK g : g = [m \in 0 .. n - 1 |-> Bit(m)]
    OBVIOUS
  <2>2. g \in Surjection(0 .. n - 1, Seen(f, h, n))
    BY <2>1 DEF Surjection, Seen
  <2> QED
    BY <1>1, <2>2, FS_Surjection
<1>3. Cardinality(Seen(f, h, n)) \in Nat
  BY <1>2, FS_CardinalityType
<1>4. Seen(f, h, n + 1) = Seen(f, h, n) \cup {BlockBit(Walk(f, h)[n])}
  <2>1. 0 .. (n + 1) - 1 = (0 .. n - 1) \cup {n}
    OBVIOUS
  <2> QED
    BY <2>1 DEF Seen
<1>5. Cardinality(Seen(f, h, n + 1)) =
        IF BlockBit(Walk(f, h)[n]) \in Seen(f, h, n)
          THEN Cardinality(Seen(f, h, n)) ELSE Cardinality(Seen(f, h, n)) + 1
  BY <1>2, <1>4, FS_AddElement
<1> QED
  BY <1>2, <1>3, <1>5 DEF Again, OneIf

LEMMA SeenNone ==
  ASSUME NEW f, NEW h
  PROVE  Cardinality(Seen(f, h, 0)) = 0
<1>1. Seen(f, h, 0) = {}
  BY DEF Seen
<1> QED
  BY <1>1, FS_EmptySet

-----------------------------------------------------------------------------
(***************************************************************************)
(* The 256 odd strides of a block of 512 bits: of the twenty probes at     *)
(* most three meet one before them.  Probes that WhichProbesMeet tells     *)
(* apart are left out.  The one lemma about particular numbers.            *)
(***************************************************************************)
\* Where the probes of a stride stand, from the first, and which repeat a place.
Places(t) == [m \in 0 .. 19 |-> (m * t + Drift(m)) % 512]

Repeat(p, n) == OneIf(\E m \in 0 .. n - 1 : MayMeet(m, n) /\ p[m] = p[n])

LEMMA PlacesType ==
  ASSUME NEW t \in 0 .. 511
  PROVE  Places(t) \in [0 .. 19 -> Int]
<1>1. \A m \in 0 .. 19 : m \in Nat /\ m * t \in Int
  OBVIOUS
<1>2. \A m \in 0 .. 19 : Drift(m) \in Int
  BY <1>1, DriftTurns
<1>3. \A m \in 0 .. 19 : m * t + Drift(m) \in Int
  BY <1>1, <1>2
<1> DEFINE Place(m) == (m * t + Drift(m)) % 512
<1>4. ASSUME NEW m \in 0 .. 19 PROVE Place(m) \in Int
  <2>1. PICK x \in Int : x = m * t + Drift(m)
    BY <1>3
  <2>2. x % 512 \in Int
    OBVIOUS
  <2> QED
    BY <2>1, <2>2
<1>5. Places(t) = [m \in 0 .. 19 |-> Place(m)]
  BY Zenon DEF Places
<1> QED
  <2> HIDE DEF Place
  <2> QED
    BY <1>4, <1>5

\* The others of the twenty cannot.
Repeats(p) ==
  Repeat(p, 3) + Repeat(p, 4) + Repeat(p, 6) + Repeat(p, 7) + Repeat(p, 8)
    + Repeat(p, 10) + Repeat(p, 11) + Repeat(p, 12) + Repeat(p, 14) + Repeat(p, 15)
    + Repeat(p, 16) + Repeat(p, 18) + Repeat(p, 19)

LEMMA FewMeetings ==
  ASSUME NEW t \in 0 .. 511, t % 2 = 1
  PROVE  Repeats(Places(t)) <= 3
<1>0. SUFFICES ASSUME NEW p \in [0 .. 19 -> Int], p = Places(t)
               PROVE  Repeats(p) <= 3
  BY PlacesType
<1>1. /\ p[0] \in Int /\ p[2] \in Int /\ p[3] \in Int /\ p[4] \in Int
      /\ p[6] \in Int /\ p[7] \in Int /\ p[8] \in Int /\ p[10] \in Int
      /\ p[11] \in Int /\ p[12] \in Int /\ p[14] \in Int /\ p[15] \in Int
      /\ p[16] \in Int /\ p[18] \in Int /\ p[19] \in Int
  OBVIOUS
<1>2. PICK p0, p2, p3, p4, p6, p7, p8, p10, p11, p12, p14, p15, p16, p18, p19 \in Int :
        /\ p0 = p[0] /\ p2 = p[2] /\ p3 = p[3] /\ p4 = p[4] /\ p6 = p[6]
        /\ p7 = p[7] /\ p8 = p[8] /\ p10 = p[10] /\ p11 = p[11] /\ p12 = p[12]
        /\ p14 = p[14] /\ p15 = p[15] /\ p16 = p[16] /\ p18 = p[18]
        /\ p19 = p[19]
  BY <1>1
<1>3. /\ p0 = (0 * t + 0) % 512 /\ p2 = (2 * t + 0) % 512
      /\ p3 = (3 * t + 1) % 512 /\ p4 = (4 * t + 4) % 512
      /\ p6 = (6 * t + 20) % 512 /\ p7 = (7 * t + 35) % 512
      /\ p8 = (8 * t + 56) % 512 /\ p10 = (10 * t + 120) % 512
      /\ p11 = (11 * t + 165) % 512 /\ p12 = (12 * t + 220) % 512
      /\ p14 = (14 * t + 364) % 512 /\ p15 = (15 * t + 455) % 512
      /\ p16 = (16 * t + 560) % 512 /\ p18 = (18 * t + 816) % 512
      /\ p19 = (19 * t + 969) % 512
  BY <1>0, <1>2 DEF Places, Drift
<1>4. Repeat(p, 3) = OneIf(p0 = p3 \/ p2 = p3)
  BY <1>2 DEF Repeat, MayMeet, OneIf
<1>5. Repeat(p, 4) = OneIf(p0 = p4 \/ p3 = p4)
  BY <1>2 DEF Repeat, MayMeet, OneIf
<1>6. Repeat(p, 6) = OneIf(p2 = p6 \/ p3 = p6)
  BY <1>2 DEF Repeat, MayMeet, OneIf
<1>7. Repeat(p, 7) = OneIf(p0 = p7 \/ p2 = p7 \/ p4 = p7 \/ p6 = p7)
  BY <1>2 DEF Repeat, MayMeet, OneIf
<1>8. Repeat(p, 8) = OneIf(p0 = p8 \/ p3 = p8 \/ p4 = p8 \/ p7 = p8)
  BY <1>2 DEF Repeat, MayMeet, OneIf
<1>9. Repeat(p, 10) = OneIf(p2 = p10 \/ p3 = p10 \/ p6 = p10 \/ p7 = p10)
  BY <1>2 DEF Repeat, MayMeet, OneIf
<1>10. Repeat(p, 11) = OneIf(p0 = p11 \/ p2 = p11 \/ p4 = p11 \/ p6 = p11 \/
                             p8 = p11 \/ p10 = p11)
  BY <1>2 DEF Repeat, MayMeet, OneIf
<1>11. Repeat(p, 12) = OneIf(p0 = p12 \/ p3 = p12 \/ p4 = p12 \/ p7 = p12 \/
                             p8 = p12 \/ p11 = p12)
  BY <1>2 DEF Repeat, MayMeet, OneIf
<1>12. Repeat(p, 14) = OneIf(p2 = p14 \/ p3 = p14 \/ p6 = p14 \/ p7 = p14 \/
                             p10 = p14 \/ p11 = p14)
  BY <1>2 DEF Repeat, MayMeet, OneIf
<1>13. Repeat(p, 15) = OneIf(p0 = p15 \/ p2 = p15 \/ p4 = p15 \/ p6 = p15 \/
                             p8 = p15 \/ p10 = p15 \/ p12 = p15 \/ p14 = p15)
  BY <1>2 DEF Repeat, MayMeet, OneIf
<1>14. Repeat(p, 16) = OneIf(p0 = p16 \/ p3 = p16 \/ p4 = p16 \/ p7 = p16 \/
                             p8 = p16 \/ p11 = p16 \/ p12 = p16 \/ p15 = p16)
  BY <1>2 DEF Repeat, MayMeet, OneIf
<1>15. Repeat(p, 18) = OneIf(p2 = p18 \/ p3 = p18 \/ p6 = p18 \/ p7 = p18 \/
                             p10 = p18 \/ p11 = p18 \/ p14 = p18 \/ p15 = p18)
  BY <1>2 DEF Repeat, MayMeet, OneIf
<1>16. Repeat(p, 19) = OneIf(p0 = p19 \/ p2 = p19 \/ p4 = p19 \/ p6 = p19 \/
                             p8 = p19 \/ p10 = p19 \/ p12 = p19 \/ p14 = p19 \/
                             p16 = p19 \/ p18 = p19)
  BY <1>2 DEF Repeat, MayMeet, OneIf
<1>17. CASE t \in 0 .. 63
  BY <1>17, <1>3, <1>4, <1>5, <1>6, <1>7, <1>8, <1>9, <1>10, <1>11, <1>12,
     <1>13, <1>14, <1>15, <1>16, SMTT(60) DEF OneIf, Repeats
<1>18. CASE t \in 64 .. 127
  BY <1>18, <1>3, <1>4, <1>5, <1>6, <1>7, <1>8, <1>9, <1>10, <1>11, <1>12,
     <1>13, <1>14, <1>15, <1>16, SMTT(60) DEF OneIf, Repeats
<1>19. CASE t \in 128 .. 191
  BY <1>19, <1>3, <1>4, <1>5, <1>6, <1>7, <1>8, <1>9, <1>10, <1>11, <1>12,
     <1>13, <1>14, <1>15, <1>16, SMTT(60) DEF OneIf, Repeats
<1>20. CASE t \in 192 .. 255
  BY <1>20, <1>3, <1>4, <1>5, <1>6, <1>7, <1>8, <1>9, <1>10, <1>11, <1>12,
     <1>13, <1>14, <1>15, <1>16, SMTT(60) DEF OneIf, Repeats
<1>21. CASE t \in 256 .. 319
  BY <1>21, <1>3, <1>4, <1>5, <1>6, <1>7, <1>8, <1>9, <1>10, <1>11, <1>12,
     <1>13, <1>14, <1>15, <1>16, SMTT(60) DEF OneIf, Repeats
<1>22. CASE t \in 320 .. 383
  BY <1>22, <1>3, <1>4, <1>5, <1>6, <1>7, <1>8, <1>9, <1>10, <1>11, <1>12,
     <1>13, <1>14, <1>15, <1>16, SMTT(60) DEF OneIf, Repeats
<1>23. CASE t \in 384 .. 447
  BY <1>23, <1>3, <1>4, <1>5, <1>6, <1>7, <1>8, <1>9, <1>10, <1>11, <1>12,
     <1>13, <1>14, <1>15, <1>16, SMTT(60) DEF OneIf, Repeats
<1>24. CASE t \in 448 .. 511
  BY <1>24, <1>3, <1>4, <1>5, <1>6, <1>7, <1>8, <1>9, <1>10, <1>11, <1>12,
     <1>13, <1>14, <1>15, <1>16, SMTT(60) DEF OneIf, Repeats
<1> QED
  BY <1>17, <1>18, <1>19, <1>20, <1>21, <1>22, <1>23, <1>24

-----------------------------------------------------------------------------
LEMMA Is512 ==
  ASSUME BlockBits = 512
  PROVE  PowerOfTwo(BlockBits) /\ BlockBits % 4 = 0
<1>1. SUFFICES ASSUME NEW S \in SUBSET Nat, 1 \in S, \A x \in S : 2 * x \in S
               PROVE  512 \in S
  BY DEF PowerOfTwo
<1>2. 2 * 1 \in S /\ 2 * 1 = 2
  BY <1>1
<1>3. 4 \in S
  BY <1>1, <1>2
<1>4. 8 \in S
  BY <1>1, <1>3
<1>5. 16 \in S
  BY <1>1, <1>4
<1>6. 32 \in S
  BY <1>1, <1>5
<1>7. 64 \in S
  BY <1>1, <1>6
<1>8. 128 \in S
  BY <1>1, <1>7
<1>9. 256 \in S
  BY <1>1, <1>8
<1> QED
  BY <1>1, <1>9

(***************************************************************************)
(* Of twenty probes those that meet an earlier one, turn by turn.          *)
(***************************************************************************)
LEMMA TwentyProbes ==
  ASSUME BlockBits = 512, NEW f \in FilterShape, f.k = 20, NEW h \in HashValue
  PROVE  /\ \A n \in 0 .. 19 : Again(f, h, n) \in {0, 1}
         /\ \A n \in {0, 1, 2, 5, 9, 13, 17} : Again(f, h, n) = 0
         /\ Again(f, h, 3) + Again(f, h, 4) + Again(f, h, 6) + Again(f, h, 7) + Again(f, h, 8)
              + Again(f, h, 10) + Again(f, h, 11) + Again(f, h, 12) + Again(f, h, 14)
              + Again(f, h, 15) + Again(f, h, 16) + Again(f, h, 18) + Again(f, h, 19) <= 3
<1> DEFINE t == Walk(f, h)[0].b % BlockBits
<1>1. t \in 0 .. 511 /\ t % 2 = 1
  <2>1. PICK c \in Int : Walk(f, h)[0].b = 2 * c + 1
    BY StrideIsOdd
  <2>2. (2 * c + 1) % 512 \in 0 .. 511 /\ ((2 * c + 1) % 512) % 2 = 1
    OBVIOUS
  <2> QED
    BY <2>1, <2>2
<1>2. PICK p \in [0 .. 19 -> Int] : p = Places(t)
  <2> HIDE DEF t
  <2> QED
    BY <1>1, PlacesType
<1>3. \A m, n \in 0 .. 19 : BlockBit(Walk(f, h)[m]) = BlockBit(Walk(f, h)[n]) => p[m] = p[n]
  <2> SUFFICES ASSUME NEW m \in 0 .. 19, NEW n \in 0 .. 19,
                      BlockBit(Walk(f, h)[m]) = BlockBit(Walk(f, h)[n])
               PROVE  p[m] = p[n]
    OBVIOUS
  <2>1. m \in 0 .. f.k /\ n \in 0 .. f.k
    OBVIOUS
  <2>2. (m * t + Drift(m)) % BlockBits = (n * t + Drift(n)) % BlockBits
    BY <2>1, CollisionsByStride
  <2> HIDE DEF t
  <2> QED
    BY <1>2, <2>2 DEF Places
<1> HIDE DEF t
<1>4. \A n \in 0 .. 19 :
        Again(f, h, n) \in {0, 1} /\ Repeat(p, n) \in {0, 1} /\ Again(f, h, n) <= Repeat(p, n)
  <2>1. SUFFICES ASSUME NEW n \in 0 .. 19, BlockBit(Walk(f, h)[n]) \in Seen(f, h, n)
                 PROVE  \E m \in 0 .. n - 1 : MayMeet(m, n) /\ p[m] = p[n]
    BY DEF Again, Repeat, OneIf
  <2>2. PICK m \in 0 .. n - 1 : BlockBit(Walk(f, h)[m]) = BlockBit(Walk(f, h)[n])
    BY <2>1 DEF Seen
  <2>3. m \in 0 .. 19 /\ m \in 0 .. f.k /\ n \in 0 .. f.k /\ m # n /\ f.k <= 2 * BlockBits
    OBVIOUS
  <2>4. MayMeet(m, n)
    BY <2>2, <2>3, Is512, WhichProbesMeet
  <2> QED
    BY <1>3, <2>2, <2>3, <2>4
<1>5. \A n \in {0, 1, 2, 5, 9, 13, 17} : Again(f, h, n) = 0
  <2>1. \A n \in {0, 1, 2, 5, 9, 13, 17} : \A m \in 0 .. n - 1 : ~MayMeet(m, n)
    BY DEF MayMeet
  <2>2. \A n \in {0, 1, 2, 5, 9, 13, 17} : Repeat(p, n) = 0
    BY <2>1 DEF Repeat, OneIf
  <2> QED
    BY <1>4, <2>2
<1>6. Repeats(p) <= 3
  <2>1. t \in 0 .. 511 /\ t % 2 = 1
    BY <1>1
  <2>2. Repeats(Places(t)) <= 3
    BY <2>1, FewMeetings, Zenon
  <2> QED
    BY <1>2, <2>2
<1> QED
  BY <1>4, <1>5, <1>6 DEF Repeats

\* The same for walks of any length up to twenty.
LEMMA LosesAtMostThree ==
  ASSUME BlockBits = 512, NEW f \in FilterShape, NEW h \in HashValue,
         NEW n \in 0 .. 20, n <= f.k
  PROVE  Cardinality(Seen(f, h, n)) + 3 >= n
<1> DEFINE g == [numBlocks |-> f.numBlocks, k |-> 20, fastrange |-> f.fastrange]
           C(m) == Cardinality(Seen(g, h, m))
           A(m) == Again(g, h, m)
<1>1. g \in FilterShape /\ g.k = 20 /\ g.numBlocks = f.numBlocks /\ g.fastrange = f.fastrange
  BY DEF FilterShape
<1>2. Seen(f, h, n) = Seen(g, h, n)
  <2>1. \A m \in 0 .. n - 1 : BlockBit(Walk(g, h)[m]) = BlockBit(Walk(f, h)[m])
    <3>1. \A m \in 0 .. n - 1 : m \in 0 .. f.k /\ m \in 0 .. 20
      BY DEF FilterShape
    <3> HIDE DEF g
    <3> QED
      BY <1>1, <3>1, LongerWalk
  <2> QED
    BY <2>1 DEF Seen
<1> HIDE DEF g
<1>3. \A m \in 0 .. 19 : C(m) \in Nat /\ C(m + 1) = C(m) + 1 - A(m) /\ A(m) \in {0, 1}
  BY <1>1, SeenGrows, TwentyProbes
<1>4. C(0) = 0
  BY SeenNone
<1>5. /\ \A m \in {0, 1, 2, 5, 9, 13, 17} : A(m) = 0
      /\ A(3) + A(4) + A(6) + A(7) + A(8) + A(10) + A(11) + A(12) + A(14) + A(15) + A(16)
           + A(18) + A(19) <= 3
  BY <1>1, TwentyProbes
<1> HIDE DEF C, A
<1>6. /\ C(1) = C(0) + 1 - A(0) /\ C(2) = C(1) + 1 - A(1) /\ C(3) = C(2) + 1 - A(2)
      /\ C(4) = C(3) + 1 - A(3) /\ C(5) = C(4) + 1 - A(4) /\ C(6) = C(5) + 1 - A(5)
      /\ C(7) = C(6) + 1 - A(6) /\ C(8) = C(7) + 1 - A(7) /\ C(9) = C(8) + 1 - A(8)
      /\ C(10) = C(9) + 1 - A(9) /\ C(11) = C(10) + 1 - A(10) /\ C(12) = C(11) + 1 - A(11)
      /\ C(13) = C(12) + 1 - A(12) /\ C(14) = C(13) + 1 - A(13) /\ C(15) = C(14) + 1 - A(14)
      /\ C(16) = C(15) + 1 - A(15) /\ C(17) = C(16) + 1 - A(16) /\ C(18) = C(17) + 1 - A(17)
      /\ C(19) = C(18) + 1 - A(18) /\ C(20) = C(19) + 1 - A(19)
  BY <1>3
<1>7. C(n) + 3 >= n
  BY <1>3, <1>4, <1>5, <1>6
<1> QED
  BY <1>2, <1>7 DEF C

LEMMA LosesNoneOfThree ==
  ASSUME BlockBits % 4 = 0, NEW f \in FilterShape, f.k >= 3, NEW h \in HashValue,
         NEW n \in 0 .. 3
  PROVE  Cardinality(Seen(f, h, n)) = n
<1> DEFINE C(m) == Cardinality(Seen(f, h, m))
           A(m) == Again(f, h, m)
<1>1. A(0) = 0 /\ A(1) = 0 /\ A(2) = 0
  <2>1. /\ BlockBit(Walk(f, h)[0]) # BlockBit(Walk(f, h)[1])
        /\ BlockBit(Walk(f, h)[1]) # BlockBit(Walk(f, h)[2])
        /\ BlockBit(Walk(f, h)[0]) # BlockBit(Walk(f, h)[2])
    BY FirstProbesDistinct
  <2>2. 0 .. 0 - 1 = {} /\ 0 .. 1 - 1 = {0} /\ 0 .. 2 - 1 = {0, 1}
    OBVIOUS
  <2>3. /\ BlockBit(Walk(f, h)[0]) \notin Seen(f, h, 0)
        /\ BlockBit(Walk(f, h)[1]) \notin Seen(f, h, 1)
        /\ BlockBit(Walk(f, h)[2]) \notin Seen(f, h, 2)
    BY <2>1, <2>2 DEF Seen
  <2> QED
    BY <2>3 DEF Again, OneIf
<1>2. C(0) = 0
  BY SeenNone
<1>3. C(0 + 1) = C(0) + 1 - A(0) /\ C(1 + 1) = C(1) + 1 - A(1) /\ C(2 + 1) = C(2) + 1 - A(2)
  BY SeenGrows
<1> HIDE DEF C, A
<1>4. C(0) = 0 /\ C(1) = 1 /\ C(2) = 2 /\ C(3) = 3
  BY <1>1, <1>2, <1>3
<1>5. C(n) = n
  BY <1>4
<1> QED
  BY <1>5 DEF C

LEMMA SeenHalf ==
  ASSUME PowerOfTwo(BlockBits), NEW f \in FilterShape, f.k <= 2 * BlockBits,
         NEW h \in HashValue
  PROVE  Cardinality(Seen(f, h, f.k)) >= f.k \div 2
<1>0. f.k \in Nat
  BY DEF FilterShape
<1>1. PICK n \in Nat : n = f.k \div 2 /\ 2 * n <= f.k
  <2>1. f.k \div 2 \in Nat /\ 2 * (f.k \div 2) <= f.k
    BY <1>0
  <2> QED
    BY <2>1
<1> DEFINE S == Seen(f, h, f.k)
           g == [m \in 1 .. n |-> BlockBit(Walk(f, h)[2 * m - 1])]
<1>2. \A m \in 1 .. n : 2 * m - 1 \in 0 .. f.k - 1 /\ 2 * m - 1 \in 0 .. f.k /\ (2 * m - 1) % 2 = 1
  BY <1>0, <1>1
<1>3. g \in [1 .. n -> S]
  BY <1>2 DEF Seen
<1>4. \A m, l \in 1 .. n : g[m] = g[l] => m = l
  <2> SUFFICES ASSUME NEW m \in 1 .. n, NEW l \in 1 .. n, g[m] = g[l] PROVE m = l
    OBVIOUS
  <2>1. PICK x \in Int, y \in Int : x = 2 * m - 1 /\ y = 2 * l - 1
    OBVIOUS
  <2>2. BlockBit(Walk(f, h)[x]) = BlockBit(Walk(f, h)[y])
    BY <2>1
  <2>3. x \in 0 .. f.k /\ y \in 0 .. f.k /\ x % 2 = 1 /\ y % 2 = 1
    BY <1>2, <2>1
  <2>4. x = y
    BY <2>2, <2>3, OddProbesDistinct
  <2> QED
    BY <2>1, <2>4
<1>5. g \in Injection(1 .. n, S)
  <2> HIDE DEF g
  <2> QED
    BY <1>3, <1>4 DEF Injection, IsInjective
<1>6. IsFiniteSet(S) /\ Cardinality(S) \in Nat
  BY <1>0, SeenGrows
<1>7. Cardinality(1 .. n) <= Cardinality(S)
  <2> HIDE DEF S, g
  <2> QED
    BY <1>5, <1>6, FS_Injection
<1>8. Cardinality(1 .. n) = n
  BY FS_Interval
<1> QED
  BY <1>1, <1>7, <1>8

-----------------------------------------------------------------------------
(***************************************************************************)
(* The positions of a key are the bits its probes see, each in its word.   *)
(***************************************************************************)
LEMMA PositionsAreSeen ==
  ASSUME NEW f \in FilterShape, NEW h \in HashValue
  PROVE  IsFiniteSet(Positions(f, h)) /\ Cardinality(Positions(f, h)) = Cardinality(Seen(f, h, f.k))
<1>0. f.k \in Nat /\ WordBits \in Nat \ {0} /\ BlockBits \in Nat \ {0} /\ f.k - 1 \in Int
  BY WidthAssumption DEF FilterShape
<1>1. PICK off \in Nat : \A m \in 0 .. f.k - 1 : Walk(f, h)[m] \in ProbeState /\ Walk(f, h)[m].off = off
  <2>1. \A m \in 0 .. f.k - 1 : m \in 0 .. f.k
    BY <1>0
  <2>2. \A m \in 0 .. f.k - 1 : /\ Walk(f, h)[m] \in ProbeState
                                /\ Walk(f, h)[m].off = BlockIndex(f, h.hi) * BlockWords
    BY <2>1, WalkTypes
  <2>3. BlockIndex(f, h.hi) * BlockWords \in Nat
    <3>1. 0 \in 0 .. f.k
      BY <1>0
    <3>2. Walk(f, h)[0] \in ProbeState /\ Walk(f, h)[0].off = BlockIndex(f, h.hi) * BlockWords
      BY <3>1, WalkTypes
    <3> QED
      BY <3>2 DEF ProbeState
  <2> QED
    BY <2>2, <2>3
<1> DEFINE S == Seen(f, h, f.k)
           At(b) == <<off + b \div WordBits, b % WordBits>>
           g == [b \in S |-> At(b)]
<1>2. \A m \in 0 .. f.k - 1 : <<WordOf(Walk(f, h)[m]), BitOf(Walk(f, h)[m])>> = At(BlockBit(Walk(f, h)[m]))
  BY <1>1 DEF WordOf, BitOf
<1>3. Positions(f, h) = {At(b) : b \in S}
  <2>1. Positions(f, h) = {<<WordOf(Walk(f, h)[m]), BitOf(Walk(f, h)[m])>> : m \in 0 .. f.k - 1}
    BY DEF Positions
  <2> HIDE DEF At
  <2> QED
    BY <1>2, <2>1 DEF Seen
<1>4. IsFiniteSet(S)
  BY <1>0, SeenGrows
<1>5. g \in Surjection(S, Positions(f, h))
  <2> HIDE DEF At
  <2> QED
    BY <1>3 DEF Surjection
<1>6. \A b \in S : b \in Int
  <2>1. \A m \in 0 .. f.k - 1 : BlockBit(Walk(f, h)[m]) \in Int
    BY <1>0, <1>1 DEF BlockBit, ProbeState
  <2> QED
    BY <2>1 DEF Seen
<1>7. \A b, c \in S : At(b) = At(c) => b = c
  <2> SUFFICES ASSUME NEW b \in S, NEW c \in S, At(b) = At(c) PROVE b = c
    OBVIOUS
  <2>1. b \in Int /\ c \in Int
    BY <1>6
  <2>2. off + b \div WordBits = off + c \div WordBits /\ b % WordBits = c % WordBits
    OBVIOUS
  <2>3. PICK x \in Int, y \in Int : x = b \div WordBits /\ y = c \div WordBits
    BY <1>0, <2>1, Quotient
  <2>4. x = y
    BY <1>1, <2>2, <2>3
  <2>5. b = WordBits * x + (b % WordBits) /\ c = WordBits * y + (c % WordBits)
    BY <1>0, <2>1, <2>3, Quotient
  <2> QED
    BY <2>2, <2>4, <2>5
<1>8. g \in Injection(S, Positions(f, h))
  <2> HIDE DEF At, S
  <2>1. g \in [S -> Positions(f, h)]
    BY <1>3
  <2> QED
    BY <1>7, <2>1 DEF Injection, IsInjective
<1> QED
  BY <1>4, <1>5, <1>8, FS_Surjection

(***************************************************************************)
(* THEOREM: in a block of 512 bits a key has at most three bits less than  *)
(* k, for k up to 20: for every hash, filter, number of blocks, range mode *)
(* and width of words and registers.                                       *)
(***************************************************************************)
THEOREM AtMostThreeLost ==
  ASSUME BlockBits = 512, NEW f \in FilterShape, f.k <= 20, NEW h \in HashValue
  PROVE  Cardinality(Positions(f, h)) + 3 >= f.k
<1>1. f.k \in 0 .. 20
  BY DEF FilterShape
<1>2. Cardinality(Seen(f, h, f.k)) + 3 >= f.k
  BY <1>1, LosesAtMostThree
<1> QED
  BY <1>2, PositionsAreSeen

(***************************************************************************)
(* THEOREM: in a block of any power of two bits, and for every k up to     *)
(* twice as many, at least half of the k bits of a key are distinct.       *)
(***************************************************************************)
THEOREM HalfTheBitsDistinct ==
  ASSUME PowerOfTwo(BlockBits), NEW f \in FilterShape, f.k <= 2 * BlockBits,
         NEW h \in HashValue
  PROVE  Cardinality(Positions(f, h)) >= f.k \div 2
BY SeenHalf, PositionsAreSeen

-----------------------------------------------------------------------------
(***************************************************************************)
(* ProbeWalk runs the walk of a hash with the stride it chose, in a filter *)
(* of one block.                                                           *)
(***************************************************************************)
Lone == [numBlocks |-> 1, k |-> MaxK + 3, fastrange |-> FALSE]

WInv ==
  /\ i \in 0 .. MaxK
  /\ \E h \in HashValue : s = Walk(Lone, h)[i] /\ visited = Seen(Lone, h, i)

LEMMA LoneShape == Lone \in FilterShape /\ Lone.k = MaxK + 3
BY MaxKAssumption DEF Lone, FilterShape

LEMMA InitWInv == Init => WInv
<1> SUFFICES ASSUME Init PROVE WInv
  OBVIOUS
<1>0. /\ BlockBits \in Nat \ {0} /\ U32 \in Nat \ {0} /\ U64 \in Nat \ {0}
      /\ U32 % BlockBits = 0 /\ MaxK \in Nat
  BY WidthAssumption, MaxKAssumption
<1>1. i = 0 /\ visited = {}
  BY DEF Init
<1>2. PICK h2 \in 0 .. BlockBits - 1 : s = [off |-> 0, a |-> 0, b |-> Odd(h2)]
  BY DEF Init
<1>3. h2 \in 0 .. U32 - 1
  <2>1. PICK c \in Int : U32 = BlockBits * c
    BY <1>0, Quotient
  <2>2. c >= 1
    <3>1. \A x \in Nat \ {0}, y \in Int : y <= 0 => x * y <= 0
      OBVIOUS
    <3> QED
      BY <1>0, <2>1, <3>1
  <2>3. \A x \in Nat \ {0}, y \in Int : y >= 1 => x * y >= x
    OBVIOUS
  <2>4. BlockBits <= U32
    BY <1>0, <2>1, <2>2, <2>3
  <2> QED
    BY <1>0, <2>4
<1>4. PICK lo \in Nat : lo = U32 * h2 /\ lo < U32 * U32
  <2>1. \A x \in Nat \ {0} : \A y \in 0 .. x - 1 : x * y \in Nat /\ x * y < x * x
    OBVIOUS
  <2> QED
    BY <1>0, <1>3, <2>1
<1>5. lo % U32 = 0 /\ lo \div U32 = h2
  <2>1. lo = U32 * h2 + 0 /\ 0 \in 0 .. U32 - 1 /\ h2 \in Int
    BY <1>0, <1>4
  <2> QED
    BY <1>0, <2>1, RemainderIs
<1> DEFINE h == [hi |-> 0, lo |-> lo]
<1>6. h \in HashValue
  <2>1. U32 * U32 \in Nat
    BY <1>0
  <2> QED
    BY <1>0, <1>4, <2>1 DEF HashValue
<1>7. BlockIndex(Lone, 0) = 0
  BY DEF BlockIndex, Lone
<1>8. BlockOffsetHash(Lone, h) = s
  <2>1. BlockWords \in Nat
    BY BlockWordsFact
  <2> QED
    BY <1>2, <1>5, <1>7, <2>1 DEF BlockOffsetHash
<1>9. Walk(Lone, h)[0] = s
  <2> HIDE DEF h
  <2> QED
    BY <1>8, LoneShape, WalkTurns
<1>10. Seen(Lone, h, 0) = {}
  BY DEF Seen
<1> QED
  BY <1>0, <1>1, <1>6, <1>9, <1>10 DEF WInv

LEMMA TurnWInv == WInv /\ [Turn]_vars => WInv'
<1> SUFFICES ASSUME WInv, [Turn]_vars PROVE WInv'
  OBVIOUS
<1>1. CASE UNCHANGED vars
  BY <1>1 DEF vars, WInv
<1>2. CASE Turn
  <2>1. PICK h \in HashValue : s = Walk(Lone, h)[i] /\ visited = Seen(Lone, h, i)
    BY DEF WInv
  <2>2. /\ i \in 0 .. MaxK /\ i < MaxK /\ MaxK \in Nat
        /\ visited' = visited \cup {BlockBit(s)} /\ s' = Advance(s, i) /\ i' = i + 1
    BY <1>2, MaxKAssumption DEF WInv, Turn
  <2>3. i \in 0 .. Lone.k - 1
    BY <2>2, LoneShape
  <2>4. s' = Walk(Lone, h)[i']
    BY <2>1, <2>2, <2>3, LoneShape, WalkTurns
  <2>5. visited' = Seen(Lone, h, i')
    <3>1. 0 .. (i + 1) - 1 = (0 .. i - 1) \cup {i}
      BY <2>2
    <3> QED
      BY <2>1, <2>2, <3>1 DEF Seen
  <2>6. i' \in 0 .. MaxK
    BY <2>2
  <2> QED
    BY <2>1, <2>4, <2>5, <2>6 DEF WInv
<1> QED
  BY <1>1, <1>2

(***************************************************************************)
(* THEOREM: ProbeWalk is the walk of a key: each of its behaviours goes    *)
(* through the probes of one hash and collects their bits.                 *)
(***************************************************************************)
THEOREM WalksAKey == Spec => []WInv
BY InitWInv, TurnWInv, PTL DEF Spec

(***************************************************************************)
(* THEOREM: what the run probe_walk checks for 2^32 cut to 1024, for every *)
(* width of the registers: no key loses more than three of up to 20 bits   *)
(* of a block of 512, and none of the first three.                         *)
(***************************************************************************)
THEOREM FewBitsLost ==
  ASSUME BlockBits = 512, MaxK <= 20
  PROVE  Spec => []NearlyDistinct
<1>1. WInv => NearlyDistinct
  <2> SUFFICES ASSUME WInv PROVE NearlyDistinct
    OBVIOUS
  <2>1. PICK h \in HashValue : visited = Seen(Lone, h, i)
    BY DEF WInv
  <2>2. i \in 0 .. 20 /\ i <= Lone.k /\ Lone.k >= 3 /\ Lone \in FilterShape
    BY MaxKAssumption, LoneShape DEF WInv
  <2>3. Cardinality(visited) + 3 >= i
    BY <2>1, <2>2, LosesAtMostThree
  <2>4. i <= 3 => Cardinality(visited) = i
    <3>1. BlockBits % 4 = 0
      OBVIOUS
    <3>2. i <= 3 => i \in 0 .. 3
      BY <2>2
    <3> QED
      BY <2>1, <2>2, <3>1, <3>2, LosesNoneOfThree
  <2> QED
    BY <2>3, <2>4 DEF NearlyDistinct
<1> QED
  BY <1>1, WalksAKey, PTL
=============================================================================
