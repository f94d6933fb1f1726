------------------------- MODULE ConstructionProofs -------------------------
(***************************************************************************)
(* Proofs about the construction of filters, for every call, sequence of   *)
(* options, target rate, block size and address of the allocation.         *)
(***************************************************************************)
EXTENDS Construction, TLAPS

-----------------------------------------------------------------------------
(***************************************************************************)
(* The inductive invariant.  The doubling has passed only block counts     *)
(* that miss the target; the bisection keeps a count that meets it (or one *)
(* past the limit) at hi and nothing that meets it below lo; best is the   *)
(* cheapest result of the k dealt with.                                    *)
(***************************************************************************)
Types(ks) ==
  /\ meets \in [1 .. MaxK -> SUBSET Nat]
  /\ pc \in {"double", "search", "done"}
  /\ k \in 1 .. ks /\ lo \in Nat \ {0} /\ hi \in Nat \ {0}
  /\ best \in [bits : Nat, blocks : Nat, k : 1 .. ks]

Doubling ==
  pc = "double" =>
    /\ hi <= Limit
    /\ Falling => \A nb \in meets[k] \ {0} : hi < 2 * nb

Bisecting ==
  pc = "search" =>
    /\ lo <= hi /\ hi <= 2 * Limit
    /\ hi \in meets[k] \/ hi > Limit
    /\ Falling => \A nb \in meets[k] \ {0} : lo <= nb

\* The values of k whose search is over.
Past(ks) == IF pc = "done" THEN 1 .. ks ELSE 1 .. k - 1

Kept(ks, bits) ==
  /\ \/ best.bits = MaxBits /\ k = 1 /\ pc # "done"
     \/ /\ best.bits = best.blocks * bits /\ best.blocks >= 1
        /\ best.blocks \in meets[best.k] \/ best.blocks > Limit
  /\ Falling => \A n \in Past(ks) : \A nb \in meets[n] \ {0} : best.blocks <= nb

SInv(ks, bits) == Types(ks) /\ Doubling /\ Bisecting /\ Kept(ks, bits)

-----------------------------------------------------------------------------
(***************************************************************************)
(* Keep, and a turn of a search, of one that tries ks values of k and      *)
(* counts bits to a block: BlockSizing's own, and the SIMD tier's.         *)
(***************************************************************************)
Fits(ks, bits) == ks \in 1 .. MaxK /\ bits \in Nat \ {0} /\ 2 * Limit * bits < MaxBits

KeepOf(ks, bits) ==
  /\ pc = "search" /\ lo >= hi
  /\ best' = IF lo * bits < best.bits
               THEN [bits |-> lo * bits, blocks |-> lo, k |-> k]
               ELSE best
  /\ IF k < ks THEN pc' = "double" /\ k' = k + 1 /\ hi' = 1 /\ lo' = 1
               ELSE pc' = "done" /\ UNCHANGED <<k, hi, lo>>
  /\ UNCHANGED meets

Turn(ks, bits) == Double \/ Doubled \/ Bisect \/ KeepOf(ks, bits)

LEMMA TheSearches ==
  /\ Fits(MaxK, BlockBits) /\ (Next => Turn(MaxK, BlockBits))
  /\ Fits(1, SimdBlockBits) /\ (Simd!Next => Turn(1, SimdBlockBits))
<1>1. Fits(MaxK, BlockBits) /\ Fits(1, SimdBlockBits)
  BY SizingAssumption, ConstructionAssumption DEF Fits
<1>2. Next => Turn(MaxK, BlockBits)
  BY DEF Next, Turn, Keep, KeepOf
<1>3. Simd!Next => Turn(1, SimdBlockBits)
  BY DEF Simd!Next, Simd!Double, Simd!Doubled, Simd!Bisect, Simd!Keep, Simd!Mid, Simd!Half,
     Turn, Double, Doubled, Bisect, KeepOf, Mid, Half
<1> QED
  BY <1>1, <1>2, <1>3

LEMMA HalfFacts ==
  ASSUME NEW n \in Nat \ {0}
  PROVE  /\ Half(n) \in Nat \ {0} /\ Half(n) <= n
         /\ \A nb \in Nat \ {0} : n < 2 * nb => Half(n) <= nb
BY DEF Half

(***************************************************************************)
(* Costs in bits compare as costs in blocks.                               *)
(***************************************************************************)
LEMMA BitsOrder ==
  ASSUME NEW bits \in Nat \ {0}, NEW x \in Nat, NEW y \in Nat
  PROVE  x * bits < y * bits <=> x < y
<1>1. bits \in Nat \ {0}
  OBVIOUS
<1>2. ASSUME x < y PROVE x * bits < y * bits
  BY <1>1, <1>2
<1>3. ASSUME y <= x PROVE y * bits <= x * bits
  BY <1>1, <1>3
<1>4. x * bits \in Nat /\ y * bits \in Nat
  BY <1>1
<1> QED
  BY <1>2, <1>3, <1>4

LEMMA InitSInv ==
  ASSUME NEW ks, NEW bits, Fits(ks, bits), Init
  PROVE  SInv(ks, bits)
BY SizingAssumption DEF Fits, Init, SInv, Types, Doubling, Bisecting, Kept, Past

LEMMA DoubleSInv ==
  ASSUME NEW ks, NEW bits, Fits(ks, bits), SInv(ks, bits), Double
  PROVE  SInv(ks, bits)'
<1>1. SInv(ks, bits) /\ Double /\ ks \in 1 .. MaxK /\ MaxK \in Nat
  BY SizingAssumption DEF Fits
<1>2. /\ Types(ks) /\ pc = "double" /\ hi \notin meets[k] /\ hi' = 2 * hi
      /\ meets' = meets /\ k' = k /\ best' = best /\ hi <= Limit
      /\ hi \in Nat \ {0} /\ Limit \in Nat \ {0}
  BY <1>1, SizingAssumption DEF SInv, Double, Doubling, Types
<1>3. Falling' = Falling
  BY <1>2 DEF Falling
<1>4. Falling => \A nb \in meets[k] \ {0} : hi < nb
  <2>1. SUFFICES ASSUME Falling, NEW nb \in meets[k] \ {0}, nb <= hi PROVE FALSE
    BY <1>2 DEF Types
  <2>2. hi \in 1 .. 2 * Limit /\ k \in 1 .. MaxK
    BY <1>1, <1>2 DEF Types
  <2> QED
    BY <1>2, <2>1, <2>2 DEF Falling
<1>5. CASE 2 * hi > Limit
  <2>1. pc' = "search" /\ lo' = Half(2 * hi)
    BY <1>1, <1>5 DEF Double
  <2>2. /\ lo' \in Nat \ {0} /\ lo' <= hi'
        /\ \A nb \in Nat \ {0} : 2 * hi < 2 * nb => lo' <= nb
    BY <1>2, <2>1, HalfFacts
  <2>3. Types(ks)' /\ Past(ks)' = Past(ks)
    BY <1>2, <2>1, <2>2 DEF Types, Past
  <2>4. Doubling' /\ Kept(ks, bits)'
    BY <1>1, <1>2, <1>3, <2>1, <2>3 DEF SInv, Doubling, Kept
  <2>5. Falling => \A nb \in meets[k] \ {0} : lo' <= nb
    BY <1>2, <1>4, <2>2 DEF Types
  <2>6. Bisecting'
    BY <1>2, <1>3, <1>5, <2>1, <2>2, <2>5 DEF Bisecting
  <2> QED
    BY <2>3, <2>4, <2>6 DEF SInv
<1>6. CASE ~(2 * hi > Limit)
  <2>1. pc' = "double" /\ lo' = lo
    BY <1>1, <1>6 DEF Double
  <2>2. Types(ks)' /\ Past(ks)' = Past(ks)
    BY <1>2, <2>1 DEF Types, Past
  <2>3. Bisecting' /\ Kept(ks, bits)'
    BY <1>1, <1>2, <1>3, <2>1, <2>2 DEF SInv, Bisecting, Kept
  <2>4. Doubling'
    BY <1>2, <1>3, <1>4, <1>6, <2>1 DEF Doubling, Types
  <2> QED
    BY <2>2, <2>3, <2>4 DEF SInv
<1> QED
  BY <1>5, <1>6

LEMMA DoubledSInv ==
  ASSUME NEW ks, NEW bits, Fits(ks, bits), SInv(ks, bits), Doubled
  PROVE  SInv(ks, bits)'
<1>1. SInv(ks, bits) /\ Doubled /\ ks \in 1 .. MaxK /\ MaxK \in Nat
  BY SizingAssumption DEF Fits
<1>2. /\ Types(ks) /\ pc = "double" /\ hi \in meets[k] /\ pc' = "search" /\ lo' = Half(hi)
      /\ UNCHANGED <<meets, k, hi, best>> /\ hi <= Limit
      /\ hi \in Nat \ {0} /\ Limit \in Nat \ {0}
      /\ Falling => \A nb \in meets[k] \ {0} : hi < 2 * nb
  BY <1>1, SizingAssumption DEF SInv, Doubled, Doubling, Types
<1>3. Falling' = Falling
  BY <1>2 DEF Falling
<1>4. /\ lo' \in Nat \ {0} /\ lo' <= hi
      /\ \A nb \in Nat \ {0} : hi < 2 * nb => lo' <= nb
  BY <1>2, HalfFacts
<1>5. Types(ks)' /\ Past(ks)' = Past(ks)
  BY <1>2, <1>4 DEF Types, Past
<1>6. Doubling' /\ Kept(ks, bits)'
  BY <1>1, <1>2, <1>3, <1>5 DEF SInv, Doubling, Kept
<1>7. Falling => \A nb \in meets[k] \ {0} : lo' <= nb
  BY <1>2, <1>4 DEF Types
<1>8. Bisecting'
  BY <1>2, <1>3, <1>4, <1>7 DEF Bisecting
<1> QED
  BY <1>5, <1>6, <1>8 DEF SInv

LEMMA BisectSInv ==
  ASSUME NEW ks, NEW bits, Fits(ks, bits), SInv(ks, bits), Bisect
  PROVE  SInv(ks, bits)'
<1>1. SInv(ks, bits) /\ Bisect /\ ks \in 1 .. MaxK /\ MaxK \in Nat
  BY SizingAssumption DEF Fits
<1>2. /\ Types(ks) /\ pc = "search" /\ lo < hi /\ UNCHANGED <<meets, pc, k, best>>
      /\ hi <= 2 * Limit
      /\ hi \in meets[k] \/ hi > Limit
      /\ lo \in Nat \ {0} /\ hi \in Nat \ {0} /\ k \in 1 .. MaxK /\ Limit \in Nat
  BY <1>1, SizingAssumption DEF SInv, Bisect, Bisecting, Types
<1>3. Falling' = Falling
  BY <1>2 DEF Falling
<1>4. Mid \in Nat \ {0} /\ lo <= Mid /\ Mid < hi
  BY <1>2 DEF Mid
<1>5. /\ Falling => \A nb \in meets[k] \ {0} : lo <= nb
      /\ hi \in meets[k] \/ hi > Limit
  BY <1>1, <1>2 DEF SInv, Bisecting
<1>6. CASE Mid \in meets[k]
  <2>1. hi' = Mid /\ lo' = lo
    BY <1>1, <1>6 DEF Bisect
  <2>2. Types(ks)' /\ Past(ks)' = Past(ks)
    BY <1>2, <1>4, <2>1 DEF Types, Past
  <2>3. Doubling' /\ Kept(ks, bits)'
    BY <1>1, <1>2, <1>3, <2>2 DEF SInv, Doubling, Kept
  <2>4. Bisecting'
    BY <1>2, <1>3, <1>4, <1>5, <1>6, <2>1 DEF Bisecting
  <2> QED
    BY <2>2, <2>3, <2>4 DEF SInv
<1>7. CASE Mid \notin meets[k]
  <2>1. hi' = hi /\ lo' = Mid + 1
    BY <1>1, <1>7 DEF Bisect
  <2>2. Types(ks)' /\ Past(ks)' = Past(ks)
    BY <1>2, <1>4, <2>1 DEF Types, Past
  <2>3. Doubling' /\ Kept(ks, bits)'
    BY <1>1, <1>2, <1>3, <2>2 DEF SInv, Doubling, Kept
  <2>4. Falling => \A nb \in meets[k] \ {0} : lo' <= nb
    <3>1. SUFFICES ASSUME Falling, NEW nb \in meets[k] \ {0}, nb <= Mid PROVE FALSE
      BY <1>2, <1>4, <2>1 DEF Types
    <3>2. Mid \in 1 .. 2 * Limit
      BY <1>2, <1>4
    <3> QED
      BY <1>2, <1>7, <3>1, <3>2 DEF Falling
  <2>5. Bisecting'
    BY <1>2, <1>3, <1>4, <1>5, <2>1, <2>4 DEF Bisecting
  <2> QED
    BY <2>2, <2>3, <2>5 DEF SInv
<1> QED
  BY <1>6, <1>7

LEMMA KeepSInv ==
  ASSUME NEW ks, NEW bits, Fits(ks, bits), SInv(ks, bits), KeepOf(ks, bits)
  PROVE  SInv(ks, bits)'
<1>1. SInv(ks, bits) /\ KeepOf(ks, bits) /\ ks \in 1 .. MaxK /\ MaxK \in Nat
  BY SizingAssumption DEF Fits
<1>2. /\ Types(ks) /\ pc = "search" /\ lo = hi /\ lo <= 2 * Limit /\ meets' = meets
      /\ lo \in Nat \ {0} /\ k \in 1 .. ks
      /\ best \in [bits : Nat, blocks : Nat, k : 1 .. ks]
  BY <1>1, SizingAssumption DEF SInv, KeepOf, Bisecting, Types
<1>3. /\ lo \in meets[k] \/ lo > Limit
      /\ Falling => \A nb \in meets[k] \ {0} : lo <= nb
  BY <1>1, <1>2 DEF SInv, Bisecting
<1>4. Falling' = Falling
  BY <1>2 DEF Falling
<1>5. /\ bits \in Nat \ {0} /\ Limit \in Nat /\ Limit >= 1 /\ ks \in Nat
      /\ 2 * Limit * bits < MaxBits /\ MaxBits \in Nat
  BY <1>1, SizingAssumption DEF Fits
<1>6. lo * bits \in Nat /\ lo * bits < MaxBits /\ MaxBits \in Nat
  <2>1. lo * bits <= (2 * Limit) * bits
    BY <1>2, <1>5
  <2>2. (2 * Limit) * bits < MaxBits /\ (2 * Limit) * bits \in Nat /\ MaxBits \in Nat
    BY <1>5
  <2> QED
    BY <1>2, <1>5, <2>1, <2>2
(***************************************************************************)
(* Whichever is kept, it meets its target and costs at most what this k    *)
(* and the ones before would.                                              *)
(***************************************************************************)
<1>7. /\ best' \in [bits : Nat, blocks : Nat, k : 1 .. ks]
      /\ best'.bits = best'.blocks * bits /\ best'.blocks >= 1
      /\ best'.blocks \in meets[best'.k] \/ best'.blocks > Limit
      /\ best'.blocks <= lo
      /\ (best.bits = MaxBits /\ k = 1) \/ best'.blocks <= best.blocks
  <2>1. CASE lo * bits < best.bits
    <3>1. best' = [bits |-> lo * bits, blocks |-> lo, k |-> k]
      BY <1>1, <2>1 DEF KeepOf
    <3>2. (best.bits = MaxBits /\ k = 1) \/ lo <= best.blocks
      <4>1. CASE best.bits = best.blocks * bits
        BY <1>2, <1>5, <2>1, <4>1, BitsOrder
      <4> QED
        BY <1>1, <4>1 DEF SInv, Kept
    <3> QED
      BY <1>2, <1>3, <1>6, <3>1, <3>2
  <2>2. CASE ~(lo * bits < best.bits)
    <3>1. best' = best
      BY <1>1, <2>2 DEF KeepOf
    <3>2. best.bits # MaxBits
      BY <1>2, <1>6, <2>2
    <3>3. /\ best.bits = best.blocks * bits
          /\ best.blocks >= 1
          /\ best.blocks \in meets[best.k] \/ best.blocks > Limit
      BY <1>1, <3>2 DEF SInv, Kept
    <3>4. best.blocks <= lo
      BY <1>2, <1>5, <2>2, <3>3, BitsOrder
    <3> QED
      BY <1>2, <3>1, <3>3, <3>4
  <2> QED
    BY <2>1, <2>2
<1>8. Falling => \A n \in 1 .. k : \A nb \in meets[n] \ {0} : best'.blocks <= nb
  <2>1. SUFFICES ASSUME Falling, NEW n \in 1 .. k, NEW nb \in meets[n] \ {0}
                 PROVE  best'.blocks <= nb
    OBVIOUS
  <2>2. nb \in Nat /\ best'.blocks \in Nat /\ best.blocks \in Nat
    <3>1. n \in 1 .. MaxK
      BY <1>1, <1>2
    <3>2. nb \in Nat
      BY <1>2, <3>1 DEF Types
    <3> QED
      BY <1>2, <1>7, <3>2
  <2>3. CASE n = k
    BY <1>2, <1>3, <1>7, <2>1, <2>2, <2>3
  <2>4. CASE n # k
    <3>1. n \in 1 .. k - 1 /\ n \in Past(ks) /\ k # 1
      BY <1>2, <2>4 DEF Past
    <3>2. best.blocks <= nb
      BY <1>1, <2>1, <3>1 DEF SInv, Kept
    <3> QED
      BY <1>7, <2>2, <3>1, <3>2
  <2> QED
    BY <2>3, <2>4
<1>9. CASE k < ks
  <2>1. pc' = "double" /\ k' = k + 1 /\ hi' = 1 /\ lo' = 1
    BY <1>1, <1>9 DEF KeepOf
  <2>2. Types(ks)' /\ Past(ks)' = 1 .. k
    BY <1>2, <1>5, <1>7, <1>9, <2>1 DEF Types, Past
  <2>3. Doubling' /\ Bisecting'
    <3>1. k + 1 \in 1 .. MaxK
      BY <1>1, <1>2, <1>9
    <3> QED
      BY <1>2, <1>5, <2>1, <3>1 DEF Doubling, Bisecting, Types
  <2>4. Kept(ks, bits)'
    BY <1>2, <1>4, <1>7, <1>8, <2>2 DEF Kept
  <2> QED
    BY <2>2, <2>3, <2>4 DEF SInv
<1>10. CASE ~(k < ks)
  <2>1. pc' = "done" /\ UNCHANGED <<k, hi, lo>>
    BY <1>1, <1>10 DEF KeepOf
  <2>2. Types(ks)' /\ Past(ks)' = 1 .. k
    BY <1>2, <1>5, <1>7, <1>10, <2>1 DEF Types, Past
  <2>3. Doubling' /\ Bisecting'
    BY <2>1 DEF Doubling, Bisecting
  <2>4. Kept(ks, bits)'
    BY <1>2, <1>4, <1>7, <1>8, <2>2 DEF Kept
  <2> QED
    BY <2>2, <2>3, <2>4 DEF SInv
<1> QED
  BY <1>9, <1>10

LEMMA TurnSInv ==
  ASSUME NEW ks, NEW bits, Fits(ks, bits), SInv(ks, bits), Turn(ks, bits) \/ UNCHANGED vars
  PROVE  SInv(ks, bits)'
<1>1. CASE UNCHANGED vars
  BY <1>1 DEF vars, SInv, Types, Doubling, Bisecting, Kept, Past, Falling
<1>2. CASE Turn(ks, bits)
  BY <1>2, DoubleSInv, DoubledSInv, BisectSInv, KeepSInv DEF Turn
<1> QED
  BY <1>1, <1>2

\* What a search that is over has found.
LEMMA SearchOver ==
  ASSUME NEW ks, NEW bits, Fits(ks, bits), SInv(ks, bits), pc = "done"
  PROVE  /\ best.blocks \in Nat \ {0} /\ best.k \in 1 .. ks
         /\ best.blocks \in meets[best.k] \/ best.blocks > Limit
         /\ Falling => \A n \in 1 .. ks : \A nb \in meets[n] \ {0} : best.blocks <= nb
BY DEF SInv, Types, Kept, Past

-----------------------------------------------------------------------------
(***************************************************************************)
(* Arithmetic.                                                             *)
(***************************************************************************)
LEMMA ProductNat ==
  ASSUME NEW x \in Nat, NEW y \in Nat
  PROVE  x * y \in Nat
OBVIOUS

LEMMA DivFacts ==
  ASSUME NEW x \in Nat, NEW y \in Nat \ {0}
  PROVE  /\ x \div y \in Nat
         /\ (x \div y) * y <= x /\ x < (x \div y) * y + y
OBVIOUS

\* The quotient rounded up holds x, and one less would not.
LEMMA DivUpFacts ==
  ASSUME NEW x \in Nat, NEW y \in Nat \ {0}
  PROVE  /\ DivUp(x, y) \in Nat
         /\ x <= DivUp(x, y) * y /\ DivUp(x, y) * y < x + y
<1>1. x + y - 1 \in Nat /\ DivUp(x, y) = (x + y - 1) \div y
  BY DEF DivUp
<1>2. /\ DivUp(x, y) \in Nat
      /\ DivUp(x, y) * y <= x + y - 1 /\ x + y - 1 < DivUp(x, y) * y + y
  BY <1>1, DivFacts
<1>3. DivUp(x, y) * y \in Nat
  BY <1>2, ProductNat
<1> QED
  BY <1>2, <1>3

\* The aligned view starts at a cache line, at most 7 words in.
LEMMA OffsetAligns ==
  ASSUME NEW addr \in Nat, addr % 8 = 0
  PROVE  Offset(addr) \in 0 .. 7 /\ (addr + 8 * Offset(addr)) % 64 = 0
BY DEF Offset

LEMMA BlockSizes ==
  ASSUME NEW tier \in Estimated
  PROVE  BitsOfBlock[tier] \in Nat \ {0}
<1>1. BlockBits \in Nat \ {0} /\ SimdBlockBits \in Nat \ {0}
  BY SizingAssumption, ConstructionAssumption
<1> QED
  BY <1>1 DEF BitsOfBlock, Estimated

-----------------------------------------------------------------------------
(***************************************************************************)
(* The inductive invariant of a construction: the one of its search; what  *)
(* the estimate or the search decided; and what the options applied so     *)
(* far, the first n of the call, made of the config.                       *)
(***************************************************************************)
Searching ==
  /\ want.tier # "simdTuned" => SInv(MaxK, BlockBits)
  /\ want.tier = "simdTuned" => SInv(1, SimdBlockBits) /\ \A n \in 2 .. MaxK : meets[n] = {}

\* What a search found goes into the filter as it is.
Found ==
  want.tier \in Tuned =>
    /\ stage \in {"resolve", "alloc", "panic", "built"} => pc = "done"
    /\ stage \in {"resolve", "alloc"} => size.blocks = best.blocks /\ size.k = best.k
    /\ stage = "built" => /\ built.blocks = best.blocks
                          /\ want.tier = "blockedTuned" => built.k = best.k

Sized ==
  /\ stage = "search" => want.tier \in Tuned
  /\ stage \in {"resolve", "alloc"} /\ want.tier \in Estimated =>
       size.blocks = DivUp(size.m, BitsOfBlock[want.tier])

Known == stage = "alloc" => config.hash \in Kinds

Done == Len(want.opts) - Len(left)

LastOf(opts, j, n, fields) ==
  /\ Sets(opts[j], fields)
  /\ \A i \in j + 1 .. n : ~Sets(opts[i], fields)

SeedBy(opts, n, seed) ==
  \A j \in 1 .. n : LastOf(opts, j, n, {"seed"}) => seed = opts[j].seed

HashBy(opts, n, hash) ==
  \A j \in 1 .. n : LastOf(opts, j, n, {"hash"}) =>
    hash = IF opts[j].set = "secured" THEN SipHash ELSE opts[j].hash

Applied ==
  /\ Len(left) <= Len(want.opts)
  /\ \A j \in 1 .. Len(left) : left[j] = want.opts[Done + j]
  /\ SeedBy(want.opts, Done, config.seed) /\ HashBy(want.opts, Done, config.hash)
  /\ stage # "options" => left = <<>>

BInv ==
  /\ Searching /\ Found /\ BuildTypeOK
  /\ Sized /\ Known /\ Applied
  /\ OwnCacheLine /\ RoundsUp /\ LastOptionWins

-----------------------------------------------------------------------------
LEMMA CallTypes ==
  ASSUME want \in Calls
  PROVE  /\ want.n \in Nat /\ want.fp.num \in Nat /\ want.fp.den \in Nat \ {0}
         /\ want.tier \in Estimated \cup Tuned /\ want.opts \in Seq(Options)
<1>1. want \in [tier : Estimated \cup Tuned, n : Nat, opts : Seq(Options),
                fp : [num : Nat, den : Nat \ {0}]]
  BY ConstructionAssumption
<1> QED
  BY <1>1

LEMMA SearchKept ==
  ASSUME Searching, UNCHANGED <<vars, want>>
  PROVE  Searching'
<1>1. SInv(MaxK, BlockBits) => SInv(MaxK, BlockBits)'
  BY TheSearches, TurnSInv
<1>2. SInv(1, SimdBlockBits) => SInv(1, SimdBlockBits)'
  BY TheSearches, TurnSInv
<1> QED
  BY <1>1, <1>2 DEF Searching, vars

LEMMA SearchTurns ==
  ASSUME Searching, Search
  PROVE  Searching'
<1>1. want' = want /\ meets' = meets
  BY DEF Search, build, Next, Double, Doubled, Bisect, Keep, Simd!Next, Simd!Double,
     Simd!Doubled, Simd!Bisect, Simd!Keep
<1>2. CASE want.tier = "simdTuned"
  <2>1. Turn(1, SimdBlockBits) /\ SInv(1, SimdBlockBits) /\ Fits(1, SimdBlockBits)
    BY <1>2, TheSearches DEF Search, Searching
  <2>2. SInv(1, SimdBlockBits)'
    BY <2>1, TurnSInv
  <2> QED
    BY <1>1, <1>2, <2>2 DEF Searching
<1>3. CASE want.tier # "simdTuned"
  <2>1. Turn(MaxK, BlockBits) /\ SInv(MaxK, BlockBits) /\ Fits(MaxK, BlockBits)
    BY <1>3, TheSearches DEF Search, Searching
  <2>2. SInv(MaxK, BlockBits)'
    BY <2>1, TurnSInv
  <2> QED
    BY <1>1, <1>3, <2>2 DEF Searching
<1> QED
  BY <1>2, <1>3

\* Whichever search it was.
LEMMA BestFound ==
  ASSUME Searching
  PROVE  /\ best.blocks \in Nat /\ best.k \in 1 .. MaxK
         /\ pc = "done" =>
              /\ best.blocks >= 1
              /\ best.blocks \in meets[best.k] \/ best.blocks > Limit
              /\ want.tier = "simdTuned" => best.k = 1
              /\ Falling => \A n \in 1 .. MaxK : \A nb \in meets[n] \ {0} : best.blocks <= nb
<1>0. MaxK \in Nat \ {0}
  BY SizingAssumption
<1>1. CASE want.tier = "simdTuned"
  <2>1. /\ SInv(1, SimdBlockBits) /\ Fits(1, SimdBlockBits)
        /\ \A n \in 2 .. MaxK : meets[n] = {}
    BY <1>1, TheSearches DEF Searching
  <2>2. best.blocks \in Nat /\ best.k \in 1 .. 1
    BY <2>1 DEF SInv, Types
  <2>3. ASSUME pc = "done"
        PROVE  /\ best.blocks \in Nat \ {0}
               /\ best.blocks \in meets[best.k] \/ best.blocks > Limit
               /\ Falling => \A n \in 1 .. 1 : \A nb \in meets[n] \ {0} : best.blocks <= nb
    BY <2>1, <2>3, SearchOver
  <2>4. \A n \in 1 .. MaxK : n \in 1 .. 1 \/ n \in 2 .. MaxK
    BY <1>0
  <2> QED
    BY <1>0, <2>1, <2>2, <2>3, <2>4
<1>2. CASE want.tier # "simdTuned"
  <2>1. SInv(MaxK, BlockBits) /\ Fits(MaxK, BlockBits)
    BY <1>2, TheSearches DEF Searching
  <2>2. best.blocks \in Nat /\ best.k \in 1 .. MaxK
    BY <2>1 DEF SInv, Types
  <2>3. ASSUME pc = "done"
        PROVE  /\ best.blocks \in Nat \ {0}
               /\ best.blocks \in meets[best.k] \/ best.blocks > Limit
               /\ Falling => \A n \in 1 .. MaxK : \A nb \in meets[n] \ {0} : best.blocks <= nb
    BY <2>1, <2>3, SearchOver
  <2> QED
    BY <1>2, <2>2, <2>3
<1> QED
  BY <1>1, <1>2

LEMMA StartBInv == Start => BInv
<1> SUFFICES ASSUME Start PROVE BInv
  OBVIOUS
<1> USE DEF Start, Init
<1>1. want.opts \in Seq(Options) /\ XXH3 \in Kinds
  BY CallTypes, ConstructionAssumption
<1>2. Searching
  <2>1. Init /\ (want.tier = "simdTuned" => \A n \in 2 .. MaxK : meets[n] = {})
    BY SizingAssumption DEF MeetsMatters
  <2>2. SInv(MaxK, BlockBits) /\ SInv(1, SimdBlockBits)
    <3> USE TheSearches
    <3> QED
      BY <2>1, InitSInv
  <2> QED
    BY <2>1, <2>2 DEF Searching
<1>3. BuildTypeOK
  BY <1>1 DEF BuildTypeOK, Stages
<1>4. Len(want.opts) \in Nat /\ Done = 0
  BY <1>1 DEF Done
<1>5. Applied
  BY <1>4 DEF Applied, SeedBy, HashBy
<1> QED
  BY <1>2, <1>3, <1>5
  DEF BInv, Found, Sized, Known, OwnCacheLine, RoundsUp, LastOptionWins

\* An option assigns what it is about and keeps the rest.
LEMMA ApplyFacts ==
  ASSUME NEW o \in Options, NEW c \in [seed : Nat, hash : Kinds \cup {"unknown"}]
  PROVE  /\ Apply(o, c) \in [seed : Nat, hash : Kinds \cup {"unknown"}]
         /\ Apply(o, c).seed = IF Sets(o, {"seed"}) THEN o.seed ELSE c.seed
         /\ Apply(o, c).hash = IF ~Sets(o, {"hash"}) THEN c.hash
                               ELSE IF o.set = "secured" THEN SipHash ELSE o.hash
<1>1. SipHash \in Kinds
  BY ConstructionAssumption
<1>2. o.set \in {"seed", "hash", "secured"} /\ o.seed \in Nat /\ o.hash \in Kinds \cup {"unknown"}
  BY DEF Options
<1>3. CASE o.set = "seed"
  BY <1>1, <1>2, <1>3 DEF Apply, Sets
<1>4. CASE o.set = "hash"
  BY <1>1, <1>2, <1>4 DEF Apply, Sets
<1>5. CASE o.set = "secured"
  BY <1>1, <1>2, <1>5 DEF Apply, Sets
<1> QED
  BY <1>2, <1>3, <1>4, <1>5

LEMMA OptionBInv == BInv /\ ApplyOption => BInv'
<1> SUFFICES ASSUME BInv, ApplyOption PROVE BInv'
  OBVIOUS
<1>1. /\ stage = "options" /\ left # <<>>
      /\ config' = Apply(Head(left), config) /\ left' = Tail(left)
      /\ UNCHANGED <<vars, want, stage, size, built>>
  BY DEF ApplyOption
<1>2. /\ want \in Calls /\ left \in Seq(Options)
      /\ config \in [seed : Nat, hash : Kinds \cup {"unknown"}]
      /\ size \in [m : Nat, blocks : Nat, k : Nat]
  BY DEF BInv, BuildTypeOK
<1>3. want.opts \in Seq(Options) /\ Len(want.opts) \in Nat
  BY <1>2, CallTypes
<1>4. /\ Head(left) = left[1] /\ Head(left) \in Options /\ 1 <= Len(left)
      /\ left' \in Seq(Options) /\ Len(left') = Len(left) - 1
      /\ \A j \in 1 .. Len(left') : left'[j] = left[j + 1]
      /\ Len(left) \in Nat
  BY <1>1, <1>2
<1> DEFINE n == Done + 1
<1>5. /\ Len(left) <= Len(want.opts)
      /\ \A j \in 1 .. Len(left) : left[j] = want.opts[Done + j]
      /\ SeedBy(want.opts, Done, config.seed) /\ HashBy(want.opts, Done, config.hash)
  BY DEF BInv, Applied
<1>6. Done \in Nat /\ Done' = n /\ n \in 1 .. Len(want.opts)
  BY <1>1, <1>3, <1>4, <1>5 DEF Done
<1>7. want.opts[n] = Head(left)
  BY <1>4, <1>5, <1>6
<1>8. /\ config' \in [seed : Nat, hash : Kinds \cup {"unknown"}]
      /\ config'.seed = IF Sets(want.opts[n], {"seed"}) THEN want.opts[n].seed ELSE config.seed
      /\ config'.hash = IF ~Sets(want.opts[n], {"hash"}) THEN config.hash
                        ELSE IF want.opts[n].set = "secured" THEN SipHash ELSE want.opts[n].hash
  BY <1>1, <1>2, <1>4, <1>7, ApplyFacts
<1>9. SeedBy(want.opts, n, config'.seed)
  <2> SUFFICES ASSUME NEW j \in 1 .. n, LastOf(want.opts, j, n, {"seed"})
               PROVE  config'.seed = want.opts[j].seed
    BY DEF SeedBy
  <2>1. CASE j = n
    BY <2>1, <1>8 DEF LastOf
  <2>2. CASE j # n
    <3>1. n \in j + 1 .. n /\ j \in 1 .. Done
      BY <2>2, <1>6
    <3>2. ~Sets(want.opts[n], {"seed"}) /\ LastOf(want.opts, j, Done, {"seed"})
      BY <3>1, <1>6 DEF LastOf
    <3> QED
      BY <3>1, <3>2, <1>5, <1>8 DEF SeedBy
  <2> QED
    BY <2>1, <2>2
<1>10. HashBy(want.opts, n, config'.hash)
  <2> SUFFICES ASSUME NEW j \in 1 .. n, LastOf(want.opts, j, n, {"hash"})
               PROVE  config'.hash = IF want.opts[j].set = "secured" THEN SipHash
                                     ELSE want.opts[j].hash
    BY DEF HashBy
  <2>1. CASE j = n
    BY <2>1, <1>8 DEF LastOf
  <2>2. CASE j # n
    <3>1. n \in j + 1 .. n /\ j \in 1 .. Done
      BY <2>2, <1>6
    <3>2. ~Sets(want.opts[n], {"hash"}) /\ LastOf(want.opts, j, Done, {"hash"})
      BY <3>1, <1>6 DEF LastOf
    <3> QED
      BY <3>1, <3>2, <1>5, <1>8 DEF HashBy
  <2> QED
    BY <2>1, <2>2
<1>11. \A j \in 1 .. Len(left') : left'[j] = want.opts[n + j]
  <2> SUFFICES ASSUME NEW j \in 1 .. Len(left') PROVE left'[j] = want.opts[n + j]
    OBVIOUS
  <2>1. left'[j] = left[j + 1] /\ j + 1 \in 1 .. Len(left) /\ Done + (j + 1) = n + j
    BY <1>4, <1>6
  <2> QED
    BY <2>1, <1>5
<1>12. Applied'
  <2>1. want' = want
    BY <1>1
  <2>2. SeedBy(want'.opts, Done', config'.seed) /\ HashBy(want'.opts, Done', config'.hash)
    BY <2>1, <1>6, <1>9, <1>10
  <2>3. Len(left') <= Len(want'.opts)
    BY <2>1, <1>3, <1>4, <1>5
  <2>4. \A j \in 1 .. Len(left') : left'[j] = want'.opts[Done' + j]
    BY <2>1, <1>6, <1>11
  <2>5. stage' = "options"
    BY <1>1
  <2> QED
    BY <2>2, <2>3, <2>4, <2>5 DEF Applied
<1>13. Searching' /\ Found'
  BY <1>1, SearchKept DEF BInv, Found, vars
<1>14. BuildTypeOK'
  BY <1>1, <1>2, <1>4, <1>8 DEF BuildTypeOK, Stages
<1> QED
  BY <1>1, <1>12, <1>13, <1>14
  DEF BInv, Sized, Known, OwnCacheLine, RoundsUp, LastOptionWins

-----------------------------------------------------------------------------
\* Nothing but an option touches what the options made.
LEMMA AppliedKept ==
  ASSUME Applied, UNCHANGED <<want, left, config>>, stage' # "options" => left = <<>>
  PROVE  Applied'
<1>1. want' = want /\ left' = left /\ config' = config /\ Done' = Done
  BY DEF Done
<1> QED
  BY <1>1 DEF Applied

LEMMA EstimateBInv == BInv /\ SizeByEstimate => BInv'
<1> SUFFICES ASSUME BInv, SizeByEstimate PROVE BInv'
  OBVIOUS
<1> DEFINE m == EstimatedBits(want.n, want.fp)
<1>1. /\ left = <<>> /\ want.tier \in Estimated /\ stage' = "resolve"
      /\ UNCHANGED <<vars, want, left, config, built>>
  BY DEF SizeByEstimate
<1>2. PICK j \in HashCounts(want.n, m) :
        size' = [m |-> m, blocks |-> DivUp(m, BitsOfBlock[want.tier]), k |-> j]
  BY DEF SizeByEstimate
<1>3. /\ want.n \in Nat /\ want.fp.num \in Nat /\ want.fp.den \in Nat \ {0}
      /\ Ln2.num \in Nat /\ Ln2.den \in Nat \ {0} /\ NaNAsUint \subseteq Nat
  BY CallTypes, ConstructionAssumption DEF BInv, BuildTypeOK
<1>4. m \in Nat
  BY <1>3, ProductNat, DivUpFacts DEF EstimatedBits
<1>5. DivUp(m, BitsOfBlock[want.tier]) \in Nat
  BY <1>1, <1>4, BlockSizes, DivUpFacts
<1>6. j \in Nat
  <2>1. CASE want.n = 0
    BY <2>1, <1>2, <1>3 DEF HashCounts
  <2>2. CASE want.n # 0
    <3>1. Ln2.num * m \in Nat
      BY <1>3, <1>4, ProductNat
    <3>2. Ln2.den * want.n \in Nat \ {0}
      BY <2>2, <1>3
    <3>3. j = DivUp(Ln2.num * m, Ln2.den * want.n)
      BY <2>2, <1>2 DEF HashCounts
    <3> HIDE DEF m
    <3> QED
      BY <3>1, <3>2, <3>3, DivUpFacts
  <2> QED
    BY <2>1, <2>2
<1>7. size' \in [m : Nat, blocks : Nat, k : Nat]
      /\ size'.blocks = DivUp(size'.m, BitsOfBlock[want.tier])
  BY <1>2, <1>4, <1>5, <1>6
<1>8. Applied'
  BY <1>1, AppliedKept DEF BInv
<1>9. Searching' /\ Found'
  BY <1>1, SearchKept DEF BInv, Found, Estimated, Tuned, vars
<1>10. BuildTypeOK'
  BY <1>1, <1>7 DEF BInv, BuildTypeOK, Stages
<1>11. Sized'
  BY <1>1, <1>7 DEF Sized
<1> QED
  BY <1>1, <1>8, <1>9, <1>10, <1>11
  DEF BInv, Known, OwnCacheLine, RoundsUp, LastOptionWins

LEMMA BeginBInv == BInv /\ BeginSearch => BInv'
<1> SUFFICES ASSUME BInv, BeginSearch PROVE BInv'
  OBVIOUS
<1>1. /\ left = <<>> /\ want.tier \in Tuned /\ stage' = "search"
      /\ UNCHANGED <<vars, want, left, config, size, built>>
  BY DEF BeginSearch
<1>2. Applied'
  BY <1>1, AppliedKept DEF BInv
<1>3. Searching' /\ Found'
  BY <1>1, SearchKept DEF BInv, Found, vars
<1>4. BuildTypeOK'
  BY <1>1 DEF BInv, BuildTypeOK, Stages
<1> QED
  BY <1>1, <1>2, <1>3, <1>4
  DEF BInv, Sized, Known, OwnCacheLine, RoundsUp, LastOptionWins

LEMMA SearchBInv == BInv /\ Search => BInv'
<1> SUFFICES ASSUME BInv, Search PROVE BInv'
  OBVIOUS
<1>1. /\ Next \/ Simd!Next
      /\ UNCHANGED <<want, stage, left, config, size, built>>
  BY DEF Search, build
<1>2. Searching' /\ Found'
  BY <1>1, SearchTurns DEF BInv, Found, Search
<1>3. Applied'
  BY <1>1, AppliedKept DEF BInv, Applied
<1>4. BuildTypeOK'
  BY <1>1 DEF BInv, BuildTypeOK
<1> QED
  BY <1>1, <1>2, <1>3, <1>4
  DEF BInv, Sized, Known, OwnCacheLine, RoundsUp, LastOptionWins, Last

LEMMA EndBInv == BInv /\ EndSearch => BInv'
<1> SUFFICES ASSUME BInv, EndSearch PROVE BInv'
  OBVIOUS
<1>1. /\ stage = "search" /\ pc = "done" /\ stage' = "resolve"
      /\ size' = [m |-> 0, blocks |-> best.blocks, k |-> best.k]
      /\ UNCHANGED <<vars, want, left, config, built>>
  BY DEF EndSearch
<1>2. want'.tier \notin Estimated
  BY <1>1 DEF BInv, Sized, Estimated, Tuned
<1>3. size' \in [m : Nat, blocks : Nat, k : Nat]
  BY <1>1, BestFound, SizingAssumption DEF BInv
<1>4. Applied'
  BY <1>1, AppliedKept DEF BInv, Applied
<1>5. Searching' /\ Found'
  BY <1>1, SearchKept DEF BInv, Found, vars
<1>6. BuildTypeOK'
  BY <1>1, <1>3 DEF BInv, BuildTypeOK, Stages
<1> QED
  BY <1>1, <1>2, <1>4, <1>5, <1>6
  DEF BInv, Sized, Known, OwnCacheLine, RoundsUp, LastOptionWins

LEMMA ResolveBInv == BInv /\ Resolve => BInv'
<1> SUFFICES ASSUME BInv, Resolve PROVE BInv'
  OBVIOUS
<1>1. /\ stage = "resolve" /\ stage' \in {"alloc", "panic"}
      /\ stage' = "alloc" => config.hash \in Kinds
      /\ UNCHANGED <<vars, want, left, config, size, built>>
  BY DEF Resolve
<1>2. Applied'
  BY <1>1, AppliedKept DEF BInv, Applied
<1>3. Searching' /\ Found'
  BY <1>1, SearchKept DEF BInv, Found, vars
<1>4. BuildTypeOK'
  BY <1>1 DEF BInv, BuildTypeOK, Stages
<1> QED
  BY <1>1, <1>2, <1>3, <1>4
  DEF BInv, Sized, Known, OwnCacheLine, RoundsUp, LastOptionWins

\* What the allocation promises of blocks that were rounded up.
LEMMA AtLeastOneRounds ==
  ASSUME NEW m \in Nat, NEW y \in Nat \ {0},
         NEW b, b = AtLeastOne(DivUp(m, y))
  PROVE  m <= b * y /\ (b - 1) * y < AtLeastOne(m)
<1> DEFINE d == DivUp(m, y)
<1>1. d \in Nat /\ m <= d * y /\ d * y < m + y
  BY DivUpFacts
<1>2. CASE d = 0
  <2>1. m = 0 /\ b = 1
    BY <1>1, <1>2 DEF AtLeastOne
  <2> QED
    BY <2>1 DEF AtLeastOne
<1>3. CASE d # 0
  <2>1. b = d /\ (d - 1) * y = d * y - y
    BY <1>1, <1>3 DEF AtLeastOne
  <2>2. d * y \in Nat
    BY <1>1, ProductNat
  <2>3. m <= b * y /\ (b - 1) * y < m
    BY <1>1, <2>1, <2>2
  <2>4. m <= AtLeastOne(m) /\ AtLeastOne(m) \in Nat
    BY DEF AtLeastOne
  <2>5. (b - 1) * y \in Int
    BY <2>1, <2>2
  <2> QED
    BY <2>3, <2>4, <2>5
<1> QED
  BY <1>1, <1>2, <1>3

LEMMA AllocBInv ==
  ASSUME BInv, NEW addr \in Bases, Alloc(addr)
  PROVE  BInv'
<1> DEFINE b == AtLeastOne(size.blocks)
<1>1. /\ stage = "alloc" /\ stage' = "built"
      /\ built' = [blocks |-> b, seed |-> config.seed, hash |-> config.hash,
                   k |-> IF want.tier \in {"simd", "simdTuned"} THEN 8 ELSE AtLeastOne(size.k),
                   array |-> IF want.tier \in {"blocked", "blockedTuned"}
                               THEN Aligned(addr, b) ELSE NoArray]
      /\ UNCHANGED <<vars, want, left, config, size>>
  BY DEF Alloc
<1>2. /\ size \in [m : Nat, blocks : Nat, k : Nat] /\ want \in Calls
      /\ config.hash \in Kinds /\ left = <<>>
  BY <1>1 DEF BInv, BuildTypeOK, Known, Applied
<1>3. b \in Nat \ {0} /\ AtLeastOne(size.k) \in Nat \ {0}
  BY <1>2 DEF AtLeastOne
<1>4. BuildTypeOK'
  <2>1. built'.k \in Nat \ {0}
    BY <1>1, <1>3
  <2> QED
    BY <1>1, <1>2, <1>3, <2>1 DEF BInv, BuildTypeOK, Stages
<1>5. OwnCacheLine'
  <2>1. CASE want.tier \in {"blocked", "blockedTuned"}
    <3>1. /\ built'.array = [base |-> addr, off |-> Offset(addr), len |-> 8 * b,
                             backing |-> 8 * b + 8]
          /\ built'.blocks = b
      BY <1>1, <2>1 DEF Aligned
    <3>2. Offset(addr) \in 0 .. 7 /\ (addr + 8 * Offset(addr)) % 64 = 0
      BY ConstructionAssumption, OffsetAligns
    <3>3. Offset(addr) + 8 * b <= 8 * b + 8
      BY <1>3, <3>2
    <3> QED
      BY <3>1, <3>2, <3>3 DEF OwnCacheLine
  <2>2. CASE want.tier \notin {"blocked", "blockedTuned"}
    BY <1>1, <2>2 DEF OwnCacheLine
  <2> QED
    BY <2>1, <2>2
<1>6. RoundsUp'
  <2> SUFFICES ASSUME want.tier \in Estimated PROVE RoundsUp'
    BY <1>1 DEF RoundsUp
  <2>1. b = AtLeastOne(DivUp(size.m, BitsOfBlock[want.tier]))
    BY <1>1 DEF BInv, Sized
  <2>2. /\ size.m <= b * BitsOfBlock[want.tier]
        /\ (b - 1) * BitsOfBlock[want.tier] < AtLeastOne(size.m)
    <3> HIDE DEF b
    <3> QED
      BY <1>2, <2>1, BlockSizes, AtLeastOneRounds
  <2> QED
    BY <1>1, <2>2 DEF RoundsUp
<1>7. LastOptionWins'
  <2>1. want.opts \in Seq(Options) /\ Done = Len(want.opts)
    BY <1>2, CallTypes DEF Done
  <2>2. /\ SeedBy(want.opts, Len(want.opts), config.seed)
        /\ HashBy(want.opts, Len(want.opts), config.hash)
    BY <2>1 DEF BInv, Applied
  <2>3. want' = want /\ built'.seed = config.seed /\ built'.hash = config.hash
    BY <1>1
  <2> QED
    BY <2>2, <2>3 DEF LastOptionWins, Last, SeedBy, HashBy, LastOf
<1>8. Applied'
  BY <1>1, AppliedKept DEF BInv, Applied
<1>9. Searching'
  BY <1>1, SearchKept DEF BInv
<1>10. Found'
  <2> SUFFICES ASSUME want.tier \in Tuned PROVE Found'
    BY <1>1 DEF Found
  <2>1. pc = "done" /\ size.blocks = best.blocks /\ size.k = best.k
    BY <1>1 DEF BInv, Found
  <2>2. b = best.blocks /\ AtLeastOne(size.k) = best.k
    BY <2>1, BestFound, SizingAssumption DEF BInv, AtLeastOne
  <2> QED
    BY <1>1, <2>1, <2>2 DEF Found, vars
<1> QED
  BY <1>1, <1>4, <1>5, <1>6, <1>7, <1>8, <1>9, <1>10 DEF BInv, Sized, Known

LEMMA NextBInv == BInv /\ [Build]_all => BInv'
<1> SUFFICES ASSUME BInv, [Build]_all PROVE BInv'
  OBVIOUS
<1>1. CASE UNCHANGED all
  <2>1. UNCHANGED <<want, stage, left, config, size, built>> /\ UNCHANGED vars
    BY <1>1 DEF all, build
  <2>2. Applied'
    BY <2>1, AppliedKept DEF BInv, Applied
  <2>3. Searching' /\ Found'
    BY <2>1, SearchKept DEF BInv, Found, vars
  <2>4. BuildTypeOK'
    BY <2>1 DEF BInv, BuildTypeOK
  <2> QED
    BY <2>1, <2>2, <2>3, <2>4
    DEF BInv, Sized, Known, OwnCacheLine, RoundsUp, LastOptionWins, Last
<1>2. CASE Build
  BY <1>2, OptionBInv, EstimateBInv, BeginBInv, SearchBInv, EndBInv, ResolveBInv, AllocBInv
  DEF Build
<1> QED
  BY <1>1, <1>2

-----------------------------------------------------------------------------
\* The inductive invariant holds throughout a construction.
THEOREM ConstructionInvariance == BuildSpec => []BInv
BY StartBInv, NextBInv, PTL DEF BuildSpec

(***************************************************************************)
(* Every constructor keeps its state typed, and the filter it returns has  *)
(* at least one block, one probe and a hash that is registered.            *)
(***************************************************************************)
THEOREM BuiltFilterTyped == BuildSpec => []BuildTypeOK
<1>1. BInv => BuildTypeOK
  BY DEF BInv
<1> QED
  BY <1>1, ConstructionInvariance, PTL

(***************************************************************************)
(* Each block is one cache line and lies in the allocation, wherever the   *)
(* allocator put it and however many blocks there are.                     *)
(***************************************************************************)
THEOREM BlocksOwnCacheLines == BuildSpec => []OwnCacheLine
<1>1. BInv => OwnCacheLine
  BY DEF BInv
<1> QED
  BY <1>1, ConstructionInvariance, PTL

(***************************************************************************)
(* A filter sized by estimate has the bits of the estimate and less than a *)
(* block more, for every n, rate and block size.                           *)
(***************************************************************************)
THEOREM EstimateRoundedUp == BuildSpec => []RoundsUp
<1>1. BInv => RoundsUp
  BY DEF BInv
<1> QED
  BY <1>1, ConstructionInvariance, PTL

(***************************************************************************)
(* The last option about a field decides it, for sequences of any length.  *)
(***************************************************************************)
THEOREM LastOptionDecides == BuildSpec => []LastOptionWins
<1>1. BInv => LastOptionWins
  BY DEF BInv
<1> QED
  BY <1>1, ConstructionInvariance, PTL

-----------------------------------------------------------------------------
(***************************************************************************)
(* THEOREM: for every estimate, the search of either tier ends with a size *)
(* whose estimated rate meets the target, or it gave up past the limit.    *)
(***************************************************************************)
THEOREM TunedSizeMeets == BuildSpec => []TunedMeetsTarget
<1>1. BInv => TunedMeetsTarget
  BY BestFound DEF BInv, TunedMeetsTarget
<1> QED
  BY <1>1, ConstructionInvariance, PTL

(***************************************************************************)
(* THEOREM: for every estimate that falls as blocks grow, no other k and   *)
(* no smaller block count meet the target.                                 *)
(***************************************************************************)
THEOREM TunedSizeIsCheapest == BuildSpec => []TunedIsCheapest
<1>1. BInv => TunedIsCheapest
  BY BestFound DEF BInv, TunedIsCheapest
<1> QED
  BY <1>1, ConstructionInvariance, PTL

\* A tuned filter meets its target, and as cheaply as can be.
BuiltAsTuned ==
  stage = "built" /\ want.tier \in Tuned =>
    LET hashes == IF want.tier = "simdTuned" THEN 1 ELSE built.k IN
    /\ built.blocks \in meets[hashes] \/ built.blocks > Limit
    /\ Falling => \A n \in 1 .. MaxK : \A nb \in meets[n] \ {0} : built.blocks <= nb

(***************************************************************************)
(* THEOREM: what the search found is what is built.  NewBlockedTuned and   *)
(* NewSimdTuned return a filter whose blocks, with its k, meet the target  *)
(* as estimated, and which no cheaper one does: neither the clamps to at   *)
(* least one nor the steps between the search and the allocation change    *)
(* that.                                                                   *)
(***************************************************************************)
THEOREM TunedFilterMeets == BuildSpec => []BuiltAsTuned
<1>1. ASSUME BInv PROVE BuiltAsTuned
  <2> SUFFICES ASSUME stage = "built", want.tier \in Tuned
               PROVE  LET hashes == IF want.tier = "simdTuned" THEN 1 ELSE built.k IN
                      /\ built.blocks \in meets[hashes] \/ built.blocks > Limit
                      /\ Falling => \A n \in 1 .. MaxK : \A nb \in meets[n] \ {0} : built.blocks <= nb
    BY DEF BuiltAsTuned
  <2>1. /\ pc = "done" /\ built.blocks = best.blocks
        /\ want.tier # "simdTuned" => built.k = best.k
    BY <1>1 DEF BInv, Found, Tuned
  <2>2. (IF want.tier = "simdTuned" THEN 1 ELSE built.k) = best.k
    BY <1>1, <2>1, BestFound DEF BInv
  <2> QED
    BY <1>1, <2>1, <2>2, BestFound DEF BInv
<1> QED
  BY <1>1, ConstructionInvariance, PTL
=============================================================================
