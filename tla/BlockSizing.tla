----------------------------- MODULE BlockSizing -----------------------------
(***************************************************************************)
(* How a tuned filter gets its size: NewBlockedTuned and minBlocksForK     *)
(* (filter_blocked.go), minSimdBlocks (filter_simd.go) with its one k.     *)
(*                                                                         *)
(* For each k a doubling search finds a block count whose estimated        *)
(* false-positive rate meets the target, a binary search the fewest, and   *)
(* the cheapest of all k is kept.  The floating-point estimate is          *)
(* abstracted to meets: for each k, the block counts that meet the target. *)
(* Nothing is assumed of it; where it matters that the estimate falls as   *)
(* blocks grow, as the code's comments say, the property says so.          *)
(***************************************************************************)
EXTENDS Integers

CONSTANTS BlockBits,
          MaxK,        \* k runs from 1 to MaxK: 20, or 1 for the SIMD tier
          Limit,       \* the doubling stops past it: 1 << 42
          MaxBits,     \* bestBits before the first k: the largest uint64
          Estimates    \* the estimates that are tried

ASSUME SizingAssumption ==
  /\ BlockBits \in Nat \ {0} /\ MaxK \in Nat \ {0} /\ Limit \in Nat \ {0}
  /\ MaxBits \in Nat /\ 2 * Limit * BlockBits < MaxBits
  /\ Estimates \subseteq [1 .. MaxK -> SUBSET Nat]

VARIABLES meets,   \* k |-> the block counts with fpAt(nb) <= fp
          pc,      \* "double", "search" or "done"
          k, lo, hi,
          best     \* bestBits, bestBlocks, bestK
vars == <<meets, pc, k, lo, hi, best>>

-----------------------------------------------------------------------------
Init ==
  /\ meets \in Estimates
  /\ pc = "double" /\ k = 1 /\ lo = 1 /\ hi = 1
  /\ best = [bits |-> MaxBits, blocks |-> 0, k |-> 1]

\* lo := hi / 2, at least 1.
Half(n) == IF n \div 2 < 1 THEN 1 ELSE n \div 2

(***************************************************************************)
(* for fpAt(hi) > fp { hi *= 2; if hi > limit { break } }                  *)
(***************************************************************************)
Double ==
  /\ pc = "double" /\ hi \notin meets[k]
  /\ hi' = 2 * hi
  /\ IF 2 * hi > Limit THEN pc' = "search" /\ lo' = Half(2 * hi)
                       ELSE pc' = "double" /\ lo' = lo
  /\ UNCHANGED <<meets, k, best>>

Doubled ==
  /\ pc = "double" /\ hi \in meets[k]
  /\ pc' = "search" /\ lo' = Half(hi)
  /\ UNCHANGED <<meets, k, hi, best>>

(***************************************************************************)
(* One turn of the binary search; and mutated, with lo = mid, and with the *)
(* two halves swapped.                                                     *)
(***************************************************************************)
Mid == lo + (hi - lo) \div 2

BisectStuck ==
  /\ pc = "search" /\ lo < hi
  /\ IF Mid \in meets[k] THEN hi' = Mid /\ lo' = lo
                         ELSE lo' = Mid /\ hi' = hi
  /\ UNCHANGED <<meets, pc, k, best>>

BisectPast ==
  /\ pc = "search" /\ lo < hi
  /\ IF Mid \in meets[k] THEN hi' = Mid - 1 /\ lo' = lo
                         ELSE lo' = Mid + 1 /\ hi' = hi
  /\ UNCHANGED <<meets, pc, k, best>>

Bisect ==
  /\ pc = "search" /\ lo < hi
  /\ IF Mid \in meets[k] THEN hi' = Mid /\ lo' = lo
                         ELSE lo' = Mid + 1 /\ hi' = hi
  /\ UNCHANGED <<meets, pc, k, best>>

(***************************************************************************)
(* The search for this k returns lo, which is kept when it is cheaper; and *)
(* mutated, the last result is kept whatever its cost.                     *)
(***************************************************************************)
KeepLast ==
  /\ pc = "search" /\ lo >= hi
  /\ best' = [bits |-> lo * BlockBits, blocks |-> lo, k |-> k]
  /\ IF k < MaxK THEN pc' = "double" /\ k' = k + 1 /\ hi' = 1 /\ lo' = 1
                 ELSE pc' = "done" /\ UNCHANGED <<k, hi, lo>>
  /\ UNCHANGED meets

Keep ==
  /\ pc = "search" /\ lo >= hi
  /\ best' = IF lo * BlockBits < best.bits
               THEN [bits |-> lo * BlockBits, blocks |-> lo, k |-> k]
               ELSE best
  /\ IF k < MaxK THEN pc' = "double" /\ k' = k + 1 /\ hi' = 1 /\ lo' = 1
                 ELSE pc' = "done" /\ UNCHANGED <<k, hi, lo>>
  /\ UNCHANGED meets

Next == Double \/ Doubled \/ Bisect \/ Keep

Spec == Init /\ [][Next]_vars

-----------------------------------------------------------------------------
(***************************************************************************)
(* The estimated rate of the size that is found meets the target, whatever *)
(* shape the estimate has, unless the search gave up past the limit.  The  *)
(* rate that is measured may be higher: the tests allow for it at 1e-4.    *)
(***************************************************************************)
TunedMeetsTarget ==
  pc = "done" => best.blocks \in meets[best.k] \/ best.blocks > Limit

(***************************************************************************)
(* No k and no block count at all meet the target, as estimated, with less *)
(* memory, when the estimate falls as blocks grow.                         *)
(***************************************************************************)
Falling == \A n \in 1 .. MaxK : \A x \in meets[n] : \A y \in 1 .. 2 * Limit :
             x <= y => y \in meets[n]

TunedIsCheapest ==
  pc = "done" /\ Falling =>
    \A n \in 1 .. MaxK : \A nb \in meets[n] \ {0} : best.blocks <= nb
=============================================================================
