------------------------------ MODULE ProbeWalk ------------------------------
(***************************************************************************)
(* The k-probe loop of addBits and testBits (filter_blocked.go) on one     *)
(* block, to see which of the k bits coincide.  Only the 32-bit sub-hashes *)
(* modulo the block size matter, so every stride below BlockBits is tried; *)
(* moving the first bit moves all of them, so it stands at 0.  That this   *)
(* loses nothing is CollisionsByStride of BlockProbeProofs.                *)
(***************************************************************************)
EXTENDS BlockProbe, FiniteSets

CONSTANT MaxK       \* the largest k looked at

ASSUME MaxKAssumption == MaxK \in Nat

VARIABLES s,        \* the state of the walk: off, a, b
          i,        \* the loop variable
          visited   \* the bits set so far
vars == <<s, i, visited>>

Init ==
  /\ \E h2 \in 0 .. BlockBits - 1 : s = [off |-> 0, a |-> 0, b |-> Odd(h2)]
  /\ i = 0
  /\ visited = {}

Turn ==
  /\ i < MaxK
  /\ visited' = visited \cup {BlockBit(s)}
  /\ s' = Advance(s, i)
  /\ i' = i + 1

Spec == Init /\ [][Turn]_vars

-----------------------------------------------------------------------------
(***************************************************************************)
(* "odd stride: coprime with 512 so all k probes are distinct" (the        *)
(* comment in blockOffsetHash).                                            *)
(***************************************************************************)
ProbesDistinct == Cardinality(visited) = i

(***************************************************************************)
(* What the odd stride does give: up to three probes are distinct, and no  *)
(* key with k <= 20 loses more than three of its k bits to collisions, so  *)
(* the false-positive rate stays near the one EstimateBlockedFP assumes.   *)
(***************************************************************************)
NearlyDistinct ==
  /\ i <= 3 => Cardinality(visited) = i
  /\ Cardinality(visited) + 3 >= i
=============================================================================
