--------------------------- MODULE MCBlockedFilter ---------------------------
(***************************************************************************)
(* BlockedFilter on a small instance: two blocks of two 4-bit words, three *)
(* probes per key, sub-hashes that wrap at 16.  k1 and k2 share both words *)
(* of block 0, k3 lives in block 1 and wraps, and k4 is reported as soon   *)
(* as k1 and k2 are in: the false positive.                                *)
(***************************************************************************)
EXTENDS BlockedFilter

CONSTANTS k1, k2, k3, k4

MCKeys == {k1, k2, k3, k4}

\* A 128-bit hash from its high half and its two low 32-bit halves.
HashOf(hi, a, b) == [hi |-> hi, lo |-> a + U32 * b]

MCHash == [key \in MCKeys |->
  CASE key = k1 -> HashOf(0, 1, 2)
    [] key = k2 -> HashOf(1, 0, 5)
    [] key = k3 -> HashOf(3, 14, 15)
    [] key = k4 -> HashOf(0, 0, 0)]

MCShape == [numBlocks |-> 2, k |-> 3, fastrange |-> TRUE]

\* A filter read from a v5 file: three blocks, addressed by modulo.
MCShapeV5 == [numBlocks |-> 3, k |-> 2, fastrange |-> FALSE]

\* Single keys, and a batch that leaves a last window shorter than the others.
MCBatches == {<<k1>>, <<k2>>, <<k4>>, <<k2, k4, k3>>}

\* A key, and a batch of two.
MCTwoBatches == {<<k1>>, <<k3, k2>>}
=============================================================================
