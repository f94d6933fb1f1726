---------------------------- MODULE MCSimdFilter ----------------------------
(***************************************************************************)
(* SimdFilter on a small instance: two blocks of two 4-bit lanes, products *)
(* that wrap at 16.  k1 and k2 share block 0 and differ in both lanes, k3  *)
(* lives in block 1, and k4 has a bit of k1 and a bit of k2: the false     *)
(* positive.                                                               *)
(***************************************************************************)
EXTENDS SimdFilter

CONSTANTS k1, k2, k3, k4

MCSalt == [l \in Lanes |-> IF l = 0 THEN 5 ELSE 11]

MCHash == [key \in {k1, k2, k3, k4} |->
  CASE key = k1 -> [hi |-> 0, lo |-> 1]
    [] key = k2 -> [hi |-> 2, lo |-> 7]
    [] key = k3 -> [hi |-> 3, lo |-> 13]
    [] key = k4 -> [hi |-> 4, lo |-> 4]]

MCBatches == {<<k1>>, <<k2>>, <<k2, k4, k3>>}
=============================================================================
