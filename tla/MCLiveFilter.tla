---------------------------- MODULE MCLiveFilter ----------------------------
(***************************************************************************)
(* LiveFilter on blocks of 4 bits in words of 2.  The two versions differ  *)
(* in block count, k, range mode and seed, and x is in both.               *)
(***************************************************************************)
EXTENDS LiveFilter

CONSTANTS x, y

MCHash == [s \in Seeds |-> [key \in Keys |->
  CASE s = 0 -> IF key = x THEN [hi |-> 3, lo |-> 5] ELSE [hi |-> 1, lo |-> 2]
    [] s = 1 -> IF key = x THEN [hi |-> 2, lo |-> 3] ELSE [hi |-> 2, lo |-> 8]]]

MCVersions == {
  [shape |-> [numBlocks |-> 2, k |-> 2, fastrange |-> TRUE],  seed |-> 0, keys |-> {x}],
  [shape |-> [numBlocks |-> 3, k |-> 3, fastrange |-> FALSE], seed |-> 1, keys |-> {x, y}]}
=============================================================================
