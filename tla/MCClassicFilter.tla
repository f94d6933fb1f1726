--------------------------- MODULE MCClassicFilter ---------------------------
(***************************************************************************)
(* ClassicFilter on a small instance: uint64 wraps at 16, words of 4 bits. *)
(* Filters of 7 bits, of 8 bits with the largest seed, whose second hash   *)
(* is seeded with 0, and of no bits at all.  In the first k2 has the same  *)
(* position twice, one that k1 has too.                                    *)
(***************************************************************************)
EXTENDS ClassicFilter

CONSTANTS k1, k2

MCHasher == [x \in {k1, k2} \X (0 .. U64 - 1) |->
  IF x[1] = k1 THEN [hi |-> (3 * x[2] + 1) % U64, lo |-> (x[2] + 2) % U64]
               ELSE [hi |-> (5 * x[2] + 2) % U64, lo |-> (x[2] + 9) % U64]]

MCSizes == {[m |-> 7, k |-> 3, seed |-> 0],
            [m |-> 8, k |-> 3, seed |-> U64 - 1],
            [m |-> 0, k |-> 0, seed |-> 1]}
=============================================================================
