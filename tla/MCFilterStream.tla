--------------------------- MODULE MCFilterStream ---------------------------
(***************************************************************************)
(* FilterStream on a small instance: words of two 2-bit bytes, one word to *)
(* a block, hash halves below 4.  One host of each byte order; a v5 file   *)
(* that an earlier version wrote on the big-endian host, a v4 file, and a  *)
(* stream that is not a filter.                                            *)
(***************************************************************************)
EXTENDS FilterStream

CONSTANTS little, big, k1, k2, xxh3, custom, h1, h2, r1, new, v5, v4, other

None == [kind \in {} |-> {}]

MCHasherOf == [kind \in {xxh3} |-> h1]

\* Two functions that a process may register under the custom kind, one
\* after the other.
MCRegister == [kind \in {custom} |-> {h1, h2}]

\* The two keys take the same bits of different blocks of two; which one is
\* where depends on the hasher, on the seed and on how a block is found.
MCHashOf == [x \in {h1, h2} \X Seeds \X Keys |->
  [hi |-> IF ((x[1] = h1) = (x[2] = 0)) = (x[3] = k1) THEN 1 ELSE 2,
   lo |-> 1]]

MCRawHash == [x \in {r1} |-> [hi |-> 3, lo |-> 6]]
NoRawHash == [x \in {} |-> 0]

MCSizes == {[numBlocks |-> 2, k |-> 2]}
MCTwoSizes == MCSizes \cup {[numBlocks |-> 1, k |-> 1]}

OldFilter(nb, k) ==
  Insert([numBlocks |-> nb, k |-> k, fastrange |-> FALSE, seed |-> 0, hash |-> xxh3,
          hasher |-> h1, words |-> [w \in 0 .. nb * BlockWords - 1 |-> {}],
          members |-> {}], k1)

\* A v5 file has no range mode: the byte is zero.
OldStream(version) ==
  [Contents(big, OldFilter(2, 2)) EXCEPT !.hdr.version = version]

MCArchive == [s \in {v5, v4, other} |->
  CASE s = v5    -> OldStream(5)
    [] s = v4    -> OldStream(4)
    [] s = other -> [OldStream(6) EXCEPT !.hdr.ours = FALSE]]

\* Write calls that stop in the magic, in the header or in the payload.
MCCuts == {0, 3, 20}
=============================================================================
