--------------------------- MODULE MCConstruction ---------------------------
(***************************************************************************)
(* Construction on a small instance: the real alignment arithmetic, blocks *)
(* of 4 (SIMD: 2) bits, tuned searches over two k and up to 8 blocks, for  *)
(* k = 1 every set of block counts up to 5 that may meet the target, for   *)
(* k = 2 every threshold, also one beyond the limit.                       *)
(***************************************************************************)
EXTENDS Construction

CONSTANTS xxh3, murmur3, siphash

Thresholds == {{nb \in 1 .. 16 : nb >= t} : t \in 1 .. 17}

MCEstimates ==
  {[n \in 1 .. 2 |-> IF n = 1 THEN S ELSE T] :
     S \in Thresholds \cup SUBSET (1 .. 5), T \in Thresholds}

\* Fractions for ln 2 and for the bits per key of fp = 0.01 and of fp = 1.
MCLn2 == [num |-> 693, den |-> 1000]
OnePercent == [num |-> 9585, den |-> 1000]
Certain == [num |-> 0, den |-> 1]

Seed(s) == [set |-> "seed", seed |-> s, hash |-> "unknown"]
Hashed(h) == [set |-> "hash", seed |-> 0, hash |-> h]
Secured(s) == [set |-> "secured", seed |-> s, hash |-> "unknown"]

MCOptions == {<<>>, <<Seed(1)>>, <<Secured(2)>>, <<Seed(1), Secured(2)>>,
              <<Hashed(murmur3), Secured(2), Seed(3)>>, <<Secured(2), Hashed(murmur3)>>,
              <<Hashed("unknown"), Hashed(murmur3)>>, <<Seed(1), Hashed("unknown")>>}

TunedCalls ==
  [tier : {"blockedTuned", "simdTuned"}, n : {1}, opts : {<<>>}, fp : {OnePercent}]

\* A single key, a few, and enough for many blocks.
EstimatedCalls ==
  [tier : {"classic", "blocked", "simd"}, n : {1, 2, 3, 4, 100}, opts : MCOptions,
   fp : {OnePercent, Certain}]

MCCalls == TunedCalls \cup EstimatedCalls

\* A filter built for no keys.
EmptyCalls == [tier : {"classic", "blocked", "simd"}, n : {0}, opts : {<<>>}, fp : {OnePercent}]

\* Every word address of two cache lines.
MCBases == {8 * w : w \in 0 .. 15}

\* uint(NaN) on arm64, and 1 << 63 on amd64, here cut to 2^30.
MCNaN == {0, 2^30}
=============================================================================
