---------------------------- MODULE Construction ----------------------------
(***************************************************************************)
(* How a filter is constructed: options (options.go), the estimate of its  *)
(* size (filter.go) or the search for it (BlockSizing), the hash function  *)
(* (hash.go), and the cache-aligned array (filter_blocked.go).             *)
(*                                                                         *)
(* A target rate fp is represented by the bits per key that it asks for,   *)
(* -ln fp / (ln 2)^2, as a fraction, and is a rate: 0 < fp <= 1.  Rounding *)
(* errors of the floating-point arithmetic are left out, the conversions   *)
(* to integers are not.                                                    *)
(***************************************************************************)
EXTENDS BlockSizing, Sequences

CONSTANTS Calls,          \* constructor calls: tier, n, fp, opts
          Ln2,            \* ln 2, a fraction
          NaNAsUint,      \* what uint(NaN) may be: Go leaves it open
          SimdBlockBits,  \* 256
          Kinds,          \* hash kinds the registry has
          XXH3, SipHash,
          Bases           \* addresses that an allocation of words may have

\* Tiers that are sized by estimate, and those that are tuned.
Estimated == {"classic", "blocked", "simd"}
Tuned     == {"blockedTuned", "simdTuned"}

Options == [set : {"seed", "hash", "secured"}, seed : Nat, hash : Kinds \cup {"unknown"}]

ASSUME ConstructionAssumption ==
  /\ Calls \subseteq [tier : Estimated \cup Tuned, n : Nat, opts : Seq(Options),
                      fp : [num : Nat, den : Nat \ {0}]]
  /\ Ln2 \in [num : Nat, den : Nat \ {0}]
  /\ NaNAsUint \subseteq Nat
  /\ SimdBlockBits \in Nat \ {0} /\ 2 * Limit * SimdBlockBits < MaxBits
  /\ {XXH3, SipHash} \subseteq Kinds
  /\ Bases \subseteq Nat /\ \A addr \in Bases : addr % 8 = 0

VARIABLES want,     \* the call
          stage,    \* where it is
          left,     \* the options still to apply
          config,   \* what they made of the defaults
          size,     \* m, block count and k
          built     \* the filter
build == <<want, stage, left, config, size, built>>
all   == <<vars, build>>

-----------------------------------------------------------------------------
(***************************************************************************)
(* An option assigns the fields it is about; and mutated, Secured leaves   *)
(* the hash alone.                                                         *)
(***************************************************************************)
ApplySeedOnly(o, c) ==
  CASE o.set = "seed"    -> [c EXCEPT !.seed = o.seed]
    [] o.set = "hash"    -> [c EXCEPT !.hash = o.hash]
    [] o.set = "secured" -> [c EXCEPT !.seed = o.seed]

Apply(o, c) ==
  CASE o.set = "seed"    -> [c EXCEPT !.seed = o.seed]
    [] o.set = "hash"    -> [c EXCEPT !.hash = o.hash]
    [] o.set = "secured" -> [seed |-> o.seed, hash |-> SipHash]

\* ceil(x / y); and mutated, floor.
DivDown(x, y) == x \div y

DivUp(x, y) == (x + y - 1) \div y

(***************************************************************************)
(* EstimateParameters: with n = 0 the hash count is ceil(0 / 0), a NaN.    *)
(***************************************************************************)
EstimatedBits(n, fp) == DivUp(n * fp.num, fp.den)

HashCounts(n, m) == IF n = 0 THEN NaNAsUint ELSE {DivUp(Ln2.num * m, Ln2.den * n)}

\* Counts of a filter are at least one; and mutated, as estimated.
AtLeastZero(x) == x

AtLeastOne(x) == IF x < 1 THEN 1 ELSE x

(***************************************************************************)
(* newAlignedBlocks: a block is 8 words of 8 bytes, and x & 63 is x % 64.  *)
(* And mutated, an allocation without the words of slack.                  *)
(***************************************************************************)
Offset(addr) == ((64 - (addr % 64)) % 64) \div 8

AlignedTight(addr, n) == [base |-> addr, off |-> Offset(addr), len |-> 8 * n, backing |-> 8 * n]

Aligned(addr, n) == [base |-> addr, off |-> Offset(addr), len |-> 8 * n, backing |-> 8 * n + 8]

-----------------------------------------------------------------------------
NoArray == [base |-> 0, off |-> 0, len |-> 0, backing |-> 0]

Unbuilt == [k |-> 0, blocks |-> 0, seed |-> 0, hash |-> XXH3, array |-> NoArray]

\* Only a search reads meets: for the other calls one value stands for all.
MeetsMatters ==
  \A j \in 1 .. MaxK :
    want.tier \in Estimated \/ (want.tier = "simdTuned" /\ j # 1) => meets[j] = {}

Start ==
  /\ Init
  /\ want \in Calls
  /\ MeetsMatters
  /\ stage = "options" /\ left = want.opts
  /\ config = [seed |-> 0, hash |-> XXH3]
  /\ size = [m |-> 0, blocks |-> 0, k |-> 0]
  /\ built = Unbuilt

ApplyOption ==
  /\ stage = "options" /\ left # <<>>
  /\ config' = Apply(Head(left), config)
  /\ left' = Tail(left)
  /\ UNCHANGED <<vars, want, stage, size, built>>

\* Bits of a block of a tier; the classic one counts single bits.
BitsOfBlock == [tier \in Estimated |->
  CASE tier = "classic" -> 1 [] tier = "blocked" -> BlockBits [] tier = "simd" -> SimdBlockBits]

(***************************************************************************)
(* NewWithEstimates, NewBlocked and NewSimd size by estimate, the latter   *)
(* two in whole blocks.                                                    *)
(***************************************************************************)
SizeByEstimate ==
  /\ stage = "options" /\ left = <<>> /\ want.tier \in Estimated
  /\ LET m == EstimatedBits(want.n, want.fp) IN
     \E j \in HashCounts(want.n, m) :
       size' = [m |-> m, blocks |-> DivUp(m, BitsOfBlock[want.tier]), k |-> j]
  /\ stage' = "resolve"
  /\ UNCHANGED <<vars, want, left, config, built>>

(***************************************************************************)
(* NewBlockedTuned searches over k; NewSimdTuned has one.                  *)
(***************************************************************************)
Simd == INSTANCE BlockSizing WITH MaxK <- 1, BlockBits <- SimdBlockBits

BeginSearch ==
  /\ stage = "options" /\ left = <<>> /\ want.tier \in Tuned
  /\ stage' = "search"
  /\ UNCHANGED <<vars, want, left, config, size, built>>

Search ==
  /\ stage = "search"
  /\ \/ want.tier = "blockedTuned" /\ Next
     \/ want.tier = "simdTuned" /\ Simd!Next
  /\ UNCHANGED build

EndSearch ==
  /\ stage = "search" /\ pc = "done"
  /\ size' = [m |-> 0, blocks |-> best.blocks, k |-> best.k]
  /\ stage' = "resolve"
  /\ UNCHANGED <<vars, want, left, config, built>>

(***************************************************************************)
(* resolveHasher: an unknown hash panics.                                  *)
(***************************************************************************)
Resolve ==
  /\ stage = "resolve"
  /\ stage' = IF config.hash \in Kinds THEN "alloc" ELSE "panic"
  /\ UNCHANGED <<vars, want, left, config, size, built>>

(***************************************************************************)
(* allocBlocked aligns its array; what the others allocate is modelled in  *)
(* SimdFilter and ClassicFilter.  The SIMD tier has 8 lanes.               *)
(***************************************************************************)
Alloc(addr) ==
  LET blocks == AtLeastOne(size.blocks) IN
  /\ stage = "alloc"
  /\ built' = [blocks |-> blocks, seed |-> config.seed, hash |-> config.hash,
               k |-> IF want.tier \in {"simd", "simdTuned"} THEN 8 ELSE AtLeastOne(size.k),
               array |-> IF want.tier \in {"blocked", "blockedTuned"}
                           THEN Aligned(addr, blocks) ELSE NoArray]
  /\ stage' = "built"
  /\ UNCHANGED <<vars, want, left, config, size>>

Build ==
  \/ ApplyOption \/ SizeByEstimate
  \/ BeginSearch \/ Search \/ EndSearch
  \/ Resolve \/ \E addr \in Bases : Alloc(addr)

BuildSpec == Start /\ [][Build]_all

\* A constructor is sequential code without a lock: it keeps running.
FairBuildSpec == BuildSpec /\ WF_all(Build)

-----------------------------------------------------------------------------
Stages == {"options", "search", "resolve", "alloc", "built", "panic"}

\* Every variable has its type; what is built has at least one of everything.
BuildTypeOK ==
  /\ want \in Calls /\ stage \in Stages
  /\ left \in Seq(Options)
  /\ config \in [seed : Nat, hash : Kinds \cup {"unknown"}]
  /\ size \in [m : Nat, blocks : Nat, k : Nat]
  /\ stage = "built" => /\ built.k \in Nat \ {0} /\ built.blocks \in Nat \ {0}
                        /\ built.hash \in Kinds

(***************************************************************************)
(* Each block of a blocked filter is one cache line, wherever the array    *)
(* was allocated, and the last one ends within the allocation.             *)
(***************************************************************************)
OwnCacheLine ==
  stage = "built" /\ want.tier \in {"blocked", "blockedTuned"} =>
    /\ (built.array.base + 8 * built.array.off) % 64 = 0
    /\ built.array.len = 8 * built.blocks
    /\ built.array.off + built.array.len <= built.array.backing

(***************************************************************************)
(* A filter sized by estimate has all the bits that were estimated, and    *)
(* less than a block more: it "rounds m up to whole cache lines".          *)
(***************************************************************************)
RoundsUp ==
  stage = "built" /\ want.tier \in Estimated =>
    /\ size.m <= built.blocks * BitsOfBlock[want.tier]
    /\ (built.blocks - 1) * BitsOfBlock[want.tier] < AtLeastOne(size.m)

(***************************************************************************)
(* Of the options of a call the last one that is about a field decides it, *)
(* and Secured is about both, whatever stands before it.                   *)
(***************************************************************************)
Sets(o, fields) == o.set \in fields \cup {"secured"}

Last(j, fields) ==
  /\ Sets(want.opts[j], fields)
  /\ \A i \in j + 1 .. Len(want.opts) : ~Sets(want.opts[i], fields)

LastOptionWins ==
  stage = "built" =>
    \A j \in 1 .. Len(want.opts) :
      /\ Last(j, {"seed"}) => built.seed = want.opts[j].seed
      /\ Last(j, {"hash"}) =>
           built.hash = IF want.opts[j].set = "secured" THEN SipHash ELSE want.opts[j].hash

(***************************************************************************)
(* "EstimateParameters returns optimal m (bits) and k (hash count)": a     *)
(* filter of m bits has no use for more than m probes.                     *)
(***************************************************************************)
OptimalHashCount ==
  stage = "built" /\ want.tier \in {"classic", "blocked"} => built.k <= AtLeastOne(size.m)

\* Every construction ends, with a filter or a panic.
ConstructionEnds == <>(stage \in {"built", "panic"})
=============================================================================
