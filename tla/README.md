# Verification of the xxh3-bloom filters

TLA+ specifications, TLC models and TLAPS proofs of the Bloom filters of this
repository (package `bloom`). Paths below are relative to the repository.

## 1. The system

| Component | Source | State | Operations | Reached by |
|---|---|---|---|---|
| Blocked filter | `filter_blocked.go`, `filter_blocked_batch.go` | `blocks` (bit array, one cache line per block), and fields no call changes: `numBlocks`, `k`, `seed`, `hash`, `hasher`, `fastrange` | `Add`, `Test`, `AddHash`, `TestHash`, `AddBatch`, `TestBatch` | any goroutine, no internal lock |
| Serialization | `filter_blocked.go:304-470` | the stream; the receiver of `ReadFrom` | `WriteTo`, `ReadFrom`, `MarshalBinary`, `UnmarshalBinary`, `Equal` | reads the registry, allocates a blocked filter |
| Hash registry | `hash.go` | a map per process, kind to function | `RegisterHash`, `resolveHasher` | constructors, `ReadFrom` |
| Tuned sizing | `filter_blocked.go:62-192`, `filter_simd.go:63-149` | loop variables | `NewBlockedTuned`, `NewSimdTuned`, `minBlocksForK`, `minSimdBlocks` | constructors |
| SIMD filter | `filter_simd*.go`, `.s` | `backing` (8 lanes of 32 bits per block) | `Add`, `Test`, `AddBatch`, `TestBatch`, each with a scalar and an AVX2 path | any goroutine, no internal lock |
| Classic filter | `filter.go` | `b` (a bits-and-blooms `BitSet`), `m`, `k`, `seed` | `Add`, `Test`, `TestAndAdd` | any goroutine, no internal lock |
| Options | `options.go` | `config` (seed, hash kind) during construction | `WithSeed`, `WithHash`, `Secured`, `buildConfig` | constructors |
| Estimates and rounding | `filter.go:74-79`, `filter_blocked.go:50-55`, `filter_simd.go:51-56` | none | `EstimateParameters`, `NewBlocked`, `NewSimd`, `NewWithEstimates` | constructors |
| Block alignment | `filter_blocked.go:194-204` | the backing array | `newAlignedBlocks` | `allocBlocked` |
| Replacement under traffic | `filter_blocked.go:385-438`, `README.md:333-336` | the filter in use, or the pointer to it | `ReadFrom` into it under a lock; build a new one and swap | one updater, any testers |
| Prefetch | `prefetch_*` | none | a hint | batches |
| Drivers | `cmd/`, `examples/`, `bench/rust` | counters | benchmarks and a demonstration | use the library |

How they interact: a constructor resolves a hash function in the registry and
sizes an array; insertions and tests hash a key, locate its bits and load or
store words of the array; a batch does so in windows of 32 keys, locating all
of a window before it touches any; `WriteTo` dumps header and array,
`ReadFrom` resolves the hash kind it reads in the registry of *its* process,
fills a new filter and only then replaces the receiver.

What is hard:

- **Concurrency.** `f.blocks[w] |= bit` is a load and a store. The README of
  the library (lines 333-336) leaves exclusion to the callers: an external lock,
  or no insertion while tests run.
- **Batches.** Windows, remainders, and two loops that must match `addBits`.
- **Replacement.** A test reads the block count, the range mode, `k` and the
  array at different moments; `*f = *nf` writes them one after the other.
- **Streams.** Two hosts with different byte orders, two live format versions
  that find blocks differently, older ones that must be refused, and a crash or
  a short write between any two steps.
- **Arithmetic.** 32- and 64-bit wrap-around, `hi*n >> 64`, a walk within the
  block, searches for the smallest size, rounding to whole blocks, conversions
  of floats, and the words of slack that alignment costs.
- **Hashes by name.** A stream names its hash by a number, and each process
  decides what the number means; `AddHash` bypasses hash and seed altogether.

What makes each component correct: no inserted key is ever answered absent
(all tiers); no bit that no insertion accounts for; batches answer as loops do;
a loaded filter is the one that was written; a failed load changes nothing; a
filter is replaced atomically for those who test it; a constructor obeys its
options, its estimate and the cache lines; a tuned filter's estimated rate meets its target at
the least memory.

## 2. Modules

| Module | Models | Used by |
|---|---|---|
| `BloomSet` | the abstract promise: a set without deletion, a test with one-sided error | refined by the three tiers |
| `AtomicReplace` | the abstract promise of a replacement: a filter that changes in one step and is tested in one | refined by `LiveFilter` |
| `BlockProbe` | where the bits of a key live: block index, sub-hashes, walk | the next four |
| `BlockedFilter` | one blocked filter shared by goroutines | |
| `ProbeWalk` | the walk alone, at the real width of 512 bits | |
| `FilterStream` | filters, streams, registries of several processes | |
| `LiveFilter` | a blocked filter replaced while others test it | |
| `BlockSizing` | the search for a tuned size | `Construction` |
| `Construction` | every constructor: options, size, hash, aligned array | |
| `SimdFilter` | one SIMD filter shared by goroutines, with and without AVX2 | |
| `ClassicFilter` | one classic filter shared by goroutines | |
| `BlockProbeProofs` | lemmas and theorems about `BlockProbe` | the next four |
| `ProbeWalkProofs`, `BlockedFilterProofs`, `LiveFilterProofs`, `FilterStreamProofs` | theorems about the module each is named after | |
| `SimdFilterProofs`, `ClassicFilterProofs` | theorems about the module each is named after | |
| `ConstructionProofs` | theorems about `Construction` and the searches of `BlockSizing` in it | |
| `MC*` | values of the constants for TLC | |

Words and lanes are sets of bit numbers: `|=` is a union, `&` membership. Keys
are model values and hashes a constant function, so every property is about
every hash function. Widths (512, 64, 2^32, 2^64, window 32) are constants.

**BlockedFilter.** `call[g]` is the call of goroutine g, with the loop
variables of the code (`base`, `j`, `i`), its window of located keys (`probe`)
and the word a pending `|=` has loaded (`reg`). `Window` is phase 1 of a
window, `Load`/`Store` one `|=`, `Look` one test of a bit, `KeyDone` and
`NextKey` the ends of the loops. Locating keys reads only constants, so a
window is one step. Add and Test are calls with one key: their loops are those
of a batch of one. AddHash and TestHash are the same calls with a hash that the
caller computed; `Hash` is a parameter either way. `lock` is the callers'
`RWMutex` (external code). `added` and `due` are history: what was inserted,
and what was when a call was made.

**FilterStream.** A process has at most one operation under way; `WriteTo` is
`WriteHeader`, `WritePayload`; `ReadFrom` is `ReadMagic`, `ReadRest`,
`ReadPayload`; `Restart` may come between any two, also of different processes
on one stream, so a reader can overtake a writer. A stream is the header, the
words as the writer's memory holds them and the number of bytes that arrived.
Streams that exist at the start stand for a v5 file, a v4 file and a file of
another program. An entry of a filter is a key or, like those given to
`AddHash`, a hash: the latter does not depend on the filter's function and seed
(`HashOfEntry`). `RegisterHash` may put another function under a kind at any
time; filters keep the one they resolved. `StillMembers` says what a load still
owes after that: with a function other than the writer's, only the entries that
were hashed by the caller (`hash.go:64` asks for "a compatible Hasher"). Other keys may
then read as absent: that loss is the documented contract, not something a property
here would report. An entry is looked up the way it was inserted (`Test` after `Add`,
`TestHash` after `AddHash`), as the comment on `AddHash` demands.
`WrittenStream` is what the files in `Archive` are assumed to be, and what the
proofs show of every stream: if it is readable, the header and the words are those
of a filter that was built and filled; it may be cut off anywhere.

**LiveFilter.** A filter is a record in memory (`heap`), and a test reads its
fields when the code does: hash, block count and range mode in `Locate`, `k` and
a word in every `Look`, an index beyond the array being a panic. The updater
takes memory nobody refers to (`Unused`: the allocator), fills it, and either
swaps the pointer or, inside the callers' lock, copies it over the filter in use
field by field (`Copy`, the `*f = *nf` of `ReadFrom`, in any order, as Go promises
none). It may give up before that (`Abandon`: the error returns) or stop for
good. `how` says which of the two ways of the README is taken. `current` and
`seen` are history: the versions in use during a call. Seen by its testers it is
`AtomicReplace`: a test happens when it loads the pointer or gets the lock, as
from then on (`Decided`) its answer is the one that its filter would give it
undisturbed. `Fill` adds the keys one
by one; a payload that is read instead is written at once, which is coarser.

**Construction.** `want` is the call, `stage` how far it is. `ApplyOption` is one
turn of `buildConfig`, `SizeByEstimate` the constructors that estimate, `Search`
a turn of `BlockSizing` for the tuned ones (an instance with one k for SIMD),
`Resolve` the registry or a panic, `Alloc` the filter, with its array aligned. A
target rate is the number of bits per key it asks for, as a fraction: the
logarithms are its names, and rounding errors of floats are left out; the
conversions to integers are modelled, that of a NaN as a choice among `NaNAsUint`.
An fp that is no rate (0 or less, more than 1) is left out.

**BlockSizing.** `meets[k]`, the block counts that satisfy the target, replaces
the floating-point estimate. It is an arbitrary set: nothing is assumed of the
estimate but where a property says so (`Falling`). What is shown is therefore about the
estimated rate, against the target that the search is given (0.75 fp): whether the
estimate is right, and the rate that is measured, are not modelled. With `MaxK = 1` it is
`minSimdBlocks` alone.

**SimdFilter.** `hasAVX2` is chosen once. With AVX2 a step touches all lanes of a block,
without it one. The masks are two definitions: `MaskBit` is `simdMaskScalar`, `MakeMask` the
instructions of `MAKE_MASK`, and `ScalarLayout` compares what either leaves in the array
with the layout of the first. The AVX2 accesses are 32 bytes wide, which processors do not
promise to be atomic; the runs put insertions under the callers' lock, where this cannot be
seen.

**ClassicFilter.** `bits` is the `BitSet`, external code modelled from its use:
`Set` loads and stores a word, growing the set first if the bit is beyond its
length. `before` is history: what `Test` would have answered on entry.

## 3. Runs

| Run | What it shows |
|---|---|
| `blocked_locked` | two goroutines, both insert and test, single keys and a batch of three in windows of two, under the lock: type, `NoFalseNegatives`, `ExactBits`, `BatchAgreesWithTest`, `EveryKeyAnswered`, that `BlockedFilter` implements `BloomSet`, and that every call returns |
| `blocked_one_writer` | the lock-free use with one inserting goroutine and two testers, modulo addressing (v5), windows of one key; also the inductive invariant of the proofs |
| `probe_walk` | all odd strides, k to 20: at most three probes coincide, never among the first three |
| `probe_walk_distinct` | **violation**, see findings |
| `stream` | two processes of different byte order, all failures, built-in hash |
| `stream_custom_hash` | one process, two seeds, restarts, a hash kind with either of two functions, and an entry inserted by hash |
| `stream_bytes_read` | **violation**, see findings |
| `construction` | every constructor: options in several orders, estimates from 0 bits up, every set of block counts up to 5 for k = 1 and every threshold for k = 2 with limit 8, unknown hashes, 16 addresses |
| `construct_empty` | **violation**, see findings |
| `simd` | AVX2 and scalar, two goroutines under the lock: scalar layout, answers, refinement |
| `classic` | three filters (7 bits; 8 bits with the largest seed; none at all), two goroutines with `TestAndAdd` under the lock |
| `live` | two versions that differ in block count, k, range mode and seed, two replacements, two testers, three pieces of memory: answers of one version, no index out of range, no key missed, no test waiting for a swap, and that `LiveFilter` implements `AtomicReplace` |

Every property of a passing run has a mutant in PROJECT.json, a plausible bug
under which TLC finds it violated: a lost lock, `=` for `|=`, a skipped key,
`out[j]` for `out[base+j]`, bytes never turned round, a receiver replaced
before the error is looked at or cleared on a refused magic, a signed shift in the AVX2
mask, a pointer swapped before the filter is filled, an
array without its words of slack.

### Bounds, and why they are enough

- Blocks of two 4-bit words, walks of three probes that wrap at 16: keys of one
  block share words (lost updates), a key of the other block checks offsets, and
  a fourth key is a false positive. Two blocks need both results of `BlockIndex`.
- Two goroutines show every race of two accesses; `blocked_one_writer` has three,
  so that two readers face a writer. The proofs cover any number.
- A batch of three keys in windows of two gives a full and a short window.
- Streams: filters of two blocks of one word of two "bytes", the least that can
  be turned round; writes stop in the magic (3), in the header (20), before
  anything (0) or at the end. Each restart brings a process back to the start,
  so sequences of any length occur. Keys hash to different blocks under fastrange and
  modulo, and under the two hash functions, so reading with the wrong one shows.
- Construction keeps the real alignment arithmetic (8-byte words, 64-byte lines)
  and takes every word address modulo two lines. Blocks have 4 bits and 2 for
  SIMD, so that a few keys need several blocks and remainders of every size
  occur; fp = 1 gives an estimate of 0. Lists of up to three options have each
  option before and after `Secured`. A search has two k, as the running minimum
  compares two at a time.
- LiveFilter: two replacements bring the first version's memory back into use
  (`MaxReplaced`), three pieces of memory leave one for each tester that is
  behind. The versions make every mixture of their fields visible: index out of
  range, wrong block, wrong number of probes, wrong hash.
- `ProbeWalk` has the real block width. `U32` is 1024 there, a multiple of 512,
  which is all that matters of it: positions are only looked at modulo 512.
  Strides are taken modulo 512 and the walk starts at 0, for the same reason. This
  reduction is proved (`CollisionsByStride`), and so is what the run checks, for every
  width (`FewBitsLost`).

### Fairness

Safety needs none; three runs state it for their liveness property.
`blocked_locked` assumes that a goroutine inside a call keeps running (weak
fairness of its steps: the code has no blocking operation but the lock) and that
a goroutine waiting for the lock gets it if it is free for it again and again
(strong fairness of `Acquire`): Go's `RWMutex` blocks new readers once a writer
waits, and is not held for ever. `construction` assumes that sequential code
keeps running. `live` assumes it of the testers only: the updater may stop
anywhere, which is what `SwapBlocksNoTest` is about.

## 4. Findings

- **The probes of a key are not all distinct.** `filter_blocked.go:227` ("odd
  stride: coprime with 512 so all k probes are distinct") and `README.md:117`
  are true of plain double hashing; with the triangular term `b += i` they are
  not. Stride 341: probe 3 stands 3*341 + 1 = 1024 bits on, on the bit of
  probe 0. What does hold is proved. Probes of odd turns are all distinct
  (`OddProbesDistinct`); the only ones that can coincide are two even turns a multiple of
  four apart, or a turn 3, 7, 11... and an even one (`WhichProbesMeet`); and up to
  k = 20 no key loses more than three bits (`AtMostThreeLost`).
- **ReadFrom does not count bytes of a failed read.** `filter_blocked.go:386`
  says "It returns the number of bytes read"; a stream that ends inside the
  magic gives 0, inside the header 8.

- **A filter built for no keys.** `EstimateParameters(0, fp)` converts a NaN to
  `uint`, whose value Go leaves to the implementation: 0 on arm64, as a rule
  `1 << 63` on amd64. `NewBlocked`, `NewWithEstimates` and their deprecated
  wrappers keep it as `k`, so there an `Add` runs 2^63 turns ("every op is a fixed
  `O(k)`", `README.md:283`).
  The tuned constructors guard n = 0; `NewSimd` ignores k.

Smaller remarks: the comments on `WriteTo` and `ReadFrom` (357, 385) still say
v5 while v6 is written. `RegisterHash` replaces a registered function silently;
`stream_custom_hash` shows what filters loaded after it still answer rightly.
The comment on `NewBlockedTuned` (57) promises a *measured* rate of at most fp, while
`filter_test.go:114-136` says that it "still overshoots at the extreme 1e-4 end";
neither is checked here, only the estimate.

## 5. Proofs

All checked by TLAPS for every value of the constants.

- `BlockProbeProofs`: the block of every hash is below `numBlocks`, for fastrange
  and modulo; every walk state is well-typed; the k bits of a key lie within
  its block and within the array (`ProbesInBlock`). This is the fact that makes
  the absence of bounds errors and "one cache line per operation" true. It needs
  `WidthAssumption`: words divide blocks and blocks divide 2^32. If the array starts on a
  cache line, every word a key touches is in the one line of its block
  (`OneCacheLinePerKey`). Of the block index: both range modes send a hash to
  every block (`EveryBlockReached`), and the hashes that fastrange sends to one block
  span less than 2^64 / n values (`BlocksAreEven`). Of the walk: its closed form
  (`WalkClosedForm`), that collisions depend on turns and stride alone
  (`CollisionsByStride`), and which probes can be one bit (`FirstProbesDistinct`,
  `OffBeatProbesApart`, `EvenProbesApart`, `OddProbesDistinct`, `WhichProbesMeet`).
- `ProbeWalkProofs`: how many bits of a key are distinct. In a block of 512 bits and for
  k up to 20 at least k - 3 (`AtMostThreeLost`), in a block of any power of two at
  least k/2 for k up to twice the block (`HalfTheBitsDistinct`): for every hash, range
  mode, block count and width of the registers. Each behaviour of `ProbeWalk` is the
  walk of a key (`WalksAKey`), hence `FewBitsLost`: `Spec => []NearlyDistinct`.
- `BlockedFilterProofs`: `Invariance` proves `Spec => []IInv`, and from it `TypeCorrect`,
  `NeverFalseNegative`, `NoLostUpdate`, `BatchEqualsTest`, `BatchAnswersAll`,
  `KeysDecideAnswers` (only the set of inserted keys matters, not how they went in) and
  `ImplementsBloomSet` (the refinement). Assumptions: `FilterAssumption` (types of the
  constants) and `CallerAssumption` (a lock, or a single inserting goroutine).
- `SimdFilterProofs`: `TypeCorrect`, `NeverFalseNegative`, `IdenticalLanes`,
  `BatchEqualsTest`, `KeysDecideAnswers` and `ImplementsBloomSet`, on both kinds of
  processor (which therefore answer alike), for any lanes, salts, batches and window. That
  both masks are the same is the lemma `MasksAgree`. Assumptions: `SimdAssumption` (types;
  2^32 is a lane's bits times 2^27, which is what `>> 27` is for) and
  `SimdCallerAssumption`.
- `ClassicFilterProofs`: `TypeCorrect`, `NeverFalseNegative`, `PreviousMembership`,
  `Deduplicates` (an action property) and `ImplementsBloomSet`, for any m, k and
  hash function, m = 0 at the call of `New` and a set that grows included.
  Assumptions: `ClassicAssumption` (types) and `ClassicCallerAssumption`.
- `FilterStreamProofs`: `TypeCorrect`, `NeverFalseNegative`, `EqualMeansAlike` and two
  action properties, `FailedReadHarmless` (from the magic to the payload, whichever read
  fails) and `ReloadIsWhatWasWritten`, for any number of processes of either byte order,
  streams, sizes, kinds and functions. Assumptions: `StreamAssumption` (types; a word is a
  whole number of bytes) and `ArchiveAssumption` (the files there from the start are
  `WrittenStream`s).
- `LiveFilterProofs`: `LiveInvariance` proves `Spec => []LInv`, and from it
  `LiveTypeCorrect`, `NeverOutOfRange`, `ReplacedAtomically`, `NoneMissedOnReplacing` and
  `ReplacementIsOneStep` (the refinement of `AtomicReplace`), for any number of testers,
  versions, keys and pieces of memory. Assumptions: `LiveAssumption` (types), and the widths
  of `BlockProbe`.
- `ConstructionProofs`: `ConstructionInvariance` proves `BuildSpec => []BInv`, and from it
  `BuiltFilterTyped`, `BlocksOwnCacheLines`, `EstimateRoundedUp` and `LastOptionDecides`,
  for option lists of any length, every n, rate, block size and word address; and of the two
  tuned constructors that their search ends with a size whose estimated rate meets the
  target for *any* estimate (`TunedSizeMeets`), the cheapest for any that falls
  (`TunedSizeIsCheapest`), and that this is what the filter they return has
  (`TunedFilterMeets`). Assumptions: `ConstructionAssumption` (types, built-in hashes are
  registered, allocations of words are 8-byte aligned, no cost of a search overflows) and
  `SizingAssumption`.

### The inductive invariants, and why they are needed

**BlockedFilter.** `NoFalseNegatives` is about answers, which depend on bits
that earlier steps saw or set. `Framed` says that a call's local state is the
state of its key's walk after i turns; `Fresh` that a loaded word is still what
the array holds, which is where `Excluded` (at most one inserting call inside)
comes in; `Progress` that the bits passed are set. Bits never go back to 0, so
`Progress` of one call survives the steps of others, and at the end of an
insertion it gives `ExactBits`; an answer "absent" names a bit that is 0, which
`ExactBits` excludes for a key in `due`.

**SimdFilter.** The same argument with lanes for words. `Framed` ties the window
of located keys to the place in the batch, so that an answer goes to the key it is
about; it also says that with AVX2 a call stands before all lanes or behind them.
`Truthful` is what the answers of a batch say of the array (under the lock also
what "absent" says); `NoStrayBit` accounts for every bit by a key inserted or
under way. With no insertion under way the last two parts are `ScalarLayout`.

**ClassicFilter.** A `Set` loads and stores a word and may grow the set first:
`Fresh` says that what it loaded is still there and that the set is long enough.
The hard part is `TestAndAdd`, which changes the bits that it looks at.
`Remembers` relates them to `before`, the answer a `Test` would have given on
entry: if that was "present" all bits are 1 and stay so; if it was "absent", either a
0 bit has been seen or one is still to come, and the bit about to be set was not the
only one. Two probes of one key may be the same bit, which is why the bit that is
still to come is named by its turn and not counted.

**FilterStream.** A stream keeps the filter that its writer had when it wrote the
header, whatever its length (`Contained`): a later restart of the writer does not
change it, and a reader that started early sees the same words. A read under way
holds, from the header on, an empty filter of the shape in the header with the
function that is registered here (`Loads`), and no registration comes between, as
the process is busy. What `ReadPayload` then puts in the receiver is the
writer's filter because turning the bytes round twice changes nothing
(`ReverseTwice`: quotients and remainders of a bit number), because positions
depend on block count, k and range mode only (`SamePositions`), and because a whole
payload is on the stream if it is not short. The zero value, which may be written
too, is never loaded: no function is registered under its hash.

**LiveFilter.** An answer comes from many reads. `UpdaterInv` says that
the filter being filled holds the keys filled so far and that nobody tests it,
`InUseInv` that the fields in use are those of the current version, or of the
next one as far as they are copied, and `ReaderInv` that every goroutine inside
a test faces one whole version of those in use during its call, has walked its
probes and found them set.

To refine `AtomicReplace` a test has to be decided at one moment. `Steady`, which follows
from `LInv`, says that it is: from the moment a goroutine is at a filter, the answer that
the rest of its walk will give is that of the version it found there, and no step of
the updater changes it. So entering the filter is the abstract test, the look-ups are
stutters, and the swap or the last field under the lock is the abstract replacement.

**The walk.** The stride grows by the turn, so after i turns it has grown by i(i-1)/2
and the bits have drifted by i(i-1)(i-2)/6 from the multiples of the first stride
(`Growth`, `Drift`). Modulo the block this is exact, as the block divides 2^32
and additions that wrap lose nothing. A collision of turns i and j therefore says that
(i - j) times the stride plus a difference of drifts is a multiple of the block. For odd i
and j that is (i - j)/2 times an odd number; if the block is a power of two, the odd factor
cancels (`OddCancels`) and i = j. Parity tells the other turns apart.
What is left of 20 turns are 13 that can repeat a bit, and for those one lemma,
`FewMeetings`, has the prover go through the 256 odd strides of a block of 512. It is the
only place where particular numbers count.

**Construction.** `SInv` is the invariant of a search: the doubling has passed only block
counts that miss the target, the bisection keeps one that meets it at `hi` and none
that does below `lo`, and `best` is the cheapest result of the k dealt with. It is stated for
any number of k and bits of a block, so that it covers both tuned tiers; `Found` carries
its result into the filter. `BInv` adds to the properties what makes them
inductive: the options applied so far are a prefix of the call's and have decided
the configuration among themselves (`Applied`), and the size that waits for
allocation is the rounded estimate (`Sized`).

The invariant of `BlockedFilter` is an invariant of `blocked_one_writer`. Those of
the other modules were checked by TLC on the instances of their runs before they
were proved, those of the SIMD and classic tiers also with one inserting
goroutine and no lock.

The callers' assumptions (`CallerAssumption` and its two sisters) are wider than the
contract in the library's README, which allows no test beside an insertion even with
one writer. With one writer the
models and proofs take an access to a word (an AVX2 one: to all lanes of a block) as
atomic and memory as sequentially consistent; Go calls such a program racy, and the
run and the theorems say what happens under that assumption, not what the language
promises. With a lock nothing is assumed.

Only model-checked:

- Liveness: `EveryCallReturns`, `ConstructionEnds`, `SwapBlocksNoTest`. Fairness and
  `ENABLED` are beyond the provers.
- The three runs that expect a violation: a counterexample needs no proof.
- What a recursive definition computes for every input, as induction takes an
  operator as a parameter. Where a proof needs it of the walk, it argues by the least
  counterexample (`LeastNat`, `WalkExists`), or of a set closed under the step (`PowerOfTwo`).

## 6. Not modelled

Floating-point error: the two estimates of the tuned constructors are an
arbitrary parameter, `EstimateParameters` is exact arithmetic with the
conversions kept. `RandomSeed` and accessors: no state. Prefetching: no effect on
the state. Hash functions: parameters. Malformed headers: readers are given
streams that some version of this library or another program wrote. A stream
written or read beside an insertion without the callers' lock, and a registration
beside a construction: the documentation forbids both. The demonstrations, the
cache-penetration example and the Rust benchmark: they call the library from one
goroutine, or port it, and count and print.

## 7. Plan

Done, in this order: probing and the shared blocked filter with its proofs,
streams, sizing, the SIMD and classic tiers, replaced hash functions and hashed
entries in streams, construction with its proofs, replacement under traffic with
its proofs, proofs of the SIMD and classic tiers and of the streams, replacement as
the refinement of a single step, and the distinct bits of a key.

Next:

1. One module of facts about quotients and remainders for the proofs that now state
   their own (`DivBelow`, `QuotientOf`, `WrapRemainder`).
2. More than half of the bits distinct for k beyond 20: `WhichProbesMeet` leaves the even
   turns open, whose collisions depend on the stride.
