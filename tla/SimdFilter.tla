----------------------------- MODULE SimdFilter -----------------------------
(***************************************************************************)
(* One SimdFilter shared by goroutines (filter_simd.go,                    *)
(* filter_simd_amd64.go and .s).                                           *)
(*                                                                         *)
(* A block is SimdLanes words of LaneBits bits; a key sets one bit in each *)
(* lane of its block.  On a processor with AVX2 the lanes are loaded,      *)
(* or-ed and stored together, elsewhere one after the other: those are     *)
(* the steps that interleave.  Add and Test are the calls with one key.    *)
(* As in BlockedFilter a lane is the set of its bits that are 1, and       *)
(* callers hold a RWMutex or insert from a single goroutine.               *)
(***************************************************************************)
EXTENDS Integers, Sequences

CONSTANTS Goroutines, Writers, Locking,
          Keys,
          Hash,         \* the 128-bit hash of each key
          Batches,
          BatchWindow,
          NumBlocks,
          SimdLanes,    \* 8
          LaneBits,     \* 32
          U32,          \* uint32 products wrap at U32
          IdxShift,     \* 27: leaves a bit number of a lane
          Salt          \* the multiplier of each lane

Lanes == 0 .. SimdLanes - 1

ASSUME SimdAssumption ==
  /\ Writers \subseteq Goroutines /\ Locking \in BOOLEAN
  /\ Hash \in [Keys -> [hi : Nat, lo : Nat]]
  /\ Batches \subseteq Seq(Keys)
  /\ BatchWindow \in Nat \ {0} /\ NumBlocks \in Nat \ {0}
  /\ SimdLanes \in Nat \ {0} /\ LaneBits \in Nat \ {0} /\ IdxShift \in Nat
  /\ U32 \in Nat \ {0} /\ U32 = LaneBits * 2^IdxShift
  /\ Salt \in [Lanes -> 0 .. U32 - 1]

ASSUME SimdCallerAssumption == Locking \/ \A g, h \in Writers : g = h

VARIABLES hasAVX2,   \* simdHasAVX2, read from the processor once
          backing,   \* f.backing
          call,      \* each goroutine's call
          lock,      \* the callers' RWMutex
          added      \* history: keys whose insertion has returned
vars == <<hasAVX2, backing, call, lock, added>>

-----------------------------------------------------------------------------
\* hashParts.
HashParts(key) ==
  [base |-> (Hash[key].hi % NumBlocks) * SimdLanes, key32 |-> Hash[key].lo % U32]

\* simdMaskScalar: the one bit of a lane; and mutated, with a product that
\* does not wrap.
MaskBitWide(key32, l) == (key32 * Salt[l]) \div 2^IdxShift

MaskBit(key32, l) == ((key32 * Salt[l]) % U32) \div 2^IdxShift

(***************************************************************************)
(* MAKE_MASK, on all lanes: the low half of the product (VPMULLD), shifted *)
(* right (VPSRLD), is the count by which a 1 is shifted left (VPSLLVD); a  *)
(* count past the lane leaves 0.  And mutated, VPSRAD: the right shift     *)
(* drags the sign in, and the count is past the lane.                      *)
(***************************************************************************)
ShiftedOne(count) == {b \in 0 .. LaneBits - 1 : b = count}

MakeMaskSigned(key32) ==
  LET product == [l \in Lanes |-> (key32 * Salt[l]) % U32]
      count   == [l \in Lanes |-> (product[l] \div 2^IdxShift) +
                                  (IF 2 * product[l] >= U32 THEN U32 - LaneBits ELSE 0)]
  IN  [l \in Lanes |-> ShiftedOne(count[l])]

MakeMask(key32) ==
  LET product == [l \in Lanes |-> (key32 * Salt[l]) % U32]
      count   == [l \in Lanes |-> product[l] \div 2^IdxShift]
  IN  [l \in Lanes |-> ShiftedOne(count[l])]

\* The (word, bit) pairs of a key: the layout that simdMaskScalar defines.
KeyBits == [key \in Keys |->
  LET at == HashParts(key) IN {<<at.base + l, MaskBit(at.key32, l)>> : l \in Lanes}]

Indices == 0 .. NumBlocks * SimdLanes - 1

(***************************************************************************)
(* A call: start, j and lane are the loop variables, probe the window of   *)
(* located keys, reg the lanes that a pending or has loaded, due (history) *)
(* the keys already inserted when the call was made.                       *)
(***************************************************************************)
Idle == [pc |-> "idle", op |-> "none", data |-> <<>>, start |-> 0, probe |-> <<>>,
         j |-> 0, lane |-> 0, reg |-> <<>>, out |-> <<>>, due |-> {}]

Inside(c) == c.pc \in {"window", "apply", "store"}
Place(c)  == c.start + c.j + 1
Probe(c)  == c.probe[c.j + 1]

\* The bits of a lane that the call sets or looks for.
MaskAt(c, l) == IF hasAVX2 THEN MakeMask(Probe(c).key32)[l]
                           ELSE {MaskBit(Probe(c).key32, l)}

\* The lanes that the processor touches together.
Touched(c) == IF hasAVX2 THEN Lanes ELSE {c.lane}

\* Past the lanes just touched.
NextLane(c) ==
  [c EXCEPT !.pc = "apply", !.lane = IF hasAVX2 THEN SimdLanes ELSE c.lane + 1]

\* The window's next key, or the next window; and mutated, AddBatch steps
\* one key too far.
NextKeySkipping(c) ==
  IF c.j + 1 < Len(c.probe)
    THEN [c EXCEPT !.pc = "apply", !.j = c.j + 1, !.lane = 0]
    ELSE [c EXCEPT !.pc = "window", !.start = c.start + BatchWindow +
                                               (IF c.op = "add" THEN 1 ELSE 0)]

NextKey(c) ==
  IF c.j + 1 < Len(c.probe)
    THEN [c EXCEPT !.pc = "apply", !.j = c.j + 1, !.lane = 0]
    ELSE [c EXCEPT !.pc = "window", !.start = c.start + BatchWindow]

\* out[start+j] = hit; and mutated, out[j] = hit.
AnswerWithoutStart(c, hit) == NextKey([c EXCEPT !.out[c.j + 1] = hit])

Answer(c, hit) == NextKey([c EXCEPT !.out[Place(c)] = hit])

-----------------------------------------------------------------------------
Init ==
  /\ hasAVX2 \in BOOLEAN
  /\ backing = [w \in Indices |-> {}]
  /\ call = [g \in Goroutines |-> Idle]
  /\ lock = [writer |-> {}, readers |-> {}]
  /\ added = {}

Call(g, op, data) ==
  /\ call[g].pc = "idle"
  /\ op = "add" => g \in Writers
  /\ call' = [call EXCEPT ![g] =
       [Idle EXCEPT !.pc = "lock", !.op = op, !.data = data, !.due = added,
                    !.out = [n \in 1 .. Len(data) |-> "none"]]]
  /\ UNCHANGED <<hasAVX2, backing, lock, added>>

\* The callers' RWMutex; and mutated, no mutual exclusion.
CanAlwaysLock(op) == TRUE

CanLock(op) == lock.writer = {} /\ (op = "add" => lock.readers = {})

Acquire(g) ==
  /\ call[g].pc = "lock"
  /\ Locking => CanLock(call[g].op)
  /\ lock' = IF ~Locking THEN lock
             ELSE IF call[g].op = "add" THEN [lock EXCEPT !.writer = {g}]
             ELSE [lock EXCEPT !.readers = @ \cup {g}]
  /\ call' = [call EXCEPT ![g].pc = "window"]
  /\ UNCHANGED <<hasAVX2, backing, added>>

\* Phase 1: hash and prefetch the keys of a window.
Window(g) ==
  LET c    == call[g]
      left == Len(c.data) - c.start
      n    == IF BatchWindow > left THEN left ELSE BatchWindow
  IN
  /\ c.pc = "window" /\ left > 0
  /\ call' = [call EXCEPT ![g] =
       [c EXCEPT !.pc = "apply", !.j = 0, !.lane = 0,
                 !.probe = [i \in 1 .. n |-> HashParts(c.data[c.start + i])]]]
  /\ UNCHANGED <<hasAVX2, backing, lock, added>>

(***************************************************************************)
(* Phase 2, setAt: load the lanes, store them with the key's bits; and     *)
(* mutated, stored without what they held.                                 *)
(***************************************************************************)
Load(g) ==
  LET c == call[g] IN
  /\ c.pc = "apply" /\ c.op = "add" /\ c.lane < SimdLanes
  /\ call' = [call EXCEPT ![g] =
       [c EXCEPT !.pc = "store",
                 !.reg = [l \in Touched(c) |-> backing[Probe(c).base + l]]]]
  /\ UNCHANGED <<hasAVX2, backing, lock, added>>

StoreMask(g) ==
  LET c == call[g] IN
  /\ c.pc = "store"
  /\ backing' = [w \in Indices |->
       LET l == w - Probe(c).base
       IN  IF l \in Touched(c) THEN MaskAt(c, l) ELSE backing[w]]
  /\ call' = [call EXCEPT ![g] = [NextLane(c) EXCEPT !.reg = <<>>]]
  /\ UNCHANGED <<hasAVX2, lock, added>>

Store(g) ==
  LET c == call[g] IN
  /\ c.pc = "store"
  /\ backing' = [w \in Indices |->
       LET l == w - Probe(c).base
       IN  IF l \in Touched(c) THEN c.reg[l] \cup MaskAt(c, l) ELSE backing[w]]
  /\ call' = [call EXCEPT ![g] = [NextLane(c) EXCEPT !.reg = <<>>]]
  /\ UNCHANGED <<hasAVX2, lock, added>>

\* Phase 2, testAt.
Check(g) ==
  LET c == call[g] IN
  /\ c.pc = "apply" /\ c.op = "test" /\ c.lane < SimdLanes
  /\ call' = [call EXCEPT ![g] =
       IF \A l \in Touched(c) : MaskAt(c, l) \subseteq backing[Probe(c).base + l]
         THEN NextLane(c)
         ELSE Answer(c, "absent")]
  /\ UNCHANGED <<hasAVX2, backing, lock, added>>

KeyDone(g) ==
  LET c == call[g] IN
  /\ c.pc = "apply" /\ c.lane = SimdLanes
  /\ call' = [call EXCEPT ![g] = IF c.op = "test" THEN Answer(c, "present")
                                                  ELSE NextKey(c)]
  /\ UNCHANGED <<hasAVX2, backing, lock, added>>

Return(g) ==
  LET c == call[g] IN
  /\ c.pc = "window" /\ c.start >= Len(c.data)
  /\ call' = [call EXCEPT ![g] = Idle]
  /\ lock' = [writer |-> lock.writer \ {g}, readers |-> lock.readers \ {g}]
  /\ added' = IF c.op = "add" THEN added \cup {c.data[n] : n \in 1 .. Len(c.data)}
                              ELSE added
  /\ UNCHANGED <<hasAVX2, backing>>

Next ==
  \E g \in Goroutines :
    \/ \E op \in {"add", "test"}, data \in Batches : Call(g, op, data)
    \/ Acquire(g) \/ Window(g) \/ Load(g) \/ Store(g)
    \/ Check(g) \/ KeyDone(g) \/ Return(g)

Spec == Init /\ [][Next]_vars

-----------------------------------------------------------------------------
AllSet(key) == \A p \in KeyBits[key] : p[2] \in backing[p[1]]

\* Every variable has its type: each lane's bit is one of its LaneBits.
TypeOK ==
  /\ hasAVX2 \in BOOLEAN
  /\ backing \in [Indices -> SUBSET (0 .. LaneBits - 1)]
  /\ \A g \in Goroutines :
       /\ call[g].pc \in {"idle", "lock", "window", "apply", "store"}
       /\ call[g].lane \in 0 .. SimdLanes /\ call[g].start \in Nat
  /\ lock \in [writer : SUBSET Writers, readers : SUBSET Goroutines]
  /\ added \subseteq Keys

(***************************************************************************)
(* A key whose insertion returned before a test of it began is never       *)
(* answered "absent", on either kind of processor.                         *)
(***************************************************************************)
NoFalseNegatives ==
  \A g \in Goroutines : \A n \in DOMAIN call[g].out :
    call[g].out[n] = "absent" => call[g].data[n] \notin call[g].due

(***************************************************************************)
(* "The AVX2 path must produce identical lanes": with no insertion under   *)
(* way the array is, bit for bit, what the scalar reference lays out for   *)
(* the inserted keys, whichever path and whichever batches inserted them.  *)
(***************************************************************************)
Quiet == \A g \in Goroutines : call[g].op = "add" => ~Inside(call[g])

ScalarLayout ==
  Quiet => \A w \in Indices :
             backing[w] = {p[2] : p \in {q \in UNION {KeyBits[key] : key \in added} : q[1] = w}}

(***************************************************************************)
(* Under the lock, out[i] is the answer of the scalar reference for        *)
(* data[i], and for no other key.                                          *)
(***************************************************************************)
BatchAgreesWithTest ==
  Locking => \A g \in Goroutines : \A n \in DOMAIN call[g].out :
    /\ call[g].out[n] = "present" => AllSet(call[g].data[n])
    /\ call[g].out[n] = "absent" => ~AllSet(call[g].data[n])

(***************************************************************************)
(* The SIMD tier keeps the promise of every tier: see BloomSet.            *)
(***************************************************************************)
Abstract == INSTANCE BloomSet WITH members <- added,
                                   maybe <- {key \in Keys : AllSet(key)}

Refines == Abstract!Spec
=============================================================================
