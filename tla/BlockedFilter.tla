---------------------------- MODULE BlockedFilter ----------------------------
(***************************************************************************)
(* One BlockedFilter shared by goroutines (filter_blocked.go and           *)
(* filter_blocked_batch.go).                                               *)
(*                                                                         *)
(* A call is Add, Test, AddBatch or TestBatch; Add and Test are the calls  *)
(* with one key, and AddHash/TestHash differ only in who computed the      *)
(* key's hash.  Each `f.blocks[w] |= bit` of addBits is a load and a       *)
(* store, each test of a bit is a load: those are the steps that           *)
(* interleave.  Locating keys reads only fields no call changes.           *)
(*                                                                         *)
(* The filter has no lock of its own.  Callers either put every call       *)
(* under a sync.RWMutex (Locking) or let a single goroutine insert.        *)
(***************************************************************************)
EXTENDS BlockProbe, Sequences

CONSTANTS Goroutines,
          Writers,      \* the goroutines that insert
          Locking,      \* TRUE: callers hold a RWMutex around every call
          Keys,
          Hash,         \* the 128-bit hash of each key
          Batches,      \* the key sequences calls are made with
          Shape,        \* numBlocks, k, fastrange of the filter
          BatchWindow

ASSUME FilterAssumption ==
  /\ Writers \subseteq Goroutines
  /\ Locking \in BOOLEAN
  /\ Hash \in [Keys -> HashValue]
  /\ Batches \subseteq Seq(Keys)
  /\ Shape \in FilterShape
  /\ BatchWindow \in Nat \ {0}

(***************************************************************************)
(* What the callers of a filter without internal locking must ensure.      *)
(***************************************************************************)
ASSUME CallerAssumption == Locking \/ \A g, h \in Writers : g = h

VARIABLES words,     \* f.blocks
          call,      \* each goroutine's call, see Call below
          lock,      \* the callers' RWMutex
          added      \* history: keys whose insertion has returned
vars == <<words, call, lock, added>>

-----------------------------------------------------------------------------
(***************************************************************************)
(* The local state of a call.  base, j and i are the code's loop           *)
(* variables; probe is the window of located keys, cur the walk of the key *)
(* under way (off, a, b), reg the word loaded by a pending |=, and due     *)
(* (history) the keys already inserted when the call was made.             *)
(***************************************************************************)
Locate(key) == BlockOffsetHash(Shape, Hash[key])

NoProbe == [off |-> 0, a |-> 0, b |-> 0]

Idle == [pc |-> "idle", op |-> "none", data |-> <<>>, base |-> 0,
         probe |-> <<>>, j |-> 0, i |-> 0, cur |-> NoProbe, reg |-> {},
         out |-> <<>>, due |-> {}]

CallState ==
  [pc : {"idle", "lock", "window", "probe", "store"},
   op : {"none", "add", "test"},
   data : Seq(Keys), base : Nat, probe : Seq(ProbeState), j : Nat,
   i : 0 .. Shape.k, cur : ProbeState, reg : SUBSET (0 .. WordBits - 1),
   out : Seq({"none", "absent", "present"}), due : SUBSET Keys]

Free == [writer |-> {}, readers |-> {}]

\* The keys left in the window that starts at base.
WindowSize(c) ==
  IF c.base + BatchWindow > Len(c.data) THEN Len(c.data) - c.base
                                        ELSE BatchWindow

\* The key a call works on, and its place in data and out.
Index(c)   == c.base + c.j + 1
KeyOf(c)   == c.data[Index(c)]

\* NextKey, mutated: AddBatch's loop over windows steps one key too far.
NextKeySkipping(c) ==
  IF c.j + 1 < WindowSize(c)
    THEN [c EXCEPT !.pc = "probe", !.j = c.j + 1, !.i = 0,
                   !.cur = c.probe[c.j + 2]]
    ELSE [c EXCEPT !.pc = "window", !.base = c.base + BatchWindow +
                                              (IF c.op = "add" THEN 1 ELSE 0)]

\* And mutated, TestBatch's loop does.
NextKeySkippingTests(c) ==
  IF c.j + 1 < WindowSize(c)
    THEN [c EXCEPT !.pc = "probe", !.j = c.j + 1, !.i = 0,
                   !.cur = c.probe[c.j + 2]]
    ELSE [c EXCEPT !.pc = "window", !.base = c.base + BatchWindow +
                                              (IF c.op = "test" THEN 1 ELSE 0)]

\* After a key: the window's next key, or the top of the batch loop.
NextKey(c) ==
  IF c.j + 1 < WindowSize(c)
    THEN [c EXCEPT !.pc = "probe", !.j = c.j + 1, !.i = 0,
                   !.cur = c.probe[c.j + 2]]
    ELSE [c EXCEPT !.pc = "window", !.base = c.base + BatchWindow]

\* Answer, mutated: out[j] = hit.
AnswerWithoutBase(c, hit) == NextKey([c EXCEPT !.out[c.j + 1] = hit])

\* out[base+j] = hit, then on to the next key.
Answer(c, hit) == NextKey([c EXCEPT !.out[Index(c)] = hit])

\* NextProbe, mutated: i++ is lost, or b += i comes after it.
NextProbeStuck(c) == [c EXCEPT !.pc = "probe", !.cur = Advance(c.cur, c.i)]
NextProbeLate(c)  == [c EXCEPT !.pc = "probe", !.i = c.i + 1,
                               !.cur = Advance(c.cur, c.i + 1)]

\* The tail of one turn of the probe loop.
NextProbe(c) ==
  [c EXCEPT !.pc = "probe", !.i = c.i + 1, !.cur = Advance(c.cur, c.i)]

-----------------------------------------------------------------------------
Init ==
  /\ words = ZeroBits(Shape)
  /\ call = [g \in Goroutines |-> Idle]
  /\ lock = Free
  /\ added = {}

Call(g, op, data) ==
  /\ call[g].pc = "idle"
  /\ op = "add" => g \in Writers
  /\ call' = [call EXCEPT ![g] =
       [Idle EXCEPT !.pc = "lock", !.op = op, !.data = data, !.due = added,
                    !.out = [n \in 1 .. Len(data) |-> "none"]]]
  /\ UNCHANGED <<words, lock, added>>

\* CanLock, mutated: no mutual exclusion.
CanAlwaysLock(op) == TRUE

(***************************************************************************)
(* Lock and Unlock of the callers' RWMutex; without it, entering the call. *)
(***************************************************************************)
CanLock(op) ==
  /\ lock.writer = {}
  /\ op = "add" => lock.readers = {}

Acquire(g) ==
  /\ call[g].pc = "lock"
  /\ Locking => CanLock(call[g].op)
  /\ lock' = IF ~Locking THEN lock
             ELSE IF call[g].op = "add"
                  THEN [lock EXCEPT !.writer = {g}]
                  ELSE [lock EXCEPT !.readers = @ \cup {g}]
  /\ call' = [call EXCEPT ![g].pc = "window"]
  /\ UNCHANGED <<words, added>>

(***************************************************************************)
(* Phase 1 of a window: hash every key, prefetch its line (no effect on    *)
(* the state) and keep where it is.                                        *)
(***************************************************************************)
Window(g) ==
  LET c == call[g] IN
  /\ c.pc = "window"
  /\ c.base < Len(c.data)
  /\ LET probe == [n \in 1 .. WindowSize(c) |-> Locate(c.data[c.base + n])]
     IN  call' = [call EXCEPT ![g] =
           [c EXCEPT !.pc = "probe", !.probe = probe, !.j = 0, !.i = 0,
                     !.cur = probe[1]]]
  /\ UNCHANGED <<words, lock, added>>

\* Load, mutated: one probe too many.  Store, mutated: an assignment in place
\* of |=.
LoadOnePast(g) ==
  LET c == call[g] IN
  /\ c.pc = "probe" /\ c.op = "add" /\ c.i <= Shape.k
  /\ call' = [call EXCEPT ![g] = [c EXCEPT !.pc = "store", !.reg = words[WordOf(c.cur)]]]
  /\ UNCHANGED <<words, lock, added>>

StoreOverwriting(g) ==
  LET c == call[g] IN
  /\ c.pc = "store"
  /\ words' = [words EXCEPT ![WordOf(c.cur)] = {BitOf(c.cur)}]
  /\ call' = [call EXCEPT ![g] = [NextProbe(c) EXCEPT !.reg = {}]]
  /\ UNCHANGED <<lock, added>>

(***************************************************************************)
(* Phase 2, inserting: load the word, or the bit in, store it back.        *)
(***************************************************************************)
Load(g) ==
  LET c == call[g] IN
  /\ c.pc = "probe" /\ c.op = "add" /\ c.i < Shape.k
  /\ call' = [call EXCEPT ![g] = [c EXCEPT !.pc = "store", !.reg = words[WordOf(c.cur)]]]
  /\ UNCHANGED <<words, lock, added>>

Store(g) ==
  LET c == call[g] IN
  /\ c.pc = "store"
  /\ words' = [words EXCEPT ![WordOf(c.cur)] = c.reg \cup {BitOf(c.cur)}]
  /\ call' = [call EXCEPT ![g] = [NextProbe(c) EXCEPT !.reg = {}]]
  /\ UNCHANGED <<lock, added>>

\* Phase 2, testing: a 0 bit answers FALSE at once.
Look(g) ==
  LET c == call[g] IN
  /\ c.pc = "probe" /\ c.op = "test" /\ c.i < Shape.k
  /\ call' = [call EXCEPT ![g] = IF BitOf(c.cur) \in words[WordOf(c.cur)]
                                   THEN NextProbe(c)
                                   ELSE Answer(c, "absent")]
  /\ UNCHANGED <<words, lock, added>>

\* The probe loop ran its k turns.
KeyDone(g) ==
  LET c == call[g] IN
  /\ c.pc = "probe" /\ c.i = Shape.k
  /\ call' = [call EXCEPT ![g] = IF c.op = "test" THEN Answer(c, "present")
                                                  ELSE NextKey(c)]
  /\ UNCHANGED <<words, lock, added>>

Return(g) ==
  LET c == call[g] IN
  /\ c.pc = "window" /\ c.base >= Len(c.data)
  /\ call' = [call EXCEPT ![g] = Idle]
  /\ lock' = [writer |-> lock.writer \ {g}, readers |-> lock.readers \ {g}]
  /\ added' = IF c.op = "add"
                THEN added \cup {c.data[n] : n \in 1 .. Len(c.data)}
                ELSE added
  /\ UNCHANGED words

Step(g) ==
  \/ Acquire(g) \/ Window(g) \/ Load(g) \/ Store(g)
  \/ Look(g) \/ KeyDone(g) \/ Return(g)

Next ==
  \E g \in Goroutines :
    \/ \E op \in {"add", "test"}, data \in Batches : Call(g, op, data)
    \/ Step(g)

Spec == Init /\ [][Next]_vars

(***************************************************************************)
(* A goroutine inside a call keeps running, and a blocked Lock excludes    *)
(* new readers, so the mutex comes back again and again until it is taken. *)
(***************************************************************************)
Fairness == \A g \in Goroutines : WF_vars(Step(g)) /\ SF_vars(Acquire(g))

FairSpec == Spec /\ Fairness

-----------------------------------------------------------------------------
\* The walk of each key, and the k bits it visits.
KeyWalk == [key \in Keys |-> Walk(Shape, Hash[key])]
KeyBits == [key \in Keys |-> Positions(Shape, Hash[key])]

\* The bits that inserting a set of keys leaves.
BitsOfKeys(S) == UNION {KeyBits[key] : key \in S}

IsSet(p)   == p[2] \in words[p[1]]
AllSet(key) == \A p \in KeyBits[key] : IsSet(p)

Inside(c)  == c.pc \in {"window", "probe", "store"}
Pending    == {g \in Goroutines : call[g].op = "add" /\ Inside(call[g])}
KeysOf(c)  == {c.data[n] : n \in 1 .. Len(c.data)}

\* Every variable has its type.
TypeOK ==
  /\ words \in BitArrays(Shape)
  /\ call \in [Goroutines -> CallState]
  /\ lock \in [writer : SUBSET Writers, readers : SUBSET Goroutines]
  /\ added \in SUBSET Keys

(***************************************************************************)
(* A key whose insertion returned before a test of it began is never       *)
(* answered "absent", whichever call inserted it, whichever tests it, in   *)
(* whatever window or place of a batch, and whoever inserts meanwhile.     *)
(***************************************************************************)
NoFalseNegatives ==
  \A g \in Goroutines : \A n \in DOMAIN call[g].out :
    call[g].out[n] = "absent" => call[g].data[n] \notin call[g].due

(***************************************************************************)
(* The array holds every bit of the inserted keys, and no bit that a key   *)
(* inserted or being inserted does not account for: no update of a word is *)
(* lost, none lands in another block.  With no insertion pending it is     *)
(* exactly what a loop of Add over the keys leaves.                        *)
(***************************************************************************)
ExactBits ==
  /\ \A key \in added : AllSet(key)
  /\ BitsOf(words) \subseteq
       BitsOfKeys(added \cup UNION {KeysOf(call[g]) : g \in Pending})

(***************************************************************************)
(* While the callers' lock is held, out[i] is the answer for data[i] and   *)
(* for no other key: present exactly when all k bits of that key are set.  *)
(***************************************************************************)
BatchAgreesWithTest ==
  \A g \in Goroutines : \A n \in DOMAIN call[g].out :
    /\ call[g].out[n] = "present" => AllSet(call[g].data[n])
    /\ Locking /\ call[g].out[n] = "absent" => ~AllSet(call[g].data[n])

(***************************************************************************)
(* When TestBatch returns it has answered for every key, those of a last,  *)
(* shorter window included.                                                *)
(***************************************************************************)
EveryKeyAnswered ==
  \A g \in Goroutines :
    /\ call[g].op = "test" /\ call[g].pc = "window"
    /\ call[g].base >= Len(call[g].data)
    => \A n \in DOMAIN call[g].out : call[g].out[n] # "none"

(***************************************************************************)
(* What every tier promises: see BloomSet.  A key may be reported once all *)
(* its bits are set.                                                       *)
(***************************************************************************)
Reported == {key \in Keys : AllSet(key)}

Abstract == INSTANCE BloomSet WITH members <- added, maybe <- Reported

Refines == Abstract!Spec

(***************************************************************************)
(* Every call returns: the batch loop, its windows and the probe loops end *)
(* and nobody waits for the lock for ever.                                 *)
(***************************************************************************)
EveryCallReturns ==
  \A g \in Goroutines : call[g].pc # "idle" ~> call[g].pc = "idle"

-----------------------------------------------------------------------------
(***************************************************************************)
(* The inductive invariant.  Framed: a call stands on the key that its     *)
(* loop variables say, at the state its walk has after i turns.            *)
(***************************************************************************)
Probing(c) == c.pc \in {"probe", "store"}

Framed(c) ==
  /\ c.pc # "idle" => c.op # "none"
  /\ c.pc = "lock" => c.base = 0
  /\ Len(c.out) = Len(c.data)
  /\ (c.op = "test" /\ Inside(c)) \/ \A n \in 1 .. Len(c.out) : c.out[n] = "none"
  /\ Probing(c) =>
       /\ c.j < WindowSize(c)
       /\ c.probe = [n \in 1 .. WindowSize(c) |-> Locate(c.data[c.base + n])]
       /\ c.cur = KeyWalk[KeyOf(c)][c.i]
  /\ c.pc = "store" => c.op = "add" /\ c.i < Shape.k

\* What a pending |= has loaded is still what the array holds.
Fresh(c) == c.pc = "store" => c.reg = words[WordOf(c.cur)]

(***************************************************************************)
(* The bits of the key under way that were passed are set, and so are all  *)
(* the bits of the keys an insertion has dealt with; the keys a test has   *)
(* dealt with are answered.                                                *)
(***************************************************************************)
BitAt(key, i) == <<WordOf(KeyWalk[key][i]), BitOf(KeyWalk[key][i])>>

Done(c) == IF Probing(c) THEN c.base + c.j ELSE c.base

Complete(c) ==
  c.op = "test" /\ Inside(c) =>
    \A n \in 1 .. Len(c.data) : n <= Done(c) => c.out[n] # "none"

Progress(c) ==
  /\ Probing(c) => \A i \in 0 .. c.i - 1 : IsSet(BitAt(KeyOf(c), i))
  /\ c.op = "add" /\ Inside(c) =>
       \A n \in 1 .. Len(c.data) : n <= Done(c) => AllSet(c.data[n])
  /\ Complete(c)

\* Who may be inside a call together.
Excluded ==
  /\ \A g \in Goroutines : call[g].op = "add" => g \in Writers
  /\ Locking => \A g \in Goroutines : Inside(call[g]) =>
       IF call[g].op = "add" THEN lock = [writer |-> {g}, readers |-> {}]
                             ELSE lock.writer = {} /\ g \in lock.readers

IInv ==
  /\ TypeOK
  /\ Excluded
  /\ \A g \in Goroutines : Framed(call[g]) /\ Fresh(call[g]) /\ Progress(call[g])
  /\ \A g \in Goroutines : call[g].due \subseteq added
  /\ ExactBits
  /\ NoFalseNegatives
  /\ BatchAgreesWithTest
=============================================================================
