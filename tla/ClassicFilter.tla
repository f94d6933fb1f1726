---------------------------- MODULE ClassicFilter ----------------------------
(***************************************************************************)
(* One classic Filter shared by goroutines (filter.go).                    *)
(*                                                                         *)
(* Two 128-bit hashes of a key, seeded with consecutive seeds, give four   *)
(* words, and these the k bits of the key anywhere in the array.  The      *)
(* array is a bits-and-blooms BitSet, modelled from its use here: Set is   *)
(* `|=` on a word, after growing the set when the bit lies beyond it, and  *)
(* Test answers FALSE beyond it.  New(m, k) asks for m bits but reduces    *)
(* positions modulo max(1, m), so a filter of no bits grows at its first   *)
(* insertion.                                                              *)
(***************************************************************************)
EXTENDS Integers

CONSTANTS Goroutines, Writers, Locking,
          Keys,
          Hasher,       \* <<key, seed>> |-> the 128-bit hash: hi, lo
          Sizes,        \* the m, k and seed that filters are built with
          U64,          \* uint64 arithmetic wraps at U64
          WordBits      \* bits of a word of the BitSet

ASSUME ClassicAssumption ==
  /\ Writers \subseteq Goroutines /\ Locking \in BOOLEAN
  /\ U64 \in Nat \ {0} /\ WordBits \in Nat \ {0}
  /\ Hasher \in [Keys \X (0 .. U64 - 1) -> [hi : 0 .. U64 - 1, lo : 0 .. U64 - 1]]
  /\ Sizes \subseteq [m : 0 .. U64 - 1, k : Nat, seed : 0 .. U64 - 1]

ASSUME ClassicCallerAssumption == Locking \/ \A g, h \in Writers : g = h

VARIABLES f,        \* the fields m, k, seed
          bits,     \* f.b: length and the words' bits that are 1
          call,     \* each goroutine's call
          lock,     \* the callers' RWMutex
          added     \* history: keys whose insertion has returned
vars == <<f, bits, call, lock, added>>

-----------------------------------------------------------------------------
MaxU(x, y) == IF x > y THEN x ELSE y

BaseHashes(key) ==
  LET a == Hasher[<<key, f.seed>>]
      b == Hasher[<<key, (f.seed + 1) % U64>>]
  IN  <<a.lo, a.hi, b.lo, b.hi>>

\* h[ii%2] + ii*h[2+(((ii+(ii%2))%4)/2)], with h counted from 0.
Location(h, i) ==
  (h[1 + (i % 2)] + i * h[3 + (((i + (i % 2)) % 4) \div 2)]) % U64

\* The i-th position of a key; and mutated, not reduced modulo m.
LocRaw(key, i) == Location(BaseHashes(key), i)

Loc(key, i) == Location(BaseHashes(key), i) % f.m

Positions(key) == {Loc(key, i) : i \in 0 .. f.k - 1}

(***************************************************************************)
(* BitSet: the bits that are 1 among the first length; a word of it is the *)
(* bits that are loaded and stored together.                               *)
(***************************************************************************)
Word(w)  == {p \in bits.ones : p \div WordBits = w}
IsSet(p) == p < bits.length /\ p \in bits.ones

\* Set grows the set where it must; and mutated, it never does.
FittedNever(p) == bits

Fitted(p) == [bits EXCEPT !.length = IF p >= bits.length THEN p + 1 ELSE bits.length]

(***************************************************************************)
(* A call: i is the loop variable, reg the word that a pending Set has     *)
(* loaded, present TestAndAdd's result so far.  History: due, the keys     *)
(* inserted when the call was made, and before, what Test would have       *)
(* answered when it entered.                                               *)
(***************************************************************************)
Idle == [pc |-> "idle", op |-> "none", key |-> "none", i |-> 0, reg |-> {},
         present |-> TRUE, answer |-> "none", due |-> {}, before |-> FALSE]

Inserts(c) == c.op \in {"add", "testadd"}
Inside(c)  == c.pc \in {"loop", "set", "store", "return"}
Answered(b) == IF b THEN "present" ELSE "absent"

-----------------------------------------------------------------------------
Init ==
  /\ \E s \in Sizes :
       /\ f = [m |-> MaxU(1, s.m), k |-> MaxU(1, s.k), seed |-> s.seed]
       /\ bits = [length |-> s.m, ones |-> {}]
  /\ call = [g \in Goroutines |-> Idle]
  /\ lock = [writer |-> {}, readers |-> {}]
  /\ added = {}

Call(g, op, key) ==
  /\ call[g].pc = "idle"
  /\ op # "test" => g \in Writers
  /\ call' = [call EXCEPT ![g] = [Idle EXCEPT !.pc = "lock", !.op = op, !.key = key,
                                              !.due = added]]
  /\ UNCHANGED <<f, bits, lock, added>>

\* The callers' RWMutex; and mutated, no mutual exclusion.
CanAlwaysLock(c) == TRUE

CanLock(c) == lock.writer = {} /\ (Inserts(c) => lock.readers = {})

Acquire(g) ==
  LET c == call[g] IN
  /\ c.pc = "lock"
  /\ Locking => CanLock(c)
  /\ lock' = IF ~Locking THEN lock
             ELSE IF Inserts(c) THEN [lock EXCEPT !.writer = {g}]
             ELSE [lock EXCEPT !.readers = @ \cup {g}]
  /\ call' = [call EXCEPT ![g] = [c EXCEPT !.pc = "loop",
                !.before = \A p \in Positions(c.key) : IsSet(p)]]
  /\ UNCHANGED <<f, bits, added>>

(***************************************************************************)
(* One turn of Test: a 0 bit answers FALSE at once.                        *)
(***************************************************************************)
TestBit(g) ==
  LET c == call[g] IN
  /\ c.pc = "loop" /\ c.op = "test" /\ c.i < f.k
  /\ call' = [call EXCEPT ![g] =
       IF IsSet(Loc(c.key, c.i))
         THEN [c EXCEPT !.i = c.i + 1]
         ELSE [c EXCEPT !.pc = "return", !.answer = "absent"]]
  /\ UNCHANGED <<f, bits, lock, added>>

(***************************************************************************)
(* The test of one turn of TestAndAdd; and mutated, it comes after the Set *)
(* and so always finds the bit.                                            *)
(***************************************************************************)
LookAfterSet(g) ==
  LET c == call[g] IN
  /\ c.pc = "loop" /\ c.op = "testadd" /\ c.i < f.k
  /\ call' = [call EXCEPT ![g] =
       [c EXCEPT !.pc = "set"]]
  /\ UNCHANGED <<f, bits, lock, added>>

LookFirst(g) ==
  LET c == call[g] IN
  /\ c.pc = "loop" /\ c.op = "testadd" /\ c.i < f.k
  /\ call' = [call EXCEPT ![g] =
       [c EXCEPT !.pc = "set", !.present = c.present /\ IsSet(Loc(c.key, c.i))]]
  /\ UNCHANGED <<f, bits, lock, added>>

(***************************************************************************)
(* b.Set of one turn of Add or TestAndAdd: load the word, store it back;   *)
(* and mutated, store the one bit.                                         *)
(***************************************************************************)
Load(g) ==
  LET c == call[g] IN
  /\ \/ c.pc = "loop" /\ c.op = "add"
     \/ c.pc = "set"
  /\ c.i < f.k
  /\ bits' = Fitted(Loc(c.key, c.i))
  /\ call' = [call EXCEPT ![g] =
       [c EXCEPT !.pc = "store", !.reg = Word(Loc(c.key, c.i) \div WordBits)]]
  /\ UNCHANGED <<f, lock, added>>

StoreOverwriting(g) ==
  LET c == call[g]
      p == Loc(c.key, c.i)
  IN
  /\ c.pc = "store"
  /\ bits' = [bits EXCEPT !.ones = (bits.ones \ Word(p \div WordBits)) \cup {p}]
  /\ call' = [call EXCEPT ![g] = [c EXCEPT !.pc = "loop", !.i = c.i + 1, !.reg = {}]]
  /\ UNCHANGED <<f, lock, added>>

Store(g) ==
  LET c == call[g]
      p == Loc(c.key, c.i)
  IN
  /\ c.pc = "store"
  /\ bits' = [bits EXCEPT !.ones = (bits.ones \ Word(p \div WordBits)) \cup c.reg \cup {p}]
  /\ call' = [call EXCEPT ![g] = [c EXCEPT !.pc = "loop", !.i = c.i + 1, !.reg = {}]]
  /\ UNCHANGED <<f, lock, added>>

\* The loop ran its k turns.
LoopEnds(g) ==
  LET c == call[g] IN
  /\ c.pc = "loop" /\ c.i = f.k
  /\ call' = [call EXCEPT ![g] =
       [c EXCEPT !.pc = "return",
                 !.answer = IF c.op = "add" THEN "none" ELSE Answered(c.present)]]
  /\ UNCHANGED <<f, bits, lock, added>>

Return(g) ==
  LET c == call[g] IN
  /\ c.pc = "return"
  /\ call' = [call EXCEPT ![g] = Idle]
  /\ lock' = [writer |-> lock.writer \ {g}, readers |-> lock.readers \ {g}]
  /\ added' = IF Inserts(c) THEN added \cup {c.key} ELSE added
  /\ UNCHANGED <<f, bits>>

Next ==
  \E g \in Goroutines :
    \/ \E op \in {"add", "test", "testadd"}, key \in Keys : Call(g, op, key)
    \/ Acquire(g) \/ TestBit(g) \/ LookFirst(g) \/ Load(g) \/ Store(g)
    \/ LoopEnds(g) \/ Return(g)

Spec == Init /\ [][Next]_vars

-----------------------------------------------------------------------------
AllSet(key) == \A p \in Positions(key) : IsSet(p)

\* Every variable has its type: no bit lies beyond the m of the filter.
TypeOK ==
  /\ f.m \in Nat \ {0} /\ f.k \in Nat \ {0} /\ f.seed \in 0 .. U64 - 1
  /\ bits.length \in 0 .. f.m
  /\ bits.ones \subseteq 0 .. bits.length - 1
  /\ \A g \in Goroutines :
       /\ call[g].pc \in {"idle", "lock", "loop", "set", "store", "return"}
       /\ call[g].i \in 0 .. f.k
       /\ call[g].answer \in {"none", "absent", "present"}
  /\ lock \in [writer : SUBSET Writers, readers : SUBSET Goroutines]
  /\ added \subseteq Keys

(***************************************************************************)
(* A key whose insertion, by Add or by TestAndAdd, returned before a call  *)
(* began is not answered "absent" by it, also in a filter built with no    *)
(* bits and one whose seed is the largest.                                 *)
(***************************************************************************)
NoFalseNegatives ==
  \A g \in Goroutines : call[g].answer = "absent" => call[g].key \notin call[g].due

(***************************************************************************)
(* TestAndAdd "returns previous membership": what Test would have answered *)
(* before it, although it sets bits while it looks and a key may have the  *)
(* same position twice.                                                    *)
(***************************************************************************)
TestAndAddAnswersBefore ==
  \A g \in Goroutines :
    /\ call[g].op = "testadd" /\ call[g].answer # "none"
    => call[g].answer = Answered(call[g].before)

(***************************************************************************)
(* Of the TestAndAdd calls of a key that overlap, none but the first to    *)
(* hold the lock says that the key is new: together they deduplicate.      *)
(***************************************************************************)
OneNewcomer ==
  [][\A g \in Goroutines :
       /\ call[g].op = "testadd" /\ call[g].pc = "loop" /\ call'[g].answer = "absent"
       => call[g].key \notin added]_vars

(***************************************************************************)
(* The classic tier keeps the promise of every tier: see BloomSet.         *)
(***************************************************************************)
Abstract == INSTANCE BloomSet WITH members <- added,
                                   maybe <- {key \in Keys : AllSet(key)}

Refines == Abstract!Spec
=============================================================================
