------------------------ MODULE ClassicFilterProofs ------------------------
(***************************************************************************)
(* Proofs about a classic Filter shared by any number of goroutines, for   *)
(* any keys, hash function, m, k and seed, including a filter built with   *)
(* no bits.                                                                *)
(***************************************************************************)
EXTENDS ClassicFilter, TLAPS

-----------------------------------------------------------------------------
(***************************************************************************)
(* The inductive invariant.  Framed: where a call stands, as far as its    *)
(* own fields tell.                                                        *)
(***************************************************************************)
CallState ==
  [pc : {"idle", "lock", "loop", "set", "store", "return"},
   op : {"none", "add", "test", "testadd"}, key : Keys \cup {"none"},
   i : Nat, reg : SUBSET Nat, present : BOOLEAN,
   answer : {"none", "absent", "present"}, due : SUBSET Keys, before : BOOLEAN]

Framed(c) ==
  /\ c.pc # "idle" => c.op # "none" /\ c.key \in Keys
  /\ c.i <= f.k
  /\ c.pc \in {"idle", "lock"} => c.i = 0 /\ c.present
  /\ c.pc = "set" => c.op = "testadd"
  /\ c.pc = "store" => Inserts(c)
  /\ c.pc \in {"set", "store"} => c.i < f.k
  /\ c.pc # "return" => c.answer = "none"
  /\ c.pc = "return" /\ Inserts(c) => c.i = f.k
  /\ c.op = "test" => c.present

\* What a pending Set has loaded is still what the array holds.
Fresh(c) ==
  c.pc = "store" => /\ c.reg = Word(Loc(c.key, c.i) \div WordBits)
                    /\ Loc(c.key, c.i) < bits.length

\* The bits that were passed are 1.
Passed(c) == Inside(c) => \A i \in 0 .. c.i - 1 : Loc(c.key, i) \in bits.ones

(***************************************************************************)
(* TestAndAdd sets bits while it looks.  A key that was all there stays    *)
(* so and is seen so; for one that was not, either a 0 bit was seen or one *)
(* is still to come, and a bit that is about to be set was 1 already       *)
(* unless a 0 bit was seen.                                                *)
(***************************************************************************)
Remembers(c) ==
  c.op = "testadd" /\ Inside(c) =>
    /\ c.key \in added => c.before
    /\ c.before => c.present /\ \A i \in 0 .. f.k - 1 : Loc(c.key, i) \in bits.ones
    /\ ~c.before /\ c.present => \E i \in c.i .. f.k - 1 : Loc(c.key, i) \notin bits.ones
    /\ c.pc \in {"set", "store"} /\ c.present => Loc(c.key, c.i) \in bits.ones
    /\ c.answer # "none" => c.answer = Answered(c.before)

\* Who may be inside a call together.
Excluded ==
  /\ \A g \in Goroutines : Inserts(call[g]) => g \in Writers
  /\ Locking => \A g \in Goroutines : Inside(call[g]) =>
       IF Inserts(call[g]) THEN lock = [writer |-> {g}, readers |-> {}]
                           ELSE lock.writer = {} /\ g \in lock.readers

Fields ==
  /\ f.m \in Nat \ {0} /\ f.k \in Nat \ {0} /\ f.seed \in 0 .. U64 - 1
  /\ bits \in [length : 0 .. f.m, ones : SUBSET Nat]
  /\ \A p \in bits.ones : p < bits.length

Locks == [writer : SUBSET Writers, readers : SUBSET Goroutines]

IInv ==
  /\ Fields
  /\ call \in [Goroutines -> CallState] /\ lock \in Locks /\ added \in SUBSET Keys
  /\ Excluded
  /\ \A g \in Goroutines :
       /\ Framed(call[g]) /\ Fresh(call[g]) /\ Passed(call[g]) /\ Remembers(call[g])
       /\ call[g].due \subseteq added
  /\ \A key \in added : AllSet(key)
  /\ NoFalseNegatives

-----------------------------------------------------------------------------
(***************************************************************************)
(* Positions.                                                              *)
(***************************************************************************)
LEMMA ModNat ==
  ASSUME NEW x \in Nat, NEW n \in Nat \ {0}
  PROVE  x % n \in 0 .. n - 1
OBVIOUS

LEMMA TimesNat ==
  ASSUME NEW x \in Nat, NEW y \in Nat
  PROVE  x * y \in Nat
OBVIOUS

\* Every position of a key is one of the m bits.
LEMMA LocInArray ==
  ASSUME Fields, NEW key \in Keys, NEW i \in Nat
  PROVE  Loc(key, i) \in 0 .. f.m - 1
<1> DEFINE a == Hasher[<<key, f.seed>>]
           b == Hasher[<<key, (f.seed + 1) % U64>>]
           r == i % 2
           s == ((i + r) % 4) \div 2
<1>1. f.seed \in 0 .. U64 - 1 /\ (f.seed + 1) % U64 \in 0 .. U64 - 1
  <2>1. U64 \in Nat \ {0} /\ f.seed \in 0 .. U64 - 1
    BY ClassicAssumption DEF Fields
  <2>2. f.seed + 1 \in Nat
    BY <2>1
  <2> QED
    BY <2>1, <2>2, ModNat
<1>2. /\ a \in [hi : 0 .. U64 - 1, lo : 0 .. U64 - 1]
      /\ b \in [hi : 0 .. U64 - 1, lo : 0 .. U64 - 1]
  BY <1>1, ClassicAssumption
<1>3. BaseHashes(key) = <<a.lo, a.hi, b.lo, b.hi>>
  BY DEF BaseHashes
<1>4. a.lo \in Nat /\ a.hi \in Nat /\ b.lo \in Nat /\ b.hi \in Nat
  BY <1>2, ClassicAssumption
<1>5. r \in {0, 1} /\ s \in {0, 1}
  OBVIOUS
<1> HIDE DEF a, b, r, s
<1>6. BaseHashes(key)[1 + r] \in Nat /\ BaseHashes(key)[3 + s] \in Nat
  <2>1. CASE r = 0 /\ s = 0
    BY <1>3, <1>4, <2>1
  <2>2. CASE r = 0 /\ s = 1
    BY <1>3, <1>4, <2>2
  <2>3. CASE r = 1 /\ s = 0
    BY <1>3, <1>4, <2>3
  <2>4. CASE r = 1 /\ s = 1
    BY <1>3, <1>4, <2>4
  <2> QED
    BY <1>5, <2>1, <2>2, <2>3, <2>4
<1>7. Location(BaseHashes(key), i)
        = (BaseHashes(key)[1 + r] + i * BaseHashes(key)[3 + s]) % U64
  BY DEF Location, r, s
<1>8. BaseHashes(key)[1 + r] + i * BaseHashes(key)[3 + s] \in Nat
  BY <1>6, TimesNat
<1>9. Location(BaseHashes(key), i) \in Nat
  <2>1. PICK x \in Nat : x = BaseHashes(key)[1 + r] + i * BaseHashes(key)[3 + s]
    BY <1>8
  <2> QED
    <3>1. U64 \in Nat \ {0}
      BY ClassicAssumption
    <3>2. x % U64 \in 0 .. U64 - 1
      BY <3>1, ModNat
    <3> QED
      BY <1>7, <2>1, <3>1, <3>2
<1> QED
  BY <1>9, ModNat DEF Loc, Fields

\* The positions do not change while the fields of the filter do not.
LEMMA LocFixed ==
  ASSUME f' = f
  PROVE  \A key, i : Loc(key, i)' = Loc(key, i)
BY DEF Loc, BaseHashes, Location

LEMMA AllSetBits ==
  ASSUME Fields, NEW key \in Keys
  PROVE  AllSet(key) <=> \A i \in 0 .. f.k - 1 : Loc(key, i) \in bits.ones
BY DEF AllSet, Positions, IsSet, Fields

-----------------------------------------------------------------------------
LEMMA IdleFacts ==
  ASSUME Fields
  PROVE  /\ Idle \in CallState /\ Framed(Idle) /\ Fresh(Idle) /\ Passed(Idle)
         /\ Remembers(Idle) /\ Idle.due = {} /\ Idle.answer = "none"
         /\ ~Inside(Idle) /\ ~Inserts(Idle)
BY DEF Idle, CallState, Framed, Fresh, Passed, Remembers, Inside, Inserts, Fields

LEMMA InitInv == Init => IInv
<1>1. SUFFICES ASSUME Init PROVE IInv
  OBVIOUS
<1>2. PICK s \in Sizes : /\ f = [m |-> MaxU(1, s.m), k |-> MaxU(1, s.k), seed |-> s.seed]
                         /\ bits = [length |-> s.m, ones |-> {}]
  BY <1>1 DEF Init
<1>3. s.m \in Nat /\ s.k \in Nat /\ s.seed \in 0 .. U64 - 1
  BY ClassicAssumption
<1>4. Fields
  BY <1>2, <1>3 DEF Fields, MaxU
<1>5. call = [g \in Goroutines |-> Idle] /\ lock = [writer |-> {}, readers |-> {}] /\ added = {}
  BY <1>1 DEF Init
<1>6. \A g \in Goroutines : call[g] = Idle
  BY <1>5
<1>7. Excluded
  BY <1>4, <1>6, IdleFacts DEF Excluded
<1>8. NoFalseNegatives
  BY <1>4, <1>6, IdleFacts DEF NoFalseNegatives
<1>9. call \in [Goroutines -> CallState] /\ lock \in Locks
  BY <1>4, <1>5, IdleFacts DEF Locks
<1> QED
  BY <1>4, <1>5, <1>6, <1>7, <1>8, <1>9, IdleFacts DEF IInv

\* What the invariant says of one goroutine's call.
LEMMA CallFacts ==
  ASSUME IInv, NEW g \in Goroutines
  PROVE  /\ call[g] \in CallState
         /\ Framed(call[g]) /\ Fresh(call[g]) /\ Passed(call[g]) /\ Remembers(call[g])
         /\ call[g].due \subseteq added
         /\ call[g].answer = "absent" => call[g].key \notin call[g].due
         /\ Fields /\ Excluded /\ lock \in Locks /\ added \in SUBSET Keys
         /\ call \in [Goroutines -> CallState]
         /\ \A key \in added : AllSet(key)
BY DEF IInv, NoFalseNegatives

(***************************************************************************)
(* A step that changes one call and at most extends the array with 0 bits. *)
(***************************************************************************)
LEMMA LocalStep ==
  ASSUME IInv, NEW g \in Goroutines, NEW d \in CallState,
         call' = [call EXCEPT ![g] = d], f' = f, added' = added,
         bits' \in [length : 0 .. f.m, ones : SUBSET Nat],
         bits'.ones = bits.ones, bits.length <= bits'.length,
         lock' \in Locks, Excluded',
         Framed(d), Fresh(d)', Passed(d), Remembers(d), d.due \subseteq added,
         d.answer = "absent" => d.key \notin d.due
  PROVE  IInv'
<1>1. /\ call \in [Goroutines -> CallState]
      /\ call'[g] = d /\ \A h \in Goroutines \ {g} : call'[h] = call[h]
  BY DEF IInv
<1>2. Fields'
  BY DEF IInv, Fields
<1>3. \A key, i : Loc(key, i)' = Loc(key, i)
  BY LocFixed
<1>4. ASSUME NEW h \in Goroutines
      PROVE  /\ Framed(call[h])' /\ Fresh(call[h])' /\ Passed(call[h])' /\ Remembers(call[h])'
             /\ call'[h].due \subseteq added'
             /\ call'[h].answer = "absent" => call'[h].key \notin call'[h].due
  <2>1. CASE h = g
    BY <1>1, <1>3, <2>1 DEF Framed, Passed, Remembers, Fresh, Word
  <2>2. CASE h # g
    <3>1. PICK e : e = call[h]
      OBVIOUS
    <3>2. /\ e \in CallState /\ Framed(e) /\ Fresh(e) /\ Passed(e) /\ Remembers(e)
          /\ e.due \subseteq added /\ (e.answer = "absent" => e.key \notin e.due)
          /\ Fields /\ e = call'[h]
      BY <1>1, <2>2, <3>1, CallFacts
    <3>3. Framed(e)' /\ Passed(e)' /\ Remembers(e)'
      BY <1>3, <3>2 DEF Framed, Passed, Remembers
    <3>4. Fresh(e)'
      <4>1. SUFFICES ASSUME e.pc = "store"
                     PROVE  e.reg = Word(Loc(e.key, e.i) \div WordBits)'
                            /\ Loc(e.key, e.i)' < bits'.length
        BY DEF Fresh
      <4>2. /\ e.reg = Word(Loc(e.key, e.i) \div WordBits) /\ Loc(e.key, e.i) < bits.length
        BY <3>2, <4>1 DEF Fresh
      <4>3. Loc(e.key, e.i) \in Nat /\ bits.length \in Nat /\ bits'.length \in Nat
        <5>1. e.key \in Keys /\ e.i \in Nat
          BY <3>2, <4>1 DEF Framed, CallState
        <5> QED
          BY <3>2, <5>1, LocInArray DEF Fields
      <4> QED
        BY <1>3, <4>2, <4>3 DEF Word
    <3> QED
      <4>1. Framed(call[h])'
        BY <3>2, <3>3 DEF Framed
      <4>2. Fresh(call[h])'
        BY <3>2, <3>4 DEF Fresh, Word
      <4>3. Passed(call[h])' /\ Remembers(call[h])'
        BY <3>2, <3>3 DEF Passed, Remembers
      <4>4. /\ call'[h].due \subseteq added'
            /\ call'[h].answer = "absent" => call'[h].key \notin call'[h].due
        BY <3>2
      <4> QED
        BY <4>1, <4>2, <4>3, <4>4
  <2> QED
    BY <2>1, <2>2
<1>5. \A key \in added' : AllSet(key)'
  <2>1. TAKE key \in added
  <2>2. \A i \in 0 .. f.k - 1 : Loc(key, i) \in bits.ones
    BY AllSetBits DEF IInv
  <2>3. \A i \in 0 .. f.k - 1 : IsSet(Loc(key, i))'
    BY <1>2, <1>3, <2>2 DEF IsSet, Fields
  <2> QED
    BY <1>3, <2>3 DEF AllSet, Positions, IsSet
<1> QED
  <2>1. call' \in [Goroutines -> CallState] /\ lock' \in Locks /\ added' \in SUBSET Keys
    BY <1>1 DEF IInv, Locks
  <2>2. NoFalseNegatives'
    BY <1>4 DEF NoFalseNegatives
  <2> QED
    BY <1>2, <1>4, <1>5, <2>1, <2>2 DEF IInv, Locks

\* A step that changes one call and leaves the array alone.
LEMMA QuietStep ==
  ASSUME IInv, NEW g \in Goroutines, NEW d \in CallState,
         call' = [call EXCEPT ![g] = d], f' = f, added' = added, bits' = bits,
         lock' \in Locks, Excluded',
         Framed(d), Fresh(d)', Passed(d), Remembers(d), d.due \subseteq added,
         d.answer = "absent" => d.key \notin d.due
  PROVE  IInv'
<1>1. /\ bits' \in [length : 0 .. f.m, ones : SUBSET Nat]
      /\ bits'.ones = bits.ones /\ bits.length <= bits'.length
  BY CallFacts DEF Fields
<1> QED
  BY <1>1, LocalStep

LEMMA CallInv ==
  ASSUME IInv, NEW g \in Goroutines, NEW op \in {"add", "test", "testadd"},
         NEW key \in Keys, Call(g, op, key)
  PROVE  IInv'
<1>1. PICK d : d = [Idle EXCEPT !.pc = "lock", !.op = op, !.key = key, !.due = added]
  OBVIOUS
<1>2. /\ call' = [call EXCEPT ![g] = d] /\ UNCHANGED <<f, bits, lock, added>>
      /\ op # "test" => g \in Writers
  BY <1>1 DEF Call
<1>3. /\ d.pc = "lock" /\ d.op = op /\ d.key = key /\ d.due = added /\ d.i = 0
      /\ d.present /\ d.answer = "none"
  BY <1>1 DEF Idle
<1>4. d \in CallState
  <2>1. added \in SUBSET Keys
    BY CallFacts
  <2> QED
    BY <1>1, <2>1 DEF Idle, CallState
<1>5. Framed(d) /\ Fresh(d)' /\ Passed(d) /\ Remembers(d)
  BY <1>3, CallFacts DEF Framed, Fresh, Passed, Remembers, Inside, Fields
<1>6. Excluded'
  BY <1>2, <1>3, CallFacts DEF Excluded, Inside, Inserts
<1> QED
  BY <1>2, <1>3, <1>4, <1>5, <1>6, CallFacts, QuietStep

LEMMA AcquireInv ==
  ASSUME IInv, NEW g \in Goroutines, Acquire(g)
  PROVE  IInv'
<1>1. PICK c : c = call[g]
  OBVIOUS
<1>2. PICK d : d = [c EXCEPT !.pc = "loop", !.before = \A p \in Positions(c.key) : IsSet(p)]
  OBVIOUS
<1>3. /\ call' = [call EXCEPT ![g] = d] /\ UNCHANGED <<f, bits, added>> /\ c.pc = "lock"
      /\ c \in CallState /\ Framed(c) /\ c.due \subseteq added
  BY <1>1, <1>2, CallFacts DEF Acquire
<1>4. /\ d.pc = "loop" /\ d.op = c.op /\ d.key = c.key /\ d.i = 0 /\ d.present
      /\ d.answer = "none" /\ d.due = c.due /\ c.key \in Keys /\ d.op # "none"
      /\ d.before = AllSet(c.key)
  BY <1>2, <1>3 DEF CallState, Framed, AllSet
<1>5. d \in CallState
  <2>1. AllSet(c.key) \in BOOLEAN
    BY DEF AllSet
  <2> QED
    BY <1>2, <1>3, <2>1, Zenon DEF CallState, AllSet
<1>6. Framed(d) /\ Fresh(d)' /\ Passed(d)
  BY <1>4, CallFacts DEF Framed, Fresh, Passed, Inserts, Fields
<1>7. Remembers(d)
  <2>1. AllSet(c.key) <=> \A i \in 0 .. f.k - 1 : Loc(c.key, i) \in bits.ones
    BY <1>4, AllSetBits, CallFacts
  <2>2. c.key \in added => AllSet(c.key)
    BY CallFacts
  <2> QED
    BY <1>4, <2>1, <2>2 DEF Remembers
<1>8. lock' \in Locks
  <2>1. Inserts(c) => g \in Writers
    BY <1>1, CallFacts DEF Excluded
  <2> QED
    BY <1>1, <2>1, CallFacts DEF Acquire, Locks
<1>9. Excluded'
  <2>1. (\A h \in Goroutines : Inserts(call[h]) => h \in Writers)'
    BY <1>1, <1>3, <1>4, CallFacts DEF Excluded, Inserts
  <2>2. ASSUME Locking, NEW h \in Goroutines, Inside(call'[h])
        PROVE  IF Inserts(call'[h]) THEN lock' = [writer |-> {h}, readers |-> {}]
                                    ELSE lock'.writer = {} /\ h \in lock'.readers
    <3>1. /\ lock.writer = {}
          /\ Inserts(c) => lock.readers = {}
          /\ lock' = IF Inserts(c) THEN [lock EXCEPT !.writer = {g}]
                                   ELSE [lock EXCEPT !.readers = @ \cup {g}]
      BY <1>1, <2>2 DEF Acquire, CanLock
    <3>2. lock \in [writer : SUBSET Writers, readers : SUBSET Goroutines]
      BY CallFacts DEF Locks
    <3>3. CASE h = g
      <4>1. Inserts(call'[h]) <=> Inserts(c)
        BY <1>3, <1>4, <3>3, CallFacts DEF Inserts
      <4> QED
        BY <3>1, <3>2, <3>3, <4>1
    <3>4. CASE h # g
      <4>1. call'[h] = call[h]
        BY <1>3, <3>4, CallFacts
      <4>2. ~Inserts(call[h]) /\ h \in lock.readers
        BY <2>2, <3>1, <4>1, CallFacts DEF Excluded
      <4> QED
        BY <3>1, <3>2, <4>1, <4>2
    <3> QED
      BY <3>3, <3>4
  <2> QED
    BY <2>1, <2>2 DEF Excluded
<1> QED
  BY <1>3, <1>4, <1>5, <1>6, <1>7, <1>8, <1>9, CallFacts, QuietStep

\* A goroutine that stays inside its call keeps the lock it holds.
LEMMA ExcludedKept ==
  ASSUME IInv, NEW g \in Goroutines, NEW d, call' = [call EXCEPT ![g] = d],
         lock' = lock, d.op = call[g].op, Inside(call[g])
  PROVE  Excluded'
BY CallFacts DEF Excluded, Inserts, Inside

(***************************************************************************)
(* Nobody else is inserting, and under the lock nobody else is reading,    *)
(* while a goroutine is inside an insertion.                               *)
(***************************************************************************)
LEMMA Alone ==
  ASSUME IInv, NEW g \in Goroutines, Inserts(call[g]), Inside(call[g]),
         NEW h \in Goroutines \ {g}
  PROVE  ~(Inserts(call[h]) /\ Inside(call[h])) /\ (Locking => ~Inside(call[h]))
<1>1. Excluded /\ g \in Writers
  BY CallFacts DEF Excluded
<1>2. CASE Locking
  <2>1. lock = [writer |-> {g}, readers |-> {}]
    BY <1>1, <1>2 DEF Excluded
  <2>2. SUFFICES ASSUME Inside(call[h]) PROVE FALSE
    OBVIOUS
  <2>3. IF Inserts(call[h]) THEN lock = [writer |-> {h}, readers |-> {}]
                            ELSE lock.writer = {} /\ h \in lock.readers
    BY <1>1, <1>2, <2>2 DEF Excluded
  <2> QED
    BY <2>1, <2>3
<1>3. CASE ~Locking
  BY <1>1, <1>3, ClassicCallerAssumption DEF Excluded
<1> QED
  BY <1>2, <1>3

-----------------------------------------------------------------------------
LEMMA TestBitInv ==
  ASSUME IInv, NEW g \in Goroutines, TestBit(g)
  PROVE  IInv'
<1>1. PICK c : c = call[g]
  OBVIOUS
<1>2. /\ c.pc = "loop" /\ c.op = "test" /\ c.i < f.k
      /\ UNCHANGED <<f, bits, lock, added>>
      /\ c \in CallState /\ Framed(c) /\ Passed(c) /\ c.due \subseteq added /\ Fields
      /\ c.key \in Keys /\ c.i \in Nat /\ f.k \in Nat /\ c.answer = "none"
      /\ Inside(c) /\ ~Inserts(c)
  BY <1>1, CallFacts DEF TestBit, CallState, Framed, Fields, Inside, Inserts
<1>3. CASE IsSet(Loc(c.key, c.i))
  <2>1. PICK d : d = [c EXCEPT !.i = c.i + 1]
    OBVIOUS
  <2>2. call' = [call EXCEPT ![g] = d]
    BY <1>1, <1>3, <2>1 DEF TestBit
  <2>3. /\ d.pc = "loop" /\ d.op = c.op /\ d.key = c.key /\ d.i = c.i + 1
        /\ d.present = c.present /\ d.answer = c.answer /\ d.due = c.due
    BY <1>2, <2>1 DEF CallState
  <2>4. d \in CallState
    <3>1. c.i + 1 \in Nat
      BY <1>2
    <3> QED
      BY <1>2, <2>1, <3>1, Zenon DEF CallState
  <2>5. Framed(d) /\ Fresh(d)' /\ Remembers(d)
    BY <1>2, <2>3 DEF Framed, Fresh, Remembers, Inserts
  <2>6. Passed(d)
    BY <1>2, <1>3, <2>3 DEF Passed, IsSet
  <2>7. Excluded'
    BY <1>1, <1>2, <2>2, <2>3, ExcludedKept
  <2> QED
    BY <1>2, <2>2, <2>3, <2>4, <2>5, <2>6, <2>7, CallFacts, QuietStep
<1>4. CASE ~IsSet(Loc(c.key, c.i))
  <2>1. PICK d : d = [c EXCEPT !.pc = "return", !.answer = "absent"]
    OBVIOUS
  <2>2. call' = [call EXCEPT ![g] = d]
    BY <1>1, <1>4, <2>1 DEF TestBit
  <2>3. /\ d.pc = "return" /\ d.op = c.op /\ d.key = c.key /\ d.i = c.i
        /\ d.present = c.present /\ d.answer = "absent" /\ d.due = c.due
    BY <1>2, <2>1 DEF CallState
  <2>4. d \in CallState
    BY <1>2, <2>1, Zenon DEF CallState
  <2>5. Framed(d) /\ Fresh(d)' /\ Passed(d) /\ Remembers(d)
    BY <1>2, <2>3 DEF Framed, Fresh, Passed, Remembers, Inserts, Inside
  <2>6. d.key \notin d.due
    <3>1. ~AllSet(c.key)
      <4>1. Loc(c.key, c.i) \in Positions(c.key)
        BY <1>2 DEF Positions
      <4> QED
        BY <1>4, <4>1 DEF AllSet
    <3> QED
      BY <1>2, <2>3, <3>1, CallFacts
  <2>7. Excluded'
    BY <1>1, <1>2, <2>2, <2>3, ExcludedKept
  <2> QED
    BY <1>2, <2>2, <2>3, <2>4, <2>5, <2>6, <2>7, CallFacts, QuietStep
<1> QED
  BY <1>3, <1>4

LEMMA LookFirstInv ==
  ASSUME IInv, NEW g \in Goroutines, LookFirst(g)
  PROVE  IInv'
<1>1. PICK c : c = call[g]
  OBVIOUS
<1>2. PICK d : d = [c EXCEPT !.pc = "set", !.present = c.present /\ IsSet(Loc(c.key, c.i))]
  OBVIOUS
<1>3. /\ c.pc = "loop" /\ c.op = "testadd" /\ c.i < f.k
      /\ call' = [call EXCEPT ![g] = d] /\ UNCHANGED <<f, bits, lock, added>>
      /\ c \in CallState /\ Framed(c) /\ Passed(c) /\ Remembers(c) /\ Fields
      /\ c.due \subseteq added
      /\ c.key \in Keys /\ c.i \in 0 .. f.k - 1 /\ f.k \in Nat /\ c.answer = "none"
      /\ Inside(c)
  BY <1>1, <1>2, CallFacts DEF LookFirst, CallState, Framed, Fields, Inside
<1>4. /\ d.pc = "set" /\ d.op = c.op /\ d.key = c.key /\ d.i = c.i
      /\ d.present = (c.present /\ IsSet(Loc(c.key, c.i)))
      /\ d.answer = c.answer /\ d.due = c.due /\ d.before = c.before
  BY <1>2, <1>3 DEF CallState
<1>5. d \in CallState
  <2>1. (c.present /\ IsSet(Loc(c.key, c.i))) \in BOOLEAN
    OBVIOUS
  <2> QED
    BY <1>2, <1>3, <2>1, Zenon DEF CallState
<1>6. IsSet(Loc(c.key, c.i)) <=> Loc(c.key, c.i) \in bits.ones
  BY <1>3 DEF IsSet, Fields
<1>7. Framed(d) /\ Fresh(d)' /\ Passed(d)
  BY <1>3, <1>4 DEF Framed, Fresh, Passed, Inside
<1>8. Remembers(d)
  BY <1>3, <1>4, <1>6 DEF Remembers, Inside
<1>9. Excluded'
  BY <1>1, <1>3, <1>4, ExcludedKept
<1> QED
  BY <1>3, <1>4, <1>5, <1>7, <1>8, <1>9, CallFacts, QuietStep

LEMMA LoadInv ==
  ASSUME IInv, NEW g \in Goroutines, Load(g)
  PROVE  IInv'
<1>1. PICK c : c = call[g]
  OBVIOUS
<1>2. PICK p : p = Loc(c.key, c.i)
  OBVIOUS
<1>3. PICK d : d = [c EXCEPT !.pc = "store", !.reg = Word(p \div WordBits)]
  OBVIOUS
<1>4. /\ (c.pc = "loop" /\ c.op = "add") \/ c.pc = "set"
      /\ c.i < f.k /\ bits' = Fitted(p)
      /\ call' = [call EXCEPT ![g] = d] /\ UNCHANGED <<f, lock, added>>
  BY <1>1, <1>2, <1>3 DEF Load
<1>5. /\ c \in CallState /\ Framed(c) /\ Passed(c) /\ Remembers(c) /\ Fields
      /\ c.due \subseteq added
      /\ c.key \in Keys /\ c.i \in 0 .. f.k - 1 /\ f.k \in Nat /\ c.answer = "none"
      /\ Inside(c) /\ Inserts(c)
  BY <1>1, <1>4, CallFacts DEF CallState, Framed, Fields, Inside, Inserts
<1>6. /\ d.pc = "store" /\ d.op = c.op /\ d.key = c.key /\ d.i = c.i
      /\ d.present = c.present /\ d.reg = Word(p \div WordBits)
      /\ d.answer = c.answer /\ d.due = c.due /\ d.before = c.before
  BY <1>3, <1>5 DEF CallState
<1>7. d \in CallState
  <2>1. Word(p \div WordBits) \in SUBSET Nat
    BY <1>5 DEF Word, Fields
  <2> QED
    BY <1>3, <1>5, <2>1, Zenon DEF CallState
<1>8. p \in 0 .. f.m - 1
  BY <1>2, <1>5, LocInArray
<1>9. /\ bits' \in [length : 0 .. f.m, ones : SUBSET Nat] /\ bits'.ones = bits.ones
      /\ bits.length <= bits'.length /\ p < bits'.length
  BY <1>4, <1>5, <1>8 DEF Fitted, Fields
<1>10. Framed(d) /\ Passed(d)
  BY <1>4, <1>5, <1>6 DEF Framed, Passed, Inside, Inserts
<1>11. Fresh(d)'
  <2>1. Loc(d.key, d.i)' = p
    BY <1>2, <1>4, <1>6, LocFixed
  <2> QED
    BY <1>6, <1>9, <2>1 DEF Fresh, Word
<1>12. Remembers(d)
  BY <1>2, <1>4, <1>5, <1>6 DEF Remembers
<1>13. Excluded'
  BY <1>1, <1>4, <1>5, <1>6, ExcludedKept
<1> QED
  BY <1>4, <1>5, <1>6, <1>7, <1>9, <1>10, <1>11, <1>12, <1>13, CallFacts, LocalStep

LEMMA LoopEndsInv ==
  ASSUME IInv, NEW g \in Goroutines, LoopEnds(g)
  PROVE  /\ IInv'
         /\ /\ call[g].op = "testadd" /\ call'[g].answer = "absent"
            => call[g].key \notin added
<1>1. PICK c : c = call[g]
  OBVIOUS
<1>2. PICK a : a = IF c.op = "add" THEN "none" ELSE Answered(c.present)
  OBVIOUS
<1>3. PICK d : d = [c EXCEPT !.pc = "return", !.answer = a]
  OBVIOUS
<1>4. /\ c.pc = "loop" /\ c.i = f.k
      /\ call' = [call EXCEPT ![g] = d] /\ UNCHANGED <<f, bits, lock, added>>
      /\ c \in CallState /\ Framed(c) /\ Passed(c) /\ Remembers(c) /\ Fields
      /\ c.due \subseteq added /\ Inside(c) /\ f.k \in Nat \ {0} /\ c.key \in Keys
  BY <1>1, <1>2, <1>3, CallFacts DEF LoopEnds, Framed, Fields, Inside
<1>5. /\ d.pc = "return" /\ d.op = c.op /\ d.key = c.key /\ d.i = c.i
      /\ d.present = c.present /\ d.answer = a
      /\ d.due = c.due /\ d.before = c.before
  BY <1>3, <1>4 DEF CallState
<1>6. a \in {"none", "absent", "present"}
  BY <1>2 DEF Answered
<1>7. d \in CallState
  BY <1>3, <1>4, <1>6, Zenon DEF CallState
<1>8. Framed(d) /\ Fresh(d)' /\ Passed(d)
  BY <1>4, <1>5 DEF Framed, Fresh, Passed, Inside, Inserts
<1>9. c.op = "testadd" => (c.present <=> c.before)
  BY <1>4 DEF Remembers, CallState
<1>10. c.op = "testadd" => a = Answered(c.before)
  BY <1>2, <1>9 DEF Answered
<1>11. Remembers(d)
  BY <1>4, <1>5, <1>10 DEF Remembers, Inside
<1>12. a = "absent" => c.op = "testadd" /\ c.key \notin added
  <2>1. SUFFICES ASSUME a = "absent" PROVE c.op = "testadd" /\ c.key \notin added
    OBVIOUS
  <2>2. c.op \in {"add", "test", "testadd"} /\ ~c.present /\ c.op # "add"
    BY <1>2, <1>4, <2>1 DEF Answered, Framed, CallState
  <2>3. c.op = "testadd"
    BY <1>4, <2>2 DEF Framed
  <2> QED
    BY <1>4, <1>9, <2>2, <2>3 DEF Remembers
<1>13. Excluded'
  BY <1>1, <1>4, <1>5, ExcludedKept
<1>14. IInv'
  BY <1>4, <1>5, <1>7, <1>8, <1>11, <1>12, <1>13, CallFacts, QuietStep
<1> QED
  <2>1. call'[g] = d
    BY <1>4, CallFacts
  <2> QED
    BY <1>1, <1>5, <1>12, <1>14, <2>1

-----------------------------------------------------------------------------
(***************************************************************************)
(* A store sets the one bit and clears none: nobody has stored since the   *)
(* word was loaded.                                                        *)
(***************************************************************************)
LEMMA StoreBits ==
  ASSUME IInv, NEW g \in Goroutines, Store(g)
  PROVE  /\ bits'.ones = bits.ones \cup {Loc(call[g].key, call[g].i)}
         /\ bits'.length = bits.length /\ bits' \in [length : 0 .. f.m, ones : SUBSET Nat]
         /\ f' = f /\ Fields'
         /\ \A key \in Keys : AllSet(key) => AllSet(key)'
<1>1. PICK c, p : c = call[g] /\ p = Loc(c.key, c.i)
  OBVIOUS
<1>2. /\ c \in CallState /\ Framed(c) /\ Fresh(c) /\ c.pc = "store" /\ Fields
      /\ f' = f
      /\ bits' = [bits EXCEPT !.ones = (bits.ones \ Word(p \div WordBits)) \cup c.reg \cup {p}]
  BY <1>1, CallFacts DEF Store
<1>3. c.key \in Keys /\ c.i \in Nat /\ c.reg = Word(p \div WordBits) /\ p < bits.length
  BY <1>1, <1>2 DEF Framed, CallState, Fresh
<1>4. p \in 0 .. f.m - 1
  BY <1>1, <1>2, <1>3, LocInArray
<1>5. (bits.ones \ Word(p \div WordBits)) \cup c.reg \cup {p} = bits.ones \cup {p}
  BY <1>3 DEF Word
<1>6. /\ bits'.ones = bits.ones \cup {p} /\ bits'.length = bits.length
      /\ bits' \in [length : 0 .. f.m, ones : SUBSET Nat]
  BY <1>2, <1>4, <1>5 DEF Fields
<1>7. Fields'
  BY <1>2, <1>3, <1>6 DEF Fields
<1>8. ASSUME NEW key \in Keys, AllSet(key)
      PROVE  AllSet(key)'
  <2>1. \A i \in 0 .. f.k - 1 : Loc(key, i) \in bits.ones
    BY <1>2, <1>8, AllSetBits
  <2>2. \A i \in 0 .. f.k - 1 : IsSet(Loc(key, i))'
    BY <1>2, <1>6, <1>7, <2>1, LocFixed DEF IsSet, Fields
  <2> QED
    BY <1>2, <2>2, LocFixed DEF AllSet, Positions, IsSet
<1> QED
  BY <1>1, <1>2, <1>6, <1>7, <1>8

LEMMA StoreInv ==
  ASSUME IInv, NEW g \in Goroutines, Store(g)
  PROVE  IInv'
<1>1. PICK c, p : c = call[g] /\ p = Loc(c.key, c.i)
  OBVIOUS
<1>2. PICK d : d = [c EXCEPT !.pc = "loop", !.i = c.i + 1, !.reg = {}]
  OBVIOUS
<1>3. /\ c.pc = "store" /\ call' = [call EXCEPT ![g] = d] /\ UNCHANGED <<f, lock, added>>
      /\ c \in CallState /\ Framed(c) /\ Passed(c) /\ Remembers(c) /\ Fields
      /\ c.due \subseteq added
      /\ c.key \in Keys /\ c.i \in 0 .. f.k - 1 /\ f.k \in Nat /\ c.answer = "none"
      /\ Inside(c) /\ Inserts(c)
  BY <1>1, <1>2, CallFacts DEF Store, CallState, Framed, Fields, Inside
<1>4. /\ d.pc = "loop" /\ d.op = c.op /\ d.key = c.key /\ d.i = c.i + 1
      /\ d.present = c.present /\ d.answer = c.answer /\ d.due = c.due
      /\ d.before = c.before
  BY <1>2, <1>3 DEF CallState
<1>5. d \in CallState
  <2>1. c.i + 1 \in Nat /\ {} \in SUBSET Nat
    BY <1>3
  <2> QED
    BY <1>2, <1>3, <2>1, Zenon DEF CallState
<1>6. bits'.ones = bits.ones \cup {p} /\ Fields'
  BY <1>1, StoreBits
<1>7. \A key, i : Loc(key, i)' = Loc(key, i)
  BY <1>3, LocFixed
<1>8. /\ call'[g] = d /\ \A h \in Goroutines \ {g} : call'[h] = call[h]
      /\ call' \in [Goroutines -> CallState] /\ lock' \in Locks /\ added' \in SUBSET Keys
  BY <1>3, <1>5, CallFacts DEF Locks
<1>9. Framed(d)' /\ Fresh(d)' /\ Passed(d)'
  <2>1. Framed(d)' /\ Fresh(d)'
    BY <1>3, <1>4 DEF Framed, Fresh, Inserts
  <2>2. \A i \in 0 .. d.i - 1 : Loc(d.key, i) \in bits'.ones
    BY <1>1, <1>3, <1>4, <1>6 DEF Passed
  <2> QED
    BY <1>7, <2>1, <2>2 DEF Passed
<1>10. Remembers(d)'
  <2>1. SUFFICES ASSUME c.op = "testadd"
                 PROVE  /\ c.key \in added => c.before
                        /\ c.before => c.present /\ \A i \in 0 .. f.k - 1 :
                                                      Loc(c.key, i) \in bits'.ones
                        /\ ~c.before /\ c.present =>
                             \E i \in c.i + 1 .. f.k - 1 : Loc(c.key, i) \notin bits'.ones
    BY <1>3, <1>4, <1>7 DEF Remembers
  <2>2. /\ c.key \in added => c.before
        /\ c.before => c.present /\ \A i \in 0 .. f.k - 1 : Loc(c.key, i) \in bits.ones
        /\ ~c.before /\ c.present => \E i \in c.i .. f.k - 1 : Loc(c.key, i) \notin bits.ones
        /\ c.present => p \in bits.ones
    BY <1>1, <1>3, <2>1 DEF Remembers
  <2>3. ASSUME ~c.before, c.present
        PROVE  \E i \in c.i + 1 .. f.k - 1 : Loc(c.key, i) \notin bits'.ones
    <3>1. PICK i \in c.i .. f.k - 1 : Loc(c.key, i) \notin bits.ones
      BY <2>2, <2>3
    <3>2. i # c.i /\ Loc(c.key, i) \notin bits'.ones
      BY <1>1, <1>6, <2>2, <2>3, <3>1
    <3> QED
      BY <1>3, <3>1, <3>2
  <2> QED
    BY <1>6, <2>2, <2>3
<1>11. ASSUME NEW h \in Goroutines
       PROVE  /\ Framed(call[h])' /\ Fresh(call[h])' /\ Passed(call[h])' /\ Remembers(call[h])'
              /\ call'[h].due \subseteq added'
              /\ call'[h].answer = "absent" => call'[h].key \notin call'[h].due
  <2>1. CASE h = g
    <3>1. d = call'[h] /\ d.due \subseteq added' /\ d.answer = "none"
      BY <1>3, <1>4, <1>8, <2>1
    <3>2. Framed(call[h])'
      BY <1>9, <3>1 DEF Framed
    <3>3. Fresh(call[h])'
      BY <1>4, <3>1 DEF Fresh
    <3>4. Passed(call[h])'
      BY <1>9, <3>1 DEF Passed
    <3>5. Remembers(call[h])'
      BY <1>10, <3>1 DEF Remembers
    <3> QED
      BY <3>1, <3>2, <3>3, <3>4, <3>5
  <2>2. CASE h # g
    <3>1. PICK e : e = call[h]
      OBVIOUS
    <3>2. /\ e \in CallState /\ Framed(e) /\ Passed(e) /\ e.due \subseteq added
          /\ (e.answer = "absent" => e.key \notin e.due) /\ e = call'[h]
      BY <1>8, <2>2, <3>1, CallFacts
    <3>3. ~(Inserts(e) /\ Inside(e))
      BY <1>1, <1>3, <2>2, <3>1, Alone
    <3>4. e.pc # "store" /\ ~(e.op = "testadd" /\ Inside(e))
      BY <3>2, <3>3 DEF Framed, Inserts, Inside
    <3>5. Framed(call[h])'
      BY <1>3, <3>2 DEF Framed
    <3>6. Fresh(call[h])'
      BY <3>2, <3>4 DEF Fresh
    <3>7. Passed(call[h])'
      BY <1>6, <1>7, <3>2 DEF Passed
    <3>8. Remembers(call[h])'
      BY <3>2, <3>4 DEF Remembers
    <3>9. /\ call'[h].due \subseteq added'
          /\ call'[h].answer = "absent" => call'[h].key \notin call'[h].due
      BY <1>3, <3>2
    <3> QED
      BY <3>5, <3>6, <3>7, <3>8, <3>9
  <2> QED
    BY <2>1, <2>2
<1>12. Excluded'
  BY <1>1, <1>3, <1>4, ExcludedKept
<1>13. \A key \in added' : AllSet(key)'
  BY <1>3, StoreBits, CallFacts
<1>14. NoFalseNegatives'
  BY <1>11 DEF NoFalseNegatives
<1> QED
  BY <1>6, <1>8, <1>11, <1>12, <1>13, <1>14 DEF IInv, Locks

LEMMA ReturnInv ==
  ASSUME IInv, NEW g \in Goroutines, Return(g)
  PROVE  IInv'
<1>1. PICK c : c = call[g]
  OBVIOUS
<1>2. /\ c.pc = "return" /\ call' = [call EXCEPT ![g] = Idle] /\ UNCHANGED <<f, bits>>
      /\ lock' = [writer |-> lock.writer \ {g}, readers |-> lock.readers \ {g}]
      /\ added' = IF Inserts(c) THEN added \cup {c.key} ELSE added
      /\ c \in CallState /\ Framed(c) /\ Passed(c) /\ Fields /\ Inside(c)
      /\ c.key \in Keys /\ f.k \in Nat
  BY <1>1, CallFacts DEF Return, Framed, Inside, Fields
<1>3. /\ call'[g] = Idle /\ \A h \in Goroutines \ {g} : call'[h] = call[h]
      /\ call' \in [Goroutines -> CallState]
  BY <1>2, CallFacts, IdleFacts
<1>4. /\ added \subseteq added' /\ added' \in SUBSET Keys /\ lock' \in Locks /\ Fields'
  BY <1>2, CallFacts DEF Locks, Fields
<1>5. Inserts(c) => AllSet(c.key)
  BY <1>2, AllSetBits DEF Framed, Passed
<1>6. \A key \in added' : AllSet(key)'
  <2>1. \A key \in Keys : AllSet(key)' <=> AllSet(key)
    BY <1>2, LocFixed DEF AllSet, Positions, IsSet
  <2> QED
    BY <1>2, <1>4, <1>5, <2>1, CallFacts
<1>7. \A key, i : Loc(key, i)' = Loc(key, i)
  BY <1>2, LocFixed
<1>8. ASSUME NEW h \in Goroutines
      PROVE  /\ Framed(call[h])' /\ Fresh(call[h])' /\ Passed(call[h])' /\ Remembers(call[h])'
             /\ call'[h].due \subseteq added'
             /\ call'[h].answer = "absent" => call'[h].key \notin call'[h].due
  <2>1. CASE h = g
    <3>1. /\ call'[h] = Idle /\ Idle.pc = "idle" /\ Idle.op = "none" /\ Idle.i = 0
          /\ Idle.present /\ Idle.answer = "none" /\ Idle.due = {}
      BY <1>3, <2>1 DEF Idle
    <3> QED
      BY <1>2, <3>1 DEF Framed, Fresh, Passed, Remembers, Inside
  <2>2. CASE h # g
    <3>1. PICK e : e = call[h]
      OBVIOUS
    <3>2. /\ e \in CallState /\ Framed(e) /\ Fresh(e) /\ Passed(e) /\ Remembers(e)
          /\ e.due \subseteq added
          /\ (e.answer = "absent" => e.key \notin e.due) /\ e = call'[h]
      BY <1>3, <2>2, <3>1, CallFacts
    <3>3. e.op = "testadd" /\ Inside(e) => added' = added
      <4>1. Inserts(c) => ~(Inserts(e) /\ Inside(e))
        BY <1>1, <1>2, <2>2, <3>1, Alone
      <4> QED
        BY <1>2, <4>1 DEF Inserts
    <3>4. Framed(call[h])'
      BY <1>2, <3>2 DEF Framed
    <3>5. Fresh(call[h])'
      BY <1>2, <1>7, <3>2 DEF Fresh, Word
    <3>6. Passed(call[h])'
      BY <1>2, <1>7, <3>2 DEF Passed
    <3>7. Remembers(call[h])'
      BY <1>2, <1>7, <3>2, <3>3 DEF Remembers
    <3>8. /\ call'[h].due \subseteq added'
          /\ call'[h].answer = "absent" => call'[h].key \notin call'[h].due
      BY <1>4, <3>2
    <3> QED
      BY <3>4, <3>5, <3>6, <3>7, <3>8
  <2> QED
    BY <2>1, <2>2
<1>9. Excluded'
  <2>1. ASSUME Locking, NEW h \in Goroutines, Inside(call'[h])
        PROVE  IF Inserts(call'[h]) THEN lock' = [writer |-> {h}, readers |-> {}]
                                    ELSE lock'.writer = {} /\ h \in lock'.readers
    <3>1. h # g /\ call'[h] = call[h]
      BY <1>2, <1>3, <2>1, IdleFacts
    <3>2. IF Inserts(call[h]) THEN lock = [writer |-> {h}, readers |-> {}]
                              ELSE lock.writer = {} /\ h \in lock.readers
      BY <2>1, <3>1, CallFacts DEF Excluded
    <3> QED
      BY <1>2, <3>1, <3>2
  <2>2. (\A h \in Goroutines : Inserts(call[h]) => h \in Writers)'
    BY <1>2, <1>3, CallFacts, IdleFacts DEF Excluded
  <2> QED
    BY <2>1, <2>2 DEF Excluded
<1>10. NoFalseNegatives'
  BY <1>8 DEF NoFalseNegatives
<1> QED
  BY <1>3, <1>4, <1>6, <1>8, <1>9, <1>10 DEF IInv, Locks

LEMMA NextInv == IInv /\ [Next]_vars => IInv'
<1>1. SUFFICES ASSUME IInv, [Next]_vars PROVE IInv'
  OBVIOUS
<1>2. CASE UNCHANGED vars
  BY <1>1, <1>2, LocFixed DEF vars, IInv, Fields, Locks, Excluded, Framed, Fresh, Passed,
    Remembers, Word, AllSet, Positions, IsSet, NoFalseNegatives
<1>3. ASSUME NEW g \in Goroutines, NEW op \in {"add", "test", "testadd"}, NEW key \in Keys,
             Call(g, op, key)
      PROVE  IInv'
  BY <1>1, <1>3, CallInv
<1>4. ASSUME NEW g \in Goroutines,
             \/ Acquire(g) \/ TestBit(g) \/ LookFirst(g) \/ Load(g) \/ Store(g)
             \/ LoopEnds(g) \/ Return(g)
      PROVE  IInv'
  BY <1>1, <1>4, AcquireInv, TestBitInv, LookFirstInv, LoadInv, StoreInv, LoopEndsInv, ReturnInv
<1> QED
  BY <1>1, <1>2, <1>3, <1>4 DEF Next

-----------------------------------------------------------------------------
(***************************************************************************)
(* THEOREM: the inductive invariant holds in every reachable state.        *)
(***************************************************************************)
THEOREM Invariance == Spec => []IInv
BY InitInv, NextInv, PTL DEF Spec

(***************************************************************************)
(* THEOREM: every variable keeps its type.  In particular no bit lies      *)
(* beyond the m of the filter, also when the set has grown from no bits.   *)
(***************************************************************************)
THEOREM TypeCorrect == Spec => []TypeOK
<1>1. IInv => TypeOK
  <2>1. SUFFICES ASSUME IInv PROVE TypeOK
    OBVIOUS
  <2>2. Fields /\ lock \in Locks /\ added \in SUBSET Keys
    BY <2>1 DEF IInv
  <2>3. bits.ones \subseteq 0 .. bits.length - 1
    BY <2>2 DEF Fields
  <2>4. \A g \in Goroutines : call[g] \in CallState /\ Framed(call[g])
    BY <2>1 DEF IInv
  <2>5. ASSUME NEW g \in Goroutines
        PROVE  call[g].i \in 0 .. f.k
    <3>1. call[g].i \in Nat /\ call[g].i <= f.k
      BY <2>4 DEF CallState, Framed
    <3> QED
      BY <2>2, <3>1 DEF Fields
  <2> QED
    BY <2>2, <2>3, <2>4, <2>5 DEF TypeOK, Fields, Locks, CallState
<1> QED
  BY <1>1, Invariance, PTL

(***************************************************************************)
(* THEOREM: a key whose insertion returned, by Add or by TestAndAdd, is    *)
(* not answered "absent" by a later call.                                  *)
(***************************************************************************)
THEOREM NeverFalseNegative == Spec => []NoFalseNegatives
<1>1. IInv => NoFalseNegatives
  BY DEF IInv
<1> QED
  BY <1>1, Invariance, PTL

(***************************************************************************)
(* THEOREM: TestAndAdd answers what Test would have answered before it,    *)
(* under the lock and with a single inserting goroutine alike.             *)
(***************************************************************************)
THEOREM PreviousMembership == Spec => []TestAndAddAnswersBefore
<1>1. IInv => TestAndAddAnswersBefore
  BY CallFacts DEF TestAndAddAnswersBefore, Remembers, Framed, Inside
<1> QED
  BY <1>1, Invariance, PTL

(***************************************************************************)
(* THEOREM: TestAndAdd never says that a key is new once an insertion of   *)
(* it has returned: calls of it that overlap deduplicate.                  *)
(***************************************************************************)
THEOREM Deduplicates == Spec => OneNewcomer
<1> DEFINE Newcomer == \A g \in Goroutines :
             /\ call[g].op = "testadd" /\ call[g].pc = "loop" /\ call'[g].answer = "absent"
             => call[g].key \notin added
<1>1. IInv /\ [Next]_vars => [Newcomer]_vars
  <2>1. SUFFICES ASSUME IInv, Next, NEW g \in Goroutines, call[g].op = "testadd",
                        call[g].pc = "loop", call'[g].answer = "absent"
                 PROVE  call[g].key \notin added
    OBVIOUS
  <2>2. call[g] \in CallState /\ call[g].answer = "none" /\ call \in [Goroutines -> CallState]
    BY <2>1, CallFacts DEF Framed
  <2>3. PICK h \in Goroutines :
          \/ \E op \in {"add", "test", "testadd"}, key \in Keys : Call(h, op, key)
          \/ Acquire(h) \/ TestBit(h) \/ LookFirst(h) \/ Load(h) \/ Store(h)
          \/ LoopEnds(h) \/ Return(h)
    BY <2>1 DEF Next
  <2>4. h = g
    <3>1. \E d : call' = [call EXCEPT ![h] = d]
      BY <2>3, Zenon DEF Call, Acquire, TestBit, LookFirst, Load, Store, LoopEnds, Return
    <3> QED
      BY <2>1, <2>2, <3>1
  <2>5. LookFirst(g) => call'[g].answer = "none"
    BY <2>2 DEF LookFirst, CallState
  <2>6. LoopEnds(g)
    BY <2>1, <2>3, <2>4, <2>5 DEF Call, Acquire, TestBit, Load, Store, Return
  <2> QED
    BY <2>1, <2>6, LoopEndsInv
<1> QED
  BY <1>1, Invariance, PTL DEF Spec, OneNewcomer

-----------------------------------------------------------------------------
(***************************************************************************)
(* Nothing is forgotten: a step never clears a bit of a key, and never     *)
(* takes a key out of added.                                               *)
(***************************************************************************)
LEMMA StepGrows ==
  ASSUME IInv, IInv', [Next]_vars
  PROVE  added \subseteq added' /\ \A key \in Keys : AllSet(key) => AllSet(key)'
<1>1. ASSUME f' = f, bits'.ones = bits.ones, added \subseteq added'
      PROVE  added \subseteq added' /\ \A key \in Keys : AllSet(key) => AllSet(key)'
  <2>1. Fields /\ Fields'
    BY DEF IInv
  <2>2. ASSUME NEW key \in Keys, AllSet(key)
        PROVE  AllSet(key)'
    <3>1. \A i \in 0 .. f.k - 1 : Loc(key, i) \in bits.ones
      BY <2>1, <2>2, AllSetBits
    <3>2. \A i \in 0 .. f.k - 1 : IsSet(Loc(key, i))'
      BY <1>1, <2>1, <3>1, LocFixed DEF IsSet, Fields
    <3> QED
      BY <1>1, <3>2, LocFixed DEF AllSet, Positions, IsSet
  <2> QED
    BY <1>1, <2>2
<1>2. ASSUME NEW g \in Goroutines, Store(g)
      PROVE  added \subseteq added' /\ \A key \in Keys : AllSet(key) => AllSet(key)'
  BY <1>2, StoreBits DEF Store
<1>3. ASSUME NEW g \in Goroutines, Load(g)
      PROVE  added \subseteq added' /\ \A key \in Keys : AllSet(key) => AllSet(key)'
  <2>1. bits'.ones = bits.ones
    BY <1>3, CallFacts DEF Load, Fitted, Fields
  <2> QED
    BY <1>1, <1>3, <2>1 DEF Load
<1>4. CASE \E g \in Goroutines, op \in {"add", "test", "testadd"}, key \in Keys : Call(g, op, key)
  BY <1>1, <1>4 DEF Call
<1>5. CASE \E g \in Goroutines : Acquire(g) \/ TestBit(g) \/ LookFirst(g) \/ LoopEnds(g)
  BY <1>1, <1>5 DEF Acquire, TestBit, LookFirst, LoopEnds
<1>6. CASE \E g \in Goroutines : Return(g)
  BY <1>1, <1>6 DEF Return
<1>7. CASE UNCHANGED vars
  BY <1>1, <1>7 DEF vars
<1> QED
  BY <1>2, <1>3, <1>4, <1>5, <1>6, <1>7 DEF Next

(***************************************************************************)
(* THEOREM: a shared classic filter is a BloomSet.  It reports no key at   *)
(* first, since every key has a position; a step only adds members and     *)
(* reported keys; and every member is reported.                            *)
(***************************************************************************)
THEOREM ImplementsBloomSet == Spec => Refines
<1> DEFINE Reported == {key \in Keys : AllSet(key)}
<1>1. Init => Abstract!Init
  <2>1. SUFFICES ASSUME Init PROVE added = {} /\ Reported = {}
    BY DEF Abstract!Init
  <2>2. Fields /\ bits.ones = {}
    <3>1. IInv
      BY <2>1, InitInv
    <3>2. bits.ones = {}
      BY <2>1 DEF Init
    <3> QED
      BY <3>1, <3>2 DEF IInv
  <2>3. 0 \in 0 .. f.k - 1
    BY <2>2 DEF Fields
  <2>4. \A key \in Keys : ~AllSet(key)
    BY <2>2, <2>3, AllSetBits
  <2> QED
    BY <2>1, <2>4 DEF Init
<1>2. IInv /\ IInv' /\ [Next]_vars => [Abstract!Grow]_<<added, Reported>>
  <2>1. SUFFICES ASSUME IInv, IInv', [Next]_vars PROVE Abstract!Grow
    OBVIOUS
  <2>2. added \subseteq added' /\ \A key \in Keys : AllSet(key) => AllSet(key)'
    BY <2>1, StepGrows
  <2>3. added' \in SUBSET Keys /\ \A key \in added' : AllSet(key)'
    BY <2>1 DEF IInv
  <2> QED
    BY <2>2, <2>3 DEF Abstract!Grow
<1> QED
  BY <1>1, <1>2, Invariance, PTL DEF Spec, Refines, Abstract!Spec
=============================================================================
