-------------------------- MODULE SimdFilterProofs --------------------------
(***************************************************************************)
(* Proofs about a SimdFilter shared by any number of goroutines, with and  *)
(* without AVX2, for any keys, hashes, batches, lanes, multipliers and     *)
(* window size.                                                            *)
(***************************************************************************)
EXTENDS SimdFilter, SequenceTheorems, TLAPS

-----------------------------------------------------------------------------
(***************************************************************************)
(* The inductive invariant.  A call stands on the key that its loop        *)
(* variables say, and the window it probes holds the keys located there.   *)
(***************************************************************************)
Located == [base : Nat, key32 : Nat]

\* What a pending or has loaded: some lanes, or nothing.
Registers == {<<>>} \cup UNION {[S -> SUBSET (0 .. LaneBits - 1)] : S \in SUBSET Lanes}

CallState ==
  [pc : {"idle", "lock", "window", "apply", "store"}, op : {"none", "add", "test"},
   data : Seq(Keys), start : Nat, probe : Seq(Located), j : Nat,
   lane : 0 .. SimdLanes, reg : Registers,
   out : Seq({"none", "absent", "present"}), due : SUBSET Keys]

Working(c) == c.pc \in {"apply", "store"}
KeyOf(c)   == c.data[Place(c)]

WindowSize(c) ==
  IF BatchWindow > Len(c.data) - c.start THEN Len(c.data) - c.start ELSE BatchWindow

Framed(c) ==
  /\ c.pc # "idle" => c.op # "none"
  /\ c.pc = "lock" => c.start = 0
  /\ Len(c.out) = Len(c.data)
  /\ (c.op = "test" /\ Inside(c)) \/ \A n \in 1 .. Len(c.out) : c.out[n] = "none"
  /\ Working(c) =>
       /\ c.j < WindowSize(c)
       /\ c.probe = [n \in 1 .. WindowSize(c) |-> HashParts(c.data[c.start + n])]
  /\ c.pc = "store" => c.op = "add" /\ c.lane < SimdLanes
  /\ Working(c) /\ hasAVX2 => c.lane \in {0, SimdLanes}

\* What a pending or has loaded is still what the lanes hold.
Fresh(c) ==
  c.pc = "store" => c.reg = [l \in Touched(c) |-> backing[Probe(c).base + l]]

(***************************************************************************)
(* The lanes of the key under way that were passed hold its bit, and so do *)
(* all the lanes of the keys an insertion has dealt with.                  *)
(***************************************************************************)
LaneBit(key, l) == MaskBit(HashParts(key).key32, l)
LaneSet(key, l) == LaneBit(key, l) \in backing[HashParts(key).base + l]

Done(c) == IF Working(c) THEN c.start + c.j ELSE c.start

Progress(c) ==
  /\ Working(c) => \A l \in Lanes : l < c.lane => LaneSet(KeyOf(c), l)
  /\ c.op = "add" /\ Inside(c) =>
       \A n \in 1 .. Len(c.data) : n <= Done(c) => AllSet(c.data[n])

\* The answers given so far are right.
Truthful(c) ==
  \A n \in DOMAIN c.out :
    /\ c.out[n] = "absent" => c.data[n] \notin c.due
    /\ c.out[n] = "present" => AllSet(c.data[n])
    /\ Locking /\ c.out[n] = "absent" => ~AllSet(c.data[n])

\* Who may be inside a call together.
Excluded ==
  /\ \A g \in Goroutines : call[g].op = "add" => g \in Writers
  /\ Locking => \A g \in Goroutines : Inside(call[g]) =>
       IF call[g].op = "add" THEN lock = [writer |-> {g}, readers |-> {}]
                             ELSE lock.writer = {} /\ g \in lock.readers

Locks   == [writer : SUBSET Writers, readers : SUBSET Goroutines]
Arrays  == [Indices -> SUBSET (0 .. LaneBits - 1)]

\* The keys of insertions under way, which may account for bits too.
Pending   == {g \in Goroutines : call[g].op = "add" /\ Inside(call[g])}
KeysOf(c) == {c.data[n] : n \in 1 .. Len(c.data)}
Accounted == added \cup UNION {KeysOf(call[g]) : g \in Pending}

NoStrayBit ==
  \A w \in Indices : \A b \in backing[w] : \E key \in Accounted : <<w, b>> \in KeyBits[key]

IInv ==
  /\ hasAVX2 \in BOOLEAN /\ backing \in Arrays /\ call \in [Goroutines -> CallState]
  /\ lock \in Locks /\ added \in SUBSET Keys
  /\ Excluded
  /\ \A g \in Goroutines :
       /\ Framed(call[g]) /\ Fresh(call[g]) /\ Progress(call[g]) /\ Truthful(call[g])
       /\ call[g].due \subseteq added
  /\ \A key \in added : AllSet(key)
  /\ NoStrayBit

-----------------------------------------------------------------------------
(***************************************************************************)
(* The bits of a key.                                                      *)
(***************************************************************************)
LEMMA DivBelow ==
  ASSUME NEW x \in Nat, NEW m \in Nat \ {0}, NEW n \in Nat, x < m * n
  PROVE  x \div m \in Nat /\ x \div m < n
OBVIOUS

LEMMA PositiveFactor ==
  ASSUME NEW a \in Nat \ {0}, NEW p \in Int, a * p > 0
  PROVE  p \in Nat \ {0}
OBVIOUS

\* Lanes of different blocks do not overlap, and all lie in the array.
LEMMA LaneInArray ==
  ASSUME NEW b \in 0 .. NumBlocks - 1, NEW l \in Lanes
  PROVE  b * SimdLanes \in Nat /\ b * SimdLanes + l \in Indices
<1>1. NumBlocks \in Nat \ {0} /\ SimdLanes \in Nat \ {0}
  BY SimdAssumption
<1>2. b \in Nat /\ b <= NumBlocks - 1 /\ l \in Nat /\ l <= SimdLanes - 1
  BY <1>1 DEF Lanes
<1>3. b * SimdLanes <= (NumBlocks - 1) * SimdLanes /\ b * SimdLanes \in Nat
  BY <1>1, <1>2
<1>4. (NumBlocks - 1) * SimdLanes = NumBlocks * SimdLanes - SimdLanes
  BY <1>1
<1> QED
  BY <1>1, <1>2, <1>3, <1>4 DEF Indices

LEMMA MaskBitRange ==
  ASSUME NEW key32 \in Nat, NEW l \in Lanes
  PROVE  MaskBit(key32, l) \in 0 .. LaneBits - 1
<1>1. U32 \in Nat \ {0} /\ LaneBits \in Nat \ {0} /\ IdxShift \in Nat
      /\ U32 = LaneBits * 2^IdxShift
  BY SimdAssumption
<1>2. 2^IdxShift \in Int
  BY <1>1
<1>3. PICK p \in Int : p = 2^IdxShift
  BY <1>2
<1>4. p \in Nat \ {0}
  BY <1>1, <1>3, PositiveFactor
<1>5. key32 * Salt[l] \in Nat
  <2>1. Salt[l] \in Nat
    BY <1>1, SimdAssumption
  <2> QED
    BY <2>1
<1>6. PICK x \in Nat : x = (key32 * Salt[l]) % U32 /\ x < U32
  BY <1>1, <1>5
<1>7. x < p * LaneBits
  BY <1>1, <1>3, <1>4, <1>6
<1>8. x \div p \in Nat /\ x \div p < LaneBits
  BY <1>1, <1>4, <1>7, DivBelow
<1> QED
  BY <1>1, <1>3, <1>6, <1>8 DEF MaskBit

\* MAKE_MASK makes the mask that simdMaskScalar makes.
LEMMA MasksAgree ==
  ASSUME NEW key32 \in Nat, NEW l \in Lanes
  PROVE  MakeMask(key32)[l] = {MaskBit(key32, l)}
<1>1. MakeMask(key32)[l] = ShiftedOne(MaskBit(key32, l))
  BY DEF MakeMask, MaskBit
<1> QED
  BY <1>1, MaskBitRange DEF ShiftedOne

LEMMA KeyFacts ==
  ASSUME NEW key \in Keys
  PROVE  /\ HashParts(key) \in Located
         /\ \A l \in Lanes : /\ HashParts(key).base + l \in Indices
                             /\ LaneBit(key, l) \in 0 .. LaneBits - 1
         /\ KeyBits[key] = {<<HashParts(key).base + l, LaneBit(key, l)>> : l \in Lanes}
         /\ AllSet(key) <=> \A l \in Lanes : LaneSet(key, l)
<1>1. Hash[key] \in [hi : Nat, lo : Nat] /\ NumBlocks \in Nat \ {0} /\ U32 \in Nat \ {0}
  BY SimdAssumption
<1>2. PICK b : b = Hash[key].hi % NumBlocks
  OBVIOUS
<1>3. b \in 0 .. NumBlocks - 1 /\ Hash[key].lo % U32 \in Nat
  BY <1>1, <1>2
<1>4. HashParts(key) = [base |-> b * SimdLanes, key32 |-> Hash[key].lo % U32]
  BY <1>2 DEF HashParts
<1>5. HashParts(key) \in Located
  <2>1. 0 \in Lanes
    BY SimdAssumption DEF Lanes
  <2> QED
    BY <1>3, <1>4, <2>1, LaneInArray DEF Located
<1>6. \A l \in Lanes : HashParts(key).base + l \in Indices
  BY <1>3, <1>4, LaneInArray
<1>7. \A l \in Lanes : LaneBit(key, l) \in 0 .. LaneBits - 1
  BY <1>5, MaskBitRange DEF LaneBit, Located
<1>8. KeyBits[key] = {<<HashParts(key).base + l, LaneBit(key, l)>> : l \in Lanes}
  BY DEF KeyBits, LaneBit
<1>9. AllSet(key) <=> \A l \in Lanes : LaneSet(key, l)
  <2>1. ASSUME AllSet(key), NEW l \in Lanes
        PROVE  LaneSet(key, l)
    <3>1. <<HashParts(key).base + l, LaneBit(key, l)>> \in KeyBits[key]
      BY <1>8
    <3> QED
      BY <2>1, <3>1 DEF AllSet, LaneSet
  <2>2. ASSUME \A l \in Lanes : LaneSet(key, l), NEW p \in KeyBits[key]
        PROVE  p[2] \in backing[p[1]]
    <3>1. PICK l \in Lanes : p = <<HashParts(key).base + l, LaneBit(key, l)>>
      BY <1>8
    <3>2. p[1] = HashParts(key).base + l /\ p[2] = LaneBit(key, l)
      BY <3>1
    <3> QED
      BY <2>2, <3>2 DEF LaneSet
  <2> QED
    BY <2>1, <2>2 DEF AllSet
<1> QED
  BY <1>5, <1>6, <1>7, <1>8, <1>9

-----------------------------------------------------------------------------
(***************************************************************************)
(* The updates of a call's local state.                                    *)
(***************************************************************************)
LEMMA IndexFacts ==
  ASSUME NEW c \in CallState, Framed(c), Working(c)
  PROVE  /\ Place(c) \in 1 .. Len(c.data) /\ KeyOf(c) \in Keys
         /\ WindowSize(c) \in Nat /\ c.start + WindowSize(c) <= Len(c.data)
         /\ Probe(c) = HashParts(KeyOf(c))
         /\ \A l \in Lanes : MaskAt(c, l) = {LaneBit(KeyOf(c), l)}
         /\ Touched(c) \subseteq 0 .. SimdLanes
         /\ c.lane < SimdLanes => Touched(c) \subseteq Lanes
<1>1. /\ c.start \in Nat /\ c.j \in Nat /\ c.j < WindowSize(c) /\ c.data \in Seq(Keys)
      /\ c.probe = [n \in 1 .. WindowSize(c) |-> HashParts(c.data[c.start + n])]
      /\ c.lane \in 0 .. SimdLanes
  BY DEF CallState, Framed
<1>2. Len(c.data) \in Nat /\ BatchWindow \in Nat /\ SimdLanes \in Nat \ {0}
  BY <1>1, SimdAssumption
<1>3. WindowSize(c) \in Int /\ c.start + WindowSize(c) <= Len(c.data)
  BY <1>1, <1>2 DEF WindowSize
<1>4. Place(c) \in 1 .. Len(c.data) /\ c.j + 1 \in 1 .. WindowSize(c)
      /\ Place(c) = c.start + (c.j + 1)
  <2>1. \A b, n, w, last \in Int : b >= 0 /\ n >= 0 /\ n < w /\ b + w <= last
          => /\ b + n + 1 \in 1 .. last /\ n + 1 \in 1 .. w
             /\ b + n + 1 = b + (n + 1)
    OBVIOUS
  <2>2. /\ c.start + c.j + 1 \in 1 .. Len(c.data) /\ c.j + 1 \in 1 .. WindowSize(c)
        /\ c.start + c.j + 1 = c.start + (c.j + 1)
    BY <1>1, <1>2, <1>3, <2>1
  <2> QED
    BY <2>2 DEF Place
<1>5. Probe(c) = HashParts(KeyOf(c))
  BY <1>1, <1>4 DEF Probe, KeyOf
<1>6. /\ Touched(c) \subseteq 0 .. SimdLanes
      /\ c.lane < SimdLanes => Touched(c) \subseteq Lanes
  BY <1>1, <1>2 DEF Touched, Lanes
<1>7. \A l \in Lanes : MaskAt(c, l) = {LaneBit(KeyOf(c), l)}
  <2>1. KeyOf(c) \in Keys
    BY <1>1, <1>4 DEF KeyOf
  <2>2. Probe(c).key32 \in Nat /\ Probe(c).key32 = HashParts(KeyOf(c)).key32
    BY <1>5, <2>1, KeyFacts DEF Located
  <2> QED
    BY <2>2, MasksAgree DEF MaskAt, LaneBit
<1> QED
  BY <1>1, <1>3, <1>4, <1>5, <1>6, <1>7 DEF KeyOf

LEMMA ApplyType ==
  ASSUME NEW c \in CallState, NEW j \in Nat
  PROVE  [c EXCEPT !.pc = "apply", !.j = j, !.lane = 0] \in CallState
<1>1. 0 \in 0 .. SimdLanes
  BY SimdAssumption
<1> QED
  BY <1>1, Zenon DEF CallState

LEMMA WindowType ==
  ASSUME NEW c \in CallState, NEW n \in Nat
  PROVE  [c EXCEPT !.pc = "window", !.start = n] \in CallState
BY Zenon DEF CallState

(***************************************************************************)
(* Going on to the next key keeps the frame.                               *)
(***************************************************************************)
LEMMA NextKeyFacts ==
  ASSUME NEW c \in CallState, Framed(c), c.pc = "apply"
  PROVE  LET d == NextKey(c) IN
         /\ d \in CallState /\ Framed(d)
         /\ d.pc \in {"window", "apply"}
         /\ d.op = c.op /\ d.data = c.data /\ d.out = c.out /\ d.due = c.due
         /\ d.pc = "apply" => d.lane = 0
         /\ \A n \in 1 .. Len(c.data) : n <= Done(d) => n <= Done(c) \/ n = Place(c)
<1> DEFINE d == NextKey(c)
<1>1. Working(c)
  BY DEF Working
<1>2. /\ Place(c) \in 1 .. Len(c.data) /\ KeyOf(c) \in Keys /\ WindowSize(c) \in Nat
      /\ c.start + WindowSize(c) <= Len(c.data) /\ BatchWindow \in Nat \ {0}
  BY <1>1, IndexFacts, SimdAssumption
<1>3. /\ c.start \in Nat /\ c.j \in Nat /\ c.j < WindowSize(c)
      /\ c.data \in Seq(Keys) /\ Len(c.data) \in Nat
      /\ c.op # "none" /\ Len(c.out) = Len(c.data)
      /\ c.probe = [n \in 1 .. WindowSize(c) |-> HashParts(c.data[c.start + n])]
      /\ c.op = "test" \/ \A n \in 1 .. Len(c.out) : c.out[n] = "none"
  BY <1>1 DEF CallState, Framed
<1>4. Len(c.probe) = WindowSize(c)
  BY <1>2, <1>3
<1>5. CASE c.j + 1 < WindowSize(c)
  <2>1. d = [c EXCEPT !.pc = "apply", !.j = c.j + 1, !.lane = 0]
    BY <1>4, <1>5 DEF NextKey
  <2>2. /\ d.pc = "apply" /\ d.j = c.j + 1 /\ d.lane = 0 /\ d.start = c.start
        /\ d.data = c.data /\ d.out = c.out /\ d.due = c.due /\ d.probe = c.probe
        /\ d.op = c.op
    BY <2>1 DEF CallState
  <2>3. d \in CallState
    <3>1. c.j + 1 \in Nat
      BY <1>3
    <3> HIDE DEF d
    <3> QED
      BY <2>1, <3>1, ApplyType
  <2>4. Framed(d)
    <3>1. WindowSize(d) = WindowSize(c)
      BY <2>2 DEF WindowSize
    <3> QED
      BY <1>3, <1>5, <2>2, <3>1 DEF Framed, Working, Inside
  <2>5. \A n \in 1 .. Len(c.data) : n <= Done(d) => n <= Done(c) \/ n = Place(c)
    BY <1>1, <1>3, <2>2 DEF Done, Place, Working
  <2> QED
    BY <2>2, <2>3, <2>4, <2>5
<1>6. CASE ~(c.j + 1 < WindowSize(c))
  <2>1. d = [c EXCEPT !.pc = "window", !.start = c.start + BatchWindow]
    BY <1>4, <1>6 DEF NextKey
  <2>2. /\ d.pc = "window" /\ d.start = c.start + BatchWindow
        /\ d.data = c.data /\ d.out = c.out /\ d.due = c.due /\ d.op = c.op
    BY <2>1 DEF CallState
  <2>3. d \in CallState
    <3>1. c.start + BatchWindow \in Nat
      BY <1>2, <1>3
    <3> HIDE DEF d
    <3> QED
      BY <2>1, <3>1, WindowType
  <2>4. Framed(d)
    BY <1>3, <2>2 DEF Framed, Working, Inside
  <2>5. \A n \in 1 .. Len(c.data) : n <= Done(d) => n <= Done(c) \/ n = Place(c)
    <3>1. c.j + 1 = WindowSize(c)
      BY <1>2, <1>3, <1>6
    <3>2. \A n \in 1 .. Len(c.data) : n <= c.start + BatchWindow => n <= c.start + WindowSize(c)
      BY <1>2, <1>3 DEF WindowSize
    <3>3. Done(d) = c.start + BatchWindow /\ Done(c) = c.start + c.j
          /\ Place(c) = c.start + c.j + 1
      BY <1>1, <2>2 DEF Done, Place, Working
    <3> QED
      BY <1>2, <1>3, <3>1, <3>2, <3>3
  <2> QED
    BY <2>2, <2>3, <2>4, <2>5
<1> QED
  BY <1>5, <1>6

(***************************************************************************)
(* Answering for a key: its place of out changes, then on to the next key. *)
(***************************************************************************)
LEMMA AnswerFacts ==
  ASSUME NEW c \in CallState, Framed(c), c.pc = "apply", c.op = "test",
         NEW hit \in {"absent", "present"}
  PROVE  LET d == Answer(c, hit) IN
         /\ d \in CallState /\ Framed(d)
         /\ d.pc \in {"window", "apply"}
         /\ d.op = c.op /\ d.data = c.data /\ d.due = c.due
         /\ d.out = [c.out EXCEPT ![Place(c)] = hit]
         /\ DOMAIN c.out = 1 .. Len(c.data)
         /\ d.pc = "apply" => d.lane = 0
<1> DEFINE e == [c EXCEPT !.out[Place(c)] = hit]
<1>1. Working(c) /\ Place(c) \in 1 .. Len(c.data) /\ Len(c.out) = Len(c.data)
  BY IndexFacts DEF Working, Framed
<1>2. c.out \in Seq({"none", "absent", "present"})
  BY DEF CallState
<1>3. DOMAIN c.out = 1 .. Len(c.data)
  BY <1>1, <1>2
<1>4. /\ [c.out EXCEPT ![Place(c)] = hit] \in Seq({"none", "absent", "present"})
      /\ Len([c.out EXCEPT ![Place(c)] = hit]) = Len(c.out)
  BY <1>1, <1>2, ExceptSeq
<1>5. e = [c EXCEPT !.out = [c.out EXCEPT ![Place(c)] = hit]]
  BY DEF CallState
<1>6. e \in CallState
  BY <1>4, <1>5, Zenon DEF CallState
<1>7. /\ e.pc = c.pc /\ e.op = c.op /\ e.data = c.data /\ e.due = c.due
      /\ e.start = c.start /\ e.probe = c.probe /\ e.j = c.j /\ e.lane = c.lane
      /\ e.out = [c.out EXCEPT ![Place(c)] = hit]
  BY DEF CallState
<1> HIDE DEF e
<1>8. Framed(e)
  BY <1>1, <1>4, <1>7 DEF Framed, Working, WindowSize, Inside
<1>9. Answer(c, hit) = NextKey(e)
  BY DEF Answer, e
<1> QED
  BY <1>3, <1>6, <1>7, <1>8, <1>9, NextKeyFacts

(***************************************************************************)
(* Past the lanes just touched.                                            *)
(***************************************************************************)
LEMMA NextLaneFacts ==
  ASSUME NEW c \in CallState, Framed(c), Working(c), c.lane < SimdLanes, hasAVX2 \in BOOLEAN
  PROVE  LET d == [NextLane(c) EXCEPT !.reg = <<>>]
             e == NextLane(c)
         IN
         /\ d \in CallState /\ e \in CallState /\ Framed(d) /\ Framed(e)
         /\ d.pc = "apply" /\ d.op = c.op /\ d.data = c.data /\ d.due = c.due
         /\ d.out = c.out /\ d.start = c.start /\ d.j = c.j /\ d.lane = e.lane
         /\ e.pc = "apply" /\ e.op = c.op /\ e.data = c.data /\ e.due = c.due
         /\ e.out = c.out /\ e.start = c.start /\ e.j = c.j
         /\ \A l \in Lanes : l < e.lane => l < c.lane \/ l \in Touched(c)
<1> DEFINE n == IF hasAVX2 THEN SimdLanes ELSE c.lane + 1
           e == NextLane(c)
           d == [NextLane(c) EXCEPT !.reg = <<>>]
<1>1. SimdLanes \in Nat \ {0} /\ c.lane \in 0 .. SimdLanes
  BY SimdAssumption DEF CallState
<1>2. n \in 0 .. SimdLanes
  BY <1>1
<1>3. e \in CallState
  BY <1>2, Zenon DEF CallState, NextLane
<1>4. d \in CallState
  <2>1. <<>> \in Registers
    BY DEF Registers
  <2> HIDE DEF e
  <2> QED
    BY <1>3, <2>1, Zenon DEF CallState, e
<1>5. /\ e.pc = "apply" /\ e.op = c.op /\ e.data = c.data /\ e.due = c.due
      /\ e.out = c.out /\ e.start = c.start /\ e.j = c.j /\ e.probe = c.probe /\ e.lane = n
  BY DEF CallState, NextLane
<1>6. /\ d.pc = "apply" /\ d.op = c.op /\ d.data = c.data /\ d.due = c.due
      /\ d.out = c.out /\ d.start = c.start /\ d.j = c.j /\ d.probe = c.probe /\ d.lane = n
  BY DEF CallState, NextLane
<1>7. \A l \in Lanes : l < n => l < c.lane \/ l \in Touched(c)
  BY <1>1 DEF Touched, Lanes
<1>8. hasAVX2 => n = SimdLanes
  OBVIOUS
<1> HIDE DEF d, e, n
<1>9. Framed(d)
  BY <1>6, <1>8 DEF Framed, Working, WindowSize, Inside
<1>10. Framed(e)
  BY <1>5, <1>8 DEF Framed, Working, WindowSize, Inside
<1> QED
  BY <1>3, <1>4, <1>5, <1>6, <1>7, <1>9, <1>10 DEF d, e

-----------------------------------------------------------------------------
LEMMA IdleFacts ==
  /\ Idle \in CallState /\ Framed(Idle) /\ Fresh(Idle) /\ Progress(Idle) /\ Truthful(Idle)
  /\ Idle.due = {} /\ Idle.op = "none" /\ Idle.pc = "idle" /\ ~Inside(Idle)
<1>1. 0 \in 0 .. SimdLanes
  BY SimdAssumption
<1>2. /\ <<>> \in Seq(Keys) /\ <<>> \in Seq(Located) /\ <<>> \in Registers
      /\ <<>> \in Seq({"none", "absent", "present"})
  BY DEF Registers
<1>3. Idle \in CallState
  BY <1>1, <1>2 DEF Idle, CallState
<1>4. Framed(Idle) /\ Fresh(Idle) /\ Progress(Idle) /\ Truthful(Idle)
  BY DEF Idle, Framed, Fresh, Progress, Truthful, Working, Inside
<1> QED
  BY <1>3, <1>4 DEF Idle, Inside

LEMMA InitInv == Init => IInv
<1>1. SUFFICES ASSUME Init PROVE IInv
  OBVIOUS
<1>2. /\ hasAVX2 \in BOOLEAN /\ backing = [w \in Indices |-> {}] /\ added = {}
      /\ call = [g \in Goroutines |-> Idle] /\ lock = [writer |-> {}, readers |-> {}]
  BY <1>1 DEF Init
<1>3. backing \in Arrays /\ call \in [Goroutines -> CallState] /\ lock \in Locks
  BY <1>2, IdleFacts DEF Arrays, Locks
<1>4. \A g \in Goroutines : call[g] = Idle
  BY <1>2
<1>5. Excluded
  BY <1>4, IdleFacts DEF Excluded
<1>6. NoStrayBit
  BY <1>2 DEF NoStrayBit
<1> QED
  BY <1>2, <1>3, <1>4, <1>5, <1>6, IdleFacts DEF IInv

\* What the invariant says of one goroutine's call.
LEMMA CallFacts ==
  ASSUME IInv, NEW g \in Goroutines
  PROVE  /\ call[g] \in CallState
         /\ Framed(call[g]) /\ Fresh(call[g]) /\ Progress(call[g]) /\ Truthful(call[g])
         /\ call[g].due \subseteq added
         /\ hasAVX2 \in BOOLEAN /\ backing \in Arrays /\ Excluded
         /\ lock \in Locks /\ added \in SUBSET Keys
         /\ call \in [Goroutines -> CallState]
         /\ \A key \in added : AllSet(key)
BY DEF IInv

(***************************************************************************)
(* A step that changes one call and leaves the array alone.                *)
(***************************************************************************)
LEMMA LocalStep ==
  ASSUME IInv, NEW g \in Goroutines, NEW d \in CallState,
         call' = [call EXCEPT ![g] = d], hasAVX2' = hasAVX2, backing' = backing,
         added \subseteq added', added' \in SUBSET Keys, \A key \in added' : AllSet(key),
         lock' \in Locks, Excluded',
         Framed(d), Fresh(d), Progress(d), Truthful(d), d.due \subseteq added',
         g \in Pending => \/ KeysOf(call[g]) \subseteq added'
                          \/ d.op = "add" /\ Inside(d) /\ d.data = call[g].data
  PROVE  IInv'
<1>1. /\ call \in [Goroutines -> CallState]
      /\ call'[g] = d /\ \A h \in Goroutines \ {g} : call'[h] = call[h]
  BY DEF IInv
<1>2. ASSUME NEW h \in Goroutines
      PROVE  /\ Framed(call[h])' /\ Fresh(call[h])' /\ Progress(call[h])' /\ Truthful(call[h])'
             /\ call'[h].due \subseteq added'
  <2>1. PICK e : e = call'[h]
    OBVIOUS
  <2>2. Framed(e) /\ Fresh(e) /\ Progress(e) /\ Truthful(e) /\ e.due \subseteq added'
    <3>1. CASE h = g
      BY <1>1, <2>1, <3>1
    <3>2. CASE h # g
      BY <1>1, <2>1, <3>2, CallFacts
    <3> QED
      BY <3>1, <3>2
  <2>3. Framed(call[h])'
    BY <2>1, <2>2 DEF Framed
  <2>4. Fresh(call[h])'
    BY <2>1, <2>2 DEF Fresh, Touched
  <2>5. Progress(call[h])'
    BY <2>1, <2>2 DEF Progress, LaneSet, AllSet
  <2>6. Truthful(call[h])'
    BY <2>1, <2>2 DEF Truthful, AllSet
  <2> QED
    BY <2>1, <2>2, <2>3, <2>4, <2>5, <2>6
<1>3. \A key \in added' : AllSet(key)'
  BY DEF AllSet
<1>4. NoStrayBit'
  <2>1. Accounted \subseteq Accounted'
    <3>1. \A h \in Pending : \/ KeysOf(call[h]) \subseteq added'
                             \/ h \in Pending' /\ KeysOf(call'[h]) = KeysOf(call[h])
      BY <1>1 DEF Pending, KeysOf
    <3> QED
      BY <3>1 DEF Accounted
  <2>2. NoStrayBit
    BY DEF IInv
  <2> QED
    BY <2>1, <2>2 DEF NoStrayBit
<1>5. hasAVX2' \in BOOLEAN /\ backing' \in Arrays /\ call' \in [Goroutines -> CallState]
  BY <1>1 DEF IInv, Arrays
<1> QED
  BY <1>2, <1>3, <1>4, <1>5 DEF IInv, Arrays, Locks

LEMMA CallInv ==
  ASSUME IInv, NEW g \in Goroutines, NEW op \in {"add", "test"},
         NEW data \in Batches, Call(g, op, data)
  PROVE  IInv'
<1>1. PICK d : d = [Idle EXCEPT !.pc = "lock", !.op = op, !.data = data, !.due = added,
                                !.out = [n \in 1 .. Len(data) |-> "none"]]
  OBVIOUS
<1>2. /\ call' = [call EXCEPT ![g] = d] /\ UNCHANGED <<hasAVX2, backing, lock, added>>
      /\ call[g].pc = "idle" /\ (op = "add" => g \in Writers)
  BY <1>1 DEF Call
<1>3. /\ d.pc = "lock" /\ d.op = op /\ d.data = data /\ d.due = added /\ d.start = 0
      /\ d.out = [n \in 1 .. Len(data) |-> "none"]
  BY <1>1 DEF Idle
<1>4. data \in Seq(Keys) /\ Len(data) \in Nat
  BY SimdAssumption
<1>5. d.out \in Seq({"none", "absent", "present"}) /\ Len(d.out) = Len(data)
  BY <1>3, <1>4
<1>6. d \in CallState
  <2>1. added \in SUBSET Keys
    BY CallFacts
  <2>2. d = [Idle EXCEPT !.pc = "lock", !.op = op, !.data = data, !.due = added, !.out = d.out]
    BY <1>1, <1>3
  <2> QED
    BY <1>4, <1>5, <2>1, <2>2, IdleFacts, Zenon DEF CallState
<1>7. Framed(d) /\ Fresh(d) /\ Progress(d) /\ Truthful(d)
  BY <1>3, <1>5 DEF Framed, Fresh, Progress, Truthful, Working, Inside
<1>8. Excluded'
  BY <1>2, <1>3, CallFacts DEF Excluded, Inside
<1>9. g \notin Pending
  BY <1>2 DEF Pending, Inside
<1> QED
  BY <1>2, <1>3, <1>6, <1>7, <1>8, <1>9, CallFacts, LocalStep

LEMMA AcquireInv ==
  ASSUME IInv, NEW g \in Goroutines, Acquire(g)
  PROVE  IInv'
<1>1. PICK c : c = call[g]
  OBVIOUS
<1>2. PICK d : d = [c EXCEPT !.pc = "window"]
  OBVIOUS
<1>3. /\ call' = [call EXCEPT ![g] = d] /\ UNCHANGED <<hasAVX2, backing, added>>
      /\ c.pc = "lock" /\ c \in CallState /\ Framed(c) /\ Truthful(c) /\ c.due \subseteq added
  BY <1>1, <1>2, CallFacts DEF Acquire
<1>4. /\ d.pc = "window" /\ d.op = c.op /\ d.data = c.data /\ d.start = 0
      /\ d.out = c.out /\ d.due = c.due /\ d.op # "none"
      /\ Len(d.out) = Len(d.data) /\ \A n \in 1 .. Len(d.out) : d.out[n] = "none"
  BY <1>2, <1>3 DEF CallState, Framed, Inside
<1>5. d \in CallState
  BY <1>2, <1>3, Zenon DEF CallState
<1>6. Framed(d) /\ Fresh(d) /\ Truthful(d)
  BY <1>3, <1>4 DEF Framed, Fresh, Truthful, Working, Inside
<1>7. Progress(d)
  BY <1>4 DEF Progress, Working, Done
<1>8. lock' \in Locks
  <2>1. c.op = "add" => g \in Writers
    BY <1>1, CallFacts DEF Excluded
  <2> QED
    BY <1>1, <2>1, CallFacts DEF Acquire, Locks
<1>9. Excluded'
  <2>1. (\A h \in Goroutines : call[h].op = "add" => h \in Writers)'
    BY <1>1, <1>3, <1>4, CallFacts DEF Excluded
  <2>2. ASSUME Locking, NEW h \in Goroutines, Inside(call'[h])
        PROVE  IF call'[h].op = "add" THEN lock' = [writer |-> {h}, readers |-> {}]
                                      ELSE lock'.writer = {} /\ h \in lock'.readers
    <3>1. /\ lock.writer = {}
          /\ c.op = "add" => lock.readers = {}
          /\ lock' = IF c.op = "add" THEN [lock EXCEPT !.writer = {g}]
                                     ELSE [lock EXCEPT !.readers = @ \cup {g}]
      BY <1>1, <2>2 DEF Acquire, CanLock
    <3>2. lock \in [writer : SUBSET Writers, readers : SUBSET Goroutines]
      BY CallFacts DEF Locks
    <3>3. CASE h = g
      <4>1. call'[h].op = c.op
        BY <1>3, <1>4, <3>3, CallFacts
      <4> QED
        BY <3>1, <3>2, <3>3, <4>1
    <3>4. CASE h # g
      <4>1. call'[h] = call[h]
        BY <1>3, <3>4, CallFacts
      <4>2. call[h].op # "add" /\ h \in lock.readers
        BY <2>2, <3>1, <4>1, CallFacts DEF Excluded
      <4> QED
        BY <3>1, <3>2, <4>1, <4>2
    <3> QED
      BY <3>3, <3>4
  <2> QED
    BY <2>1, <2>2 DEF Excluded
<1>10. g \notin Pending
  BY <1>1, <1>3 DEF Pending, Inside
<1> QED
  BY <1>3, <1>4, <1>5, <1>6, <1>7, <1>8, <1>9, <1>10, CallFacts, LocalStep

\* A goroutine that stays inside its call keeps the lock it holds.
LEMMA ExcludedKept ==
  ASSUME IInv, NEW g \in Goroutines, NEW d, call' = [call EXCEPT ![g] = d],
         lock' = lock, d.op = call[g].op, Inside(call[g])
  PROVE  Excluded'
BY CallFacts DEF Excluded, Inside

LEMMA WindowInv ==
  ASSUME IInv, NEW g \in Goroutines, Window(g)
  PROVE  IInv'
<1>1. PICK c : c = call[g]
  OBVIOUS
<1>2. /\ c \in CallState /\ c.pc = "window" /\ Len(c.data) - c.start > 0
      /\ Framed(c) /\ Progress(c) /\ Truthful(c) /\ c.due \subseteq added
      /\ UNCHANGED <<hasAVX2, backing, lock, added>>
  BY <1>1, CallFacts DEF Window
<1>3. PICK probe : probe = [n \in 1 .. WindowSize(c) |-> HashParts(c.data[c.start + n])]
  OBVIOUS
<1>4. PICK d : d = [c EXCEPT !.pc = "apply", !.j = 0, !.lane = 0, !.probe = probe]
  OBVIOUS
<1>5. call' = [call EXCEPT ![g] = d]
  BY <1>1, <1>3, <1>4 DEF Window, WindowSize
<1>6. /\ c.start \in Nat /\ c.data \in Seq(Keys) /\ Len(c.data) \in Nat
      /\ BatchWindow \in Nat \ {0}
  BY <1>2, SimdAssumption DEF CallState
<1>7. WindowSize(c) \in Nat \ {0} /\ c.start + WindowSize(c) <= Len(c.data)
  BY <1>2, <1>6 DEF WindowSize
<1>8. \A n \in 1 .. WindowSize(c) : HashParts(c.data[c.start + n]) \in Located
  <2>1. \A n \in 1 .. WindowSize(c) : c.data[c.start + n] \in Keys
    BY <1>6, <1>7
  <2> QED
    BY <2>1, KeyFacts
<1>9. probe \in Seq(Located)
  BY <1>3, <1>7, <1>8
<1>10. d \in CallState
  <2>1. 0 \in 0 .. SimdLanes /\ 0 \in Nat
    BY SimdAssumption
  <2> QED
    BY <1>2, <1>4, <1>9, <2>1, Zenon DEF CallState
<1>11. /\ d.pc = "apply" /\ d.probe = probe /\ d.j = 0 /\ d.lane = 0 /\ d.start = c.start
       /\ d.op = c.op /\ d.data = c.data /\ d.out = c.out /\ d.due = c.due
  BY <1>2, <1>4 DEF CallState
<1>12. Framed(d)
  <2>1. WindowSize(d) = WindowSize(c)
    BY <1>11 DEF WindowSize
  <2> QED
    BY <1>2, <1>3, <1>7, <1>11, <2>1 DEF Framed, Working, Inside
<1>13. Fresh(d) /\ Truthful(d)
  BY <1>2, <1>11 DEF Fresh, Truthful
<1>14. Progress(d)
  <2>1. \A l \in Lanes : ~(l < 0)
    BY SimdAssumption DEF Lanes
  <2> QED
    BY <1>2, <1>6, <1>11, <2>1 DEF Progress, Working, Inside, Done
<1>15. Excluded'
  BY <1>1, <1>2, <1>5, <1>11, ExcludedKept DEF Inside
<1>16. g \in Pending => d.op = "add" /\ Inside(d) /\ d.data = call[g].data
  BY <1>1, <1>11 DEF Pending, Inside
<1> QED
  BY <1>2, <1>5, <1>10, <1>11, <1>12, <1>13, <1>14, <1>15, <1>16, CallFacts, LocalStep

LEMMA LoadInv ==
  ASSUME IInv, NEW g \in Goroutines, Load(g)
  PROVE  IInv'
<1>1. PICK c : c = call[g]
  OBVIOUS
<1>2. /\ c \in CallState /\ c.pc = "apply" /\ c.op = "add" /\ c.lane < SimdLanes
      /\ Framed(c) /\ Progress(c) /\ Truthful(c) /\ c.due \subseteq added /\ Working(c)
      /\ UNCHANGED <<hasAVX2, backing, lock, added>>
  BY <1>1, CallFacts DEF Load, Working
<1>3. PICK r : r = [l \in Touched(c) |-> backing[Probe(c).base + l]]
  OBVIOUS
<1>4. PICK d : d = [c EXCEPT !.pc = "store", !.reg = r]
  OBVIOUS
<1>5. call' = [call EXCEPT ![g] = d]
  BY <1>1, <1>3, <1>4 DEF Load
<1>6. r \in Registers
  <2>1. Touched(c) \subseteq Lanes /\ Probe(c) = HashParts(KeyOf(c)) /\ KeyOf(c) \in Keys
    BY <1>2, IndexFacts
  <2>2. \A l \in Touched(c) : backing[Probe(c).base + l] \in SUBSET (0 .. LaneBits - 1)
    <3>1. \A l \in Touched(c) : Probe(c).base + l \in Indices
      BY <2>1, KeyFacts
    <3> QED
      BY <3>1, CallFacts DEF Arrays
  <2>3. r \in [Touched(c) -> SUBSET (0 .. LaneBits - 1)]
    BY <1>3, <2>2
  <2> QED
    BY <2>1, <2>3 DEF Registers
<1>7. d \in CallState
  BY <1>2, <1>4, <1>6, Zenon DEF CallState
<1>8. /\ d.pc = "store" /\ d.reg = r /\ d.op = c.op /\ d.data = c.data /\ d.out = c.out
      /\ d.due = c.due /\ d.lane = c.lane /\ d.start = c.start /\ d.probe = c.probe
      /\ d.j = c.j
  BY <1>2, <1>4 DEF CallState
<1>9. Framed(d)
  BY <1>2, <1>8 DEF Framed, Working, Inside, WindowSize
<1>10. Fresh(d) /\ Truthful(d)
  BY <1>2, <1>3, <1>8 DEF Fresh, Truthful, Touched, Probe
<1>11. Progress(d)
  BY <1>2, <1>8 DEF Progress, Working, Inside, Done, KeyOf, Place
<1>12. Excluded'
  BY <1>1, <1>2, <1>5, <1>8, ExcludedKept DEF Inside
<1>13. g \in Pending => d.op = "add" /\ Inside(d) /\ d.data = call[g].data
  BY <1>1, <1>8 DEF Pending, Inside
<1> QED
  BY <1>2, <1>5, <1>7, <1>8, <1>9, <1>10, <1>11, <1>12, <1>13, CallFacts, LocalStep

(***************************************************************************)
(* A test that answers: what it answers is right for the key it is about.  *)
(***************************************************************************)
LEMMA AnswerInv ==
  ASSUME IInv, NEW g \in Goroutines, NEW c, c = call[g], c.pc = "apply", c.op = "test",
         NEW hit \in {"absent", "present"},
         call' = [call EXCEPT ![g] = Answer(c, hit)],
         UNCHANGED <<hasAVX2, backing, lock, added>>,
         hit = "present" => AllSet(KeyOf(c)),
         hit = "absent" => ~AllSet(KeyOf(c))
  PROVE  IInv'
<1>1. PICK d : d = Answer(c, hit)
  OBVIOUS
<1>2. /\ c \in CallState /\ Framed(c) /\ Progress(c) /\ Truthful(c)
      /\ c.due \subseteq added /\ Working(c)
  BY CallFacts DEF Working
<1>3. /\ d \in CallState /\ Framed(d) /\ d.pc \in {"window", "apply"}
      /\ d.op = "test" /\ d.data = c.data /\ d.due = c.due
      /\ d.out = [c.out EXCEPT ![Place(c)] = hit]
      /\ DOMAIN c.out = 1 .. Len(c.data)
      /\ d.pc = "apply" => d.lane = 0
  BY <1>1, <1>2, AnswerFacts
<1>4. Truthful(d)
  <2>1. DOMAIN d.out = DOMAIN c.out
    BY <1>3
  <2>2. SUFFICES ASSUME NEW n \in DOMAIN d.out
                 PROVE  /\ d.out[n] = "absent" => d.data[n] \notin d.due
                        /\ d.out[n] = "present" => AllSet(d.data[n])
                        /\ Locking /\ d.out[n] = "absent" => ~AllSet(d.data[n])
    BY DEF Truthful
  <2>3. CASE n = Place(c)
    <3>1. d.out[n] = hit /\ d.data[n] = KeyOf(c)
      BY <1>3, <2>1, <2>3 DEF KeyOf
    <3>2. hit = "absent" => KeyOf(c) \notin added
      BY CallFacts
    <3> QED
      BY <1>2, <1>3, <3>1, <3>2
  <2>4. CASE n # Place(c)
    BY <1>2, <1>3, <2>1, <2>4 DEF Truthful
  <2> QED
    BY <2>3, <2>4
<1>5. Fresh(d) /\ Progress(d)
  <2>1. \A l \in Lanes : ~(l < 0)
    BY SimdAssumption DEF Lanes
  <2> QED
    BY <1>3, <2>1 DEF Fresh, Progress, Working
<1>6. Excluded'
  BY <1>1, <1>3, ExcludedKept DEF Inside
<1>7. g \notin Pending
  BY DEF Pending
<1> QED
  BY <1>1, <1>2, <1>3, <1>4, <1>5, <1>6, <1>7, CallFacts, LocalStep

LEMMA CheckInv ==
  ASSUME IInv, NEW g \in Goroutines, Check(g)
  PROVE  IInv'
<1>1. PICK c : c = call[g]
  OBVIOUS
<1>2. /\ c \in CallState /\ c.pc = "apply" /\ c.op = "test" /\ c.lane < SimdLanes
      /\ Framed(c) /\ Progress(c) /\ Truthful(c) /\ c.due \subseteq added /\ Working(c)
      /\ UNCHANGED <<hasAVX2, backing, lock, added>> /\ hasAVX2 \in BOOLEAN
  BY <1>1, CallFacts DEF Check, Working
<1>3. /\ KeyOf(c) \in Keys /\ Probe(c) = HashParts(KeyOf(c)) /\ Touched(c) \subseteq Lanes
      /\ \A l \in Lanes : MaskAt(c, l) = {LaneBit(KeyOf(c), l)}
  BY <1>2, IndexFacts
<1>4. \A l \in Touched(c) : MaskAt(c, l) \subseteq backing[Probe(c).base + l] <=> LaneSet(KeyOf(c), l)
  BY <1>3 DEF LaneSet
<1>5. CASE \A l \in Touched(c) : MaskAt(c, l) \subseteq backing[Probe(c).base + l]
  <2>1. PICK d : d = NextLane(c)
    OBVIOUS
  <2>2. call' = [call EXCEPT ![g] = d]
    BY <1>1, <1>5, <2>1 DEF Check
  <2>3. /\ d \in CallState /\ Framed(d) /\ d.pc = "apply" /\ d.op = c.op
        /\ d.data = c.data /\ d.out = c.out /\ d.due = c.due
        /\ d.start = c.start /\ d.j = c.j
        /\ \A l \in Lanes : l < d.lane => l < c.lane \/ l \in Touched(c)
    BY <1>2, <2>1, NextLaneFacts
  <2>4. Progress(d)
    <3>1. KeyOf(d) = KeyOf(c)
      BY <2>3 DEF KeyOf, Place
    <3> QED
      BY <1>2, <1>4, <1>5, <2>3, <3>1 DEF Progress
  <2>5. Fresh(d) /\ Truthful(d)
    BY <1>2, <2>3 DEF Fresh, Truthful
  <2>6. Excluded'
    BY <1>1, <1>2, <2>2, <2>3, ExcludedKept DEF Inside
  <2>7. g \notin Pending
    BY <1>1, <1>2 DEF Pending
  <2> QED
    BY <1>2, <2>2, <2>3, <2>4, <2>5, <2>6, <2>7, CallFacts, LocalStep
<1>6. CASE ~\A l \in Touched(c) : MaskAt(c, l) \subseteq backing[Probe(c).base + l]
  <2>1. call' = [call EXCEPT ![g] = Answer(c, "absent")]
    BY <1>1, <1>6 DEF Check
  <2>2. ~AllSet(KeyOf(c))
    BY <1>3, <1>4, <1>6, KeyFacts
  <2> QED
    BY <1>1, <1>2, <2>1, <2>2, AnswerInv
<1> QED
  BY <1>5, <1>6

LEMMA KeyDoneInv ==
  ASSUME IInv, NEW g \in Goroutines, KeyDone(g)
  PROVE  IInv'
<1>1. PICK c : c = call[g]
  OBVIOUS
<1>2. /\ c \in CallState /\ c.pc = "apply" /\ c.lane = SimdLanes
      /\ Framed(c) /\ Progress(c) /\ Truthful(c) /\ c.due \subseteq added /\ Working(c)
      /\ UNCHANGED <<hasAVX2, backing, lock, added>>
  BY <1>1, CallFacts DEF KeyDone, Working
<1>3. AllSet(KeyOf(c))
  <2>1. KeyOf(c) \in Keys
    BY <1>2, IndexFacts
  <2>2. \A l \in Lanes : l < SimdLanes
    BY SimdAssumption DEF Lanes
  <2> QED
    BY <1>2, <2>1, <2>2, KeyFacts DEF Progress
<1>4. CASE c.op = "test"
  <2>1. call' = [call EXCEPT ![g] = Answer(c, "present")]
    BY <1>1, <1>4 DEF KeyDone
  <2> QED
    BY <1>1, <1>2, <1>3, <1>4, <2>1, AnswerInv
<1>5. CASE c.op # "test"
  <2>1. PICK d : d = NextKey(c)
    OBVIOUS
  <2>2. call' = [call EXCEPT ![g] = d]
    BY <1>1, <1>5, <2>1 DEF KeyDone
  <2>3. /\ d \in CallState /\ Framed(d) /\ d.pc \in {"window", "apply"}
        /\ d.op = c.op /\ d.data = c.data /\ d.out = c.out /\ d.due = c.due
        /\ d.pc = "apply" => d.lane = 0
        /\ \A n \in 1 .. Len(c.data) : n <= Done(d) => n <= Done(c) \/ n = Place(c)
    BY <1>2, <2>1, NextKeyFacts
  <2>4. Progress(d)
    <3>1. c.op = "add"
      BY <1>2, <1>5 DEF CallState, Framed
    <3>2. \A n \in 1 .. Len(d.data) : n <= Done(d) => AllSet(d.data[n])
      BY <1>2, <1>3, <2>3, <3>1 DEF Progress, Inside, KeyOf
    <3>3. \A l \in Lanes : ~(l < 0)
      BY SimdAssumption DEF Lanes
    <3> QED
      BY <2>3, <3>2, <3>3 DEF Progress, Working
  <2>5. Fresh(d) /\ Truthful(d)
    BY <1>2, <2>3 DEF Fresh, Truthful
  <2>6. Excluded'
    BY <1>1, <1>2, <2>2, <2>3, ExcludedKept DEF Inside
  <2>7. g \in Pending => d.op = "add" /\ Inside(d) /\ d.data = call[g].data
    BY <1>1, <2>3 DEF Pending, Inside
  <2> QED
    BY <1>2, <2>2, <2>3, <2>4, <2>5, <2>6, <2>7, CallFacts, LocalStep
<1> QED
  BY <1>4, <1>5

LEMMA ReturnInv ==
  ASSUME IInv, NEW g \in Goroutines, Return(g)
  PROVE  IInv'
<1>1. PICK c, d : c = call[g] /\ d = Idle
  OBVIOUS
<1>2. /\ c \in CallState /\ c.pc = "window" /\ c.start >= Len(c.data)
      /\ Framed(c) /\ Progress(c) /\ UNCHANGED <<hasAVX2, backing>>
  BY <1>1, CallFacts DEF Return
<1>3. /\ call' = [call EXCEPT ![g] = d]
      /\ lock' = [writer |-> lock.writer \ {g}, readers |-> lock.readers \ {g}]
      /\ added' = IF c.op = "add" THEN added \cup KeysOf(c) ELSE added
  BY <1>1, Zenon DEF Return, KeysOf
<1>4. /\ d \in CallState /\ Framed(d) /\ Fresh(d) /\ Progress(d) /\ Truthful(d)
      /\ d.due = {} /\ d.op = "none" /\ d.pc = "idle"
  BY <1>1, IdleFacts
<1>5. c.data \in Seq(Keys) /\ Len(c.data) \in Nat /\ c.start \in Nat
  BY <1>2 DEF CallState
<1>6. added \subseteq added' /\ added' \in SUBSET Keys
  <2>1. added \in SUBSET Keys /\ KeysOf(c) \in SUBSET Keys
    BY <1>5, CallFacts DEF KeysOf
  <2> QED
    BY <1>3, <2>1
<1>7. \A key \in added' : AllSet(key)
  <2>1. c.op = "add" => \A n \in 1 .. Len(c.data) : AllSet(c.data[n])
    <3>1. Done(c) = c.start /\ Inside(c)
      BY <1>2 DEF Done, Working, Inside
    <3>2. \A n \in 1 .. Len(c.data) : n <= c.start
      BY <1>2, <1>5
    <3> QED
      BY <1>2, <3>1, <3>2 DEF Progress
  <2> QED
    BY <1>3, <2>1, CallFacts DEF KeysOf
<1>8. lock' \in Locks
  BY <1>3, CallFacts DEF Locks
<1>9. Excluded'
  <2>1. call'[g] = d /\ \A h \in Goroutines \ {g} : call'[h] = call[h]
    BY <1>3, CallFacts
  <2>2. ASSUME Locking, NEW h \in Goroutines, Inside(call'[h])
        PROVE  IF call'[h].op = "add" THEN lock' = [writer |-> {h}, readers |-> {}]
                                      ELSE lock'.writer = {} /\ h \in lock'.readers
    <3>1. h # g /\ call'[h] = call[h] /\ Inside(call[h])
      BY <1>4, <2>1, <2>2 DEF Inside
    <3>2. IF call[h].op = "add" THEN lock = [writer |-> {h}, readers |-> {}]
                                ELSE lock.writer = {} /\ h \in lock.readers
      BY <2>2, <3>1, CallFacts DEF Excluded
    <3> QED
      BY <1>3, <3>1, <3>2
  <2>3. (\A h \in Goroutines : call[h].op = "add" => h \in Writers)'
    BY <1>4, <2>1, CallFacts DEF Excluded
  <2> QED
    BY <2>2, <2>3 DEF Excluded
<1>10. g \in Pending => KeysOf(call[g]) \subseteq added'
  BY <1>1, <1>3 DEF Pending
<1>11. d.due \subseteq added'
  BY <1>4
<1> QED
  BY <1>2, <1>3, <1>4, <1>6, <1>7, <1>8, <1>9, <1>10, <1>11, LocalStep, Zenon

(***************************************************************************)
(* Nobody else is inserting, and under the lock nobody else is reading,    *)
(* while a goroutine is inside an insertion.                               *)
(***************************************************************************)
LEMMA Alone ==
  ASSUME IInv, NEW g \in Pending, NEW h \in Goroutines \ {g}
  PROVE  h \notin Pending /\ (Locking => ~Inside(call[h]))
<1>1. g \in Goroutines /\ call[g].op = "add" /\ Inside(call[g]) /\ Excluded /\ g \in Writers
  BY CallFacts DEF Pending, Excluded
<1>2. CASE Locking
  <2>1. lock = [writer |-> {g}, readers |-> {}]
    BY <1>1, <1>2 DEF Excluded
  <2>2. ~Inside(call[h])
    <3>1. SUFFICES ASSUME Inside(call[h]) PROVE FALSE
      OBVIOUS
    <3>2. IF call[h].op = "add" THEN lock = [writer |-> {h}, readers |-> {}]
                                ELSE lock.writer = {} /\ h \in lock.readers
      BY <1>1, <1>2, <3>1 DEF Excluded
    <3> QED
      BY <2>1, <3>2
  <2> QED
    BY <2>2 DEF Pending
<1>3. CASE ~Locking
  BY <1>1, <1>3, SimdCallerAssumption DEF Excluded, Pending
<1> QED
  BY <1>2, <1>3

-----------------------------------------------------------------------------
(***************************************************************************)
(* A store sets the bits of the key in the lanes it touches, those and no  *)
(* others, and clears none: nobody has stored since the lanes were loaded. *)
(***************************************************************************)
LEMMA StoreBits ==
  ASSUME IInv, NEW g \in Goroutines, Store(g), NEW c, c = call[g]
  PROVE  /\ backing' \in Arrays /\ hasAVX2' = hasAVX2
         /\ \A w \in Indices : backing[w] \subseteq backing'[w]
         /\ \A w \in Indices : \A b \in backing'[w] :
              b \in backing[w] \/ <<w, b>> \in KeyBits[KeyOf(c)]
         /\ \A l \in Touched(c) : LaneSet(KeyOf(c), l)'
         /\ \A key \in Keys, l \in Lanes : LaneSet(key, l) => LaneSet(key, l)'
         /\ \A key \in Keys : AllSet(key) => AllSet(key)'
<1>1. PICK base, key : base = Probe(c).base /\ key = KeyOf(c)
  OBVIOUS
<1>2. /\ c \in CallState /\ Framed(c) /\ Fresh(c) /\ c.pc = "store" /\ Working(c)
      /\ c.lane < SimdLanes /\ backing \in Arrays /\ hasAVX2' = hasAVX2
  BY <1>1, CallFacts DEF Store, Working, Framed
<1>3. /\ key \in Keys /\ base = HashParts(key).base /\ Touched(c) \subseteq Lanes
      /\ \A l \in Lanes : MaskAt(c, l) = {LaneBit(key, l)}
  BY <1>1, <1>2, IndexFacts
<1>4. base \in Nat /\ \A l \in Lanes : base + l \in Indices /\ l \in Int
  <2>1. HashParts(key) \in Located /\ \A l \in Lanes : HashParts(key).base + l \in Indices
    BY <1>3, KeyFacts
  <2>2. \A l \in Lanes : l \in Int
    BY SimdAssumption DEF Lanes
  <2>3. base \in Nat
    BY <1>3, <2>1 DEF Located
  <2> QED
    BY <1>3, <2>1, <2>2, <2>3
<1>5. \A l \in Lanes : LaneBit(key, l) \in 0 .. LaneBits - 1
  BY <1>3, KeyFacts
<1>6. \A w \in Indices : w \in Int
  BY SimdAssumption DEF Indices
<1>7. \A w \in Indices : backing'[w] =
        IF w - base \in Touched(c) THEN c.reg[w - base] \cup MaskAt(c, w - base) ELSE backing[w]
  BY <1>1 DEF Store
<1>8. \A l \in Touched(c) : c.reg[l] = backing[base + l]
  BY <1>1, <1>2 DEF Fresh
<1>9. \A w \in Indices : backing'[w] =
        IF w - base \in Touched(c) THEN backing[w] \cup {LaneBit(key, w - base)} ELSE backing[w]
  <2>1. TAKE w \in Indices
  <2>2. base + (w - base) = w
    BY <1>4, <1>6
  <2>3. CASE w - base \in Touched(c)
    <3>1. c.reg[w - base] = backing[w] /\ MaskAt(c, w - base) = {LaneBit(key, w - base)}
      BY <1>3, <1>8, <2>2, <2>3
    <3> QED
      BY <1>7, <2>3, <3>1
  <2>4. CASE w - base \notin Touched(c)
    BY <1>7, <2>4
  <2> QED
    BY <2>3, <2>4
<1>10. backing' \in Arrays
  <2>1. DOMAIN backing' = Indices /\ backing' = [w \in Indices |-> backing'[w]]
    BY DEF Store
  <2>2. Touched(c) \subseteq Lanes
    BY <1>3
  <2>3. \A w \in Indices : backing'[w] \in SUBSET (0 .. LaneBits - 1)
    <3>1. TAKE w \in Indices
    <3>2. backing[w] \in SUBSET (0 .. LaneBits - 1)
      BY <1>2 DEF Arrays
    <3>3. CASE w - base \in Touched(c)
      <4>1. {LaneBit(key, w - base)} \in SUBSET (0 .. LaneBits - 1)
        BY <1>5, <2>2, <3>3
      <4>2. backing'[w] = backing[w] \cup {LaneBit(key, w - base)}
        BY <1>9, <3>3
      <4> QED
        BY <3>2, <4>1, <4>2
    <3>4. CASE w - base \notin Touched(c)
      BY <1>9, <3>2, <3>4
    <3> QED
      BY <3>3, <3>4
  <2> QED
    BY <2>1, <2>3 DEF Arrays
<1>11. \A w \in Indices : backing[w] \subseteq backing'[w]
  BY <1>9
<1>12. ASSUME NEW w \in Indices, NEW b \in backing'[w], b \notin backing[w]
       PROVE  <<w, b>> \in KeyBits[key]
  <2>1. w - base \in Lanes /\ b = LaneBit(key, w - base)
    BY <1>3, <1>9, <1>12
  <2>2. <<HashParts(key).base + (w - base), LaneBit(key, w - base)>> \in KeyBits[key]
    BY <1>3, <2>1, KeyFacts
  <2>3. HashParts(key).base + (w - base) = w
    BY <1>3, <1>4, <1>6
  <2> QED
    BY <2>1, <2>2, <2>3
<1>13. ASSUME NEW l \in Touched(c)
       PROVE  LaneSet(key, l)'
  <2>1. base + l \in Indices /\ (base + l) - base = l
    BY <1>3, <1>4
  <2>2. LaneBit(key, l) \in backing'[base + l]
    BY <1>9, <2>1
  <2> QED
    BY <1>3, <2>2 DEF LaneSet
<1>14. \A key2 \in Keys, l \in Lanes : LaneSet(key2, l) => LaneSet(key2, l)'
  BY <1>11, KeyFacts DEF LaneSet
<1>15. ASSUME NEW key2 \in Keys, AllSet(key2)
       PROVE  AllSet(key2)'
  <2>1. \A l \in Lanes : LaneSet(key2, l)'
    BY <1>14, <1>15, KeyFacts
  <2>2. KeyBits[key2] = {<<HashParts(key2).base + l, LaneBit(key2, l)>> : l \in Lanes}
    BY KeyFacts
  <2>3. ASSUME NEW p \in KeyBits[key2]
        PROVE  p[2] \in backing'[p[1]]
    <3>1. PICK l \in Lanes : p = <<HashParts(key2).base + l, LaneBit(key2, l)>>
      BY <2>2
    <3>2. p[1] = HashParts(key2).base + l /\ p[2] = LaneBit(key2, l)
      BY <3>1
    <3> QED
      BY <2>1, <3>2 DEF LaneSet
  <2> QED
    BY <2>3 DEF AllSet
<1> QED
  BY <1>1, <1>2, <1>10, <1>11, <1>12, <1>13, <1>14, <1>15

LEMMA StoreInv ==
  ASSUME IInv, NEW g \in Goroutines, Store(g)
  PROVE  IInv'
<1>1. PICK c : c = call[g]
  OBVIOUS
<1>2. /\ c \in CallState /\ c.pc = "store" /\ c.op = "add" /\ c.lane < SimdLanes
      /\ Framed(c) /\ Progress(c) /\ c.due \subseteq added /\ Working(c)
      /\ UNCHANGED <<hasAVX2, lock, added>> /\ hasAVX2 \in BOOLEAN
  BY <1>1, CallFacts DEF Store, Working, Framed
<1>3. g \in Pending
  BY <1>1, <1>2 DEF Pending, Inside
<1>4. PICK d : d = [NextLane(c) EXCEPT !.reg = <<>>]
  OBVIOUS
<1>5. /\ d \in CallState /\ Framed(d) /\ d.pc = "apply" /\ d.op = c.op
      /\ d.data = c.data /\ d.out = c.out /\ d.due = c.due
      /\ d.start = c.start /\ d.j = c.j
      /\ \A l \in Lanes : l < d.lane => l < c.lane \/ l \in Touched(c)
  BY <1>2, <1>4, NextLaneFacts
<1>6. call' = [call EXCEPT ![g] = d]
  BY <1>1, <1>4 DEF Store
<1>7. /\ call'[g] = d /\ \A h \in Goroutines \ {g} : call'[h] = call[h]
      /\ call' \in [Goroutines -> CallState]
  BY <1>5, <1>6, CallFacts
<1>8. /\ backing' \in Arrays
      /\ \A w \in Indices : \A b \in backing'[w] :
           b \in backing[w] \/ <<w, b>> \in KeyBits[KeyOf(c)]
      /\ \A l \in Touched(c) : LaneSet(KeyOf(c), l)'
      /\ \A key \in Keys, l \in Lanes : LaneSet(key, l) => LaneSet(key, l)'
      /\ \A key \in Keys : AllSet(key) => AllSet(key)'
  BY <1>1, StoreBits
<1>9. Place(c) \in 1 .. Len(c.data) /\ KeyOf(c) \in Keys
  BY <1>2, IndexFacts
<1>10. ASSUME NEW h \in Goroutines
       PROVE  /\ Framed(call[h])' /\ Fresh(call[h])' /\ Progress(call[h])' /\ Truthful(call[h])'
              /\ call'[h].due \subseteq added'
  <2>1. PICK e : e = call'[h]
    OBVIOUS
  <2>2. e \in CallState /\ Framed(e) /\ e.pc # "store" /\ e.due \subseteq added
    <3>1. CASE h = g
      BY <1>2, <1>5, <1>7, <2>1, <3>1
    <3>2. CASE h # g
      <4>1. e = call[h] /\ e \in CallState /\ Framed(e) /\ e.due \subseteq added
        BY <1>7, <2>1, <3>2, CallFacts
      <4>2. h \notin Pending
        BY <1>3, <3>2, Alone
      <4> QED
        BY <4>1, <4>2 DEF Pending, Framed, Inside
    <3> QED
      BY <3>1, <3>2
  <2>3. DOMAIN e.out = 1 .. Len(e.data) /\ \A n \in 1 .. Len(e.data) : e.data[n] \in Keys
    BY <2>2 DEF Framed, CallState
  <2>4. Progress(e)'
    <3>1. CASE h = g
      <4>1. e = d /\ KeyOf(d) = KeyOf(c) /\ Done(d) = Done(c)
        BY <1>2, <1>5, <1>7, <2>1, <3>1 DEF KeyOf, Place, Done, Working
      <4>2. \A l \in Lanes : l < d.lane => LaneSet(KeyOf(c), l)'
        BY <1>2, <1>5, <1>8, <1>9 DEF Progress
      <4>3. \A n \in 1 .. Len(c.data) : n <= Done(c) => AllSet(c.data[n])'
        BY <1>2, <1>5, <1>8, <2>3, <4>1 DEF Progress, Inside
      <4> QED
        BY <1>5, <4>1, <4>2, <4>3 DEF Progress
    <3>2. CASE h # g
      <4>1. e = call[h] /\ Progress(e)
        BY <1>7, <2>1, <3>2, CallFacts
      <4>2. ~(e.op = "add" /\ Inside(e))
        BY <1>3, <3>2, <4>1, Alone DEF Pending
      <4>3. Working(e) => KeyOf(e) \in Keys
        BY <2>2, IndexFacts
      <4> QED
        BY <1>8, <4>1, <4>2, <4>3 DEF Progress
    <3> QED
      BY <3>1, <3>2
  <2>5. Truthful(e)'
    <3>1. CASE h = g
      <4>1. \A n \in DOMAIN e.out : e.out[n] = "none"
        BY <1>2, <1>5, <1>7, <2>1, <2>2, <2>3, <3>1 DEF Framed
      <4> QED
        BY <4>1 DEF Truthful
    <3>2. CASE h # g
      <4>1. e = call[h] /\ Truthful(e)
        BY <1>7, <2>1, <3>2, CallFacts
      <4>2. Locking => \A n \in DOMAIN e.out : e.out[n] = "none"
        BY <1>3, <2>2, <2>3, <3>2, <4>1, Alone DEF Framed
      <4> QED
        BY <1>8, <2>3, <4>1, <4>2 DEF Truthful
    <3> QED
      BY <3>1, <3>2
  <2>6. Framed(call[h])'
    BY <1>2, <2>1, <2>2 DEF Framed
  <2>7. Fresh(call[h])'
    BY <2>1, <2>2 DEF Fresh
  <2>8. Progress(call[h])'
    BY <2>1, <2>4 DEF Progress
  <2>9. Truthful(call[h])'
    BY <2>1, <2>5 DEF Truthful
  <2> QED
    BY <1>2, <2>1, <2>2, <2>6, <2>7, <2>8, <2>9
<1>11. Excluded'
  BY <1>1, <1>2, <1>3, <1>5, <1>6, ExcludedKept DEF Pending
<1>12. \A key \in added' : AllSet(key)'
  BY <1>2, <1>8, CallFacts
<1>13. NoStrayBit'
  <2>1. Pending' = Pending /\ \A h \in Goroutines : KeysOf(call'[h]) = KeysOf(call[h])
    BY <1>1, <1>3, <1>5, <1>7 DEF Pending, Inside, KeysOf
  <2>2. Accounted' = Accounted
    BY <1>2, <2>1 DEF Accounted, Pending
  <2>3. KeyOf(c) \in Accounted
    <3>1. KeyOf(c) \in KeysOf(c)
      BY <1>9 DEF KeyOf, KeysOf
    <3> QED
      BY <1>1, <1>3, <3>1 DEF Accounted
  <2>4. NoStrayBit
    BY DEF IInv
  <2>5. SUFFICES ASSUME NEW w \in Indices, NEW b \in backing'[w]
                 PROVE  \E key \in Accounted' : <<w, b>> \in KeyBits[key]
    BY DEF NoStrayBit
  <2> QED
    BY <1>8, <2>2, <2>3, <2>4, <2>5 DEF NoStrayBit
<1> QED
  BY <1>2, <1>7, <1>8, <1>10, <1>11, <1>12, <1>13, CallFacts DEF IInv, Arrays, Locks

LEMMA NextInv == IInv /\ [Next]_vars => IInv'
<1>1. SUFFICES ASSUME IInv, [Next]_vars PROVE IInv'
  OBVIOUS
<1>2. CASE UNCHANGED vars
  <2>1. /\ hasAVX2' = hasAVX2 /\ backing' = backing /\ call' = call /\ lock' = lock
        /\ added' = added
    BY <1>2 DEF vars
  <2>2. ASSUME NEW g \in Goroutines
        PROVE  Framed(call[g])' /\ Fresh(call[g])'
    <3>1. Framed(call[g]) /\ Fresh(call[g])
      BY <1>1, CallFacts
    <3>2. Framed(call[g])'
      BY <2>1, <3>1 DEF Framed
    <3>3. Fresh(call[g])'
      BY <2>1, <3>1 DEF Fresh, Touched
    <3> QED
      BY <3>2, <3>3
  <2>3. \A g \in Goroutines : Progress(call[g])' /\ Truthful(call[g])'
    BY <1>1, <2>1 DEF IInv, Progress, Truthful, LaneSet, AllSet
  <2>4. Excluded' /\ \A key \in added' : AllSet(key)'
    BY <1>1, <2>1 DEF IInv, Excluded, AllSet
  <2>5. NoStrayBit'
    BY <1>1, <2>1 DEF IInv, NoStrayBit, Accounted, Pending
  <2> QED
    BY <1>1, <2>1, <2>2, <2>3, <2>4, <2>5 DEF IInv, Arrays, Locks
<1>3. ASSUME NEW g \in Goroutines, NEW op \in {"add", "test"}, NEW data \in Batches,
             Call(g, op, data)
      PROVE  IInv'
  BY <1>1, <1>3, CallInv
<1>4. ASSUME NEW g \in Goroutines,
             \/ Acquire(g) \/ Window(g) \/ Load(g) \/ Store(g)
             \/ Check(g) \/ KeyDone(g) \/ Return(g)
      PROVE  IInv'
  BY <1>1, <1>4, AcquireInv, WindowInv, LoadInv, StoreInv, CheckInv, KeyDoneInv, ReturnInv
<1> QED
  BY <1>1, <1>2, <1>3, <1>4 DEF Next

-----------------------------------------------------------------------------
(***************************************************************************)
(* THEOREM: the inductive invariant holds in every reachable state.        *)
(***************************************************************************)
THEOREM Invariance == Spec => []IInv
BY InitInv, NextInv, PTL DEF Spec

(***************************************************************************)
(* THEOREM: every variable keeps its type.  In particular no key has a     *)
(* lane outside the array or a bit outside its lane.                       *)
(***************************************************************************)
THEOREM TypeCorrect == Spec => []TypeOK
<1>1. IInv => TypeOK
  <2>1. SUFFICES ASSUME IInv PROVE TypeOK
    OBVIOUS
  <2>2. ASSUME NEW g \in Goroutines
        PROVE  /\ call[g].pc \in {"idle", "lock", "window", "apply", "store"}
               /\ call[g].lane \in 0 .. SimdLanes /\ call[g].start \in Nat
    BY <2>1, CallFacts DEF CallState
  <2> QED
    BY <2>1, <2>2 DEF IInv, TypeOK, Arrays, Locks
<1> QED
  BY <1>1, Invariance, PTL

(***************************************************************************)
(* THEOREM: a key whose insertion returned is never answered "absent" by a *)
(* test made later, on either kind of processor.                           *)
(***************************************************************************)
THEOREM NeverFalseNegative == Spec => []NoFalseNegatives
<1>1. IInv => NoFalseNegatives
  BY DEF IInv, NoFalseNegatives, Truthful
<1> QED
  BY <1>1, Invariance, PTL

(***************************************************************************)
(* THEOREM: with no insertion under way the lanes are those the scalar     *)
(* reference lays out, whether the processor has AVX2 or not.              *)
(***************************************************************************)
THEOREM IdenticalLanes == Spec => []ScalarLayout
<1>1. IInv => ScalarLayout
  <2>1. SUFFICES ASSUME IInv, Quiet, NEW w \in Indices
                 PROVE  backing[w] = {p[2] : p \in {q \in UNION {KeyBits[key] : key \in added} :
                                                      q[1] = w}}
    BY DEF ScalarLayout
  <2>2. Accounted = added
    BY <2>1 DEF Quiet, Accounted, Pending
  <2>3. ASSUME NEW b \in backing[w]
        PROVE  \E p \in UNION {KeyBits[key] : key \in added} : p[1] = w /\ p[2] = b
    <3>1. PICK key \in added : <<w, b>> \in KeyBits[key]
      BY <2>1, <2>2 DEF IInv, NoStrayBit
    <3> QED
      BY <3>1
  <2>4. ASSUME NEW p \in UNION {KeyBits[key] : key \in added}, p[1] = w
        PROVE  p[2] \in backing[w]
    BY <2>1, <2>4 DEF IInv, AllSet
  <2> QED
    BY <2>3, <2>4
<1> QED
  BY <1>1, Invariance, PTL

(***************************************************************************)
(* THEOREM: under the lock, out[i] is the scalar answer for data[i].       *)
(***************************************************************************)
THEOREM BatchEqualsTest == Spec => []BatchAgreesWithTest
<1>1. IInv => BatchAgreesWithTest
  BY DEF IInv, BatchAgreesWithTest, Truthful
<1> QED
  BY <1>1, Invariance, PTL

-----------------------------------------------------------------------------
(***************************************************************************)
(* Only the set of inserted keys matters: under the lock every answer is   *)
(* decided by the bits the scalar reference lays out for them.             *)
(***************************************************************************)
ReferenceBits == UNION {KeyBits[key] : key \in added}

KeysDecide ==
  Locking => \A g \in Goroutines : \A n \in DOMAIN call[g].out :
    call[g].out[n] # "none" =>
      (call[g].out[n] = "present" <=> KeyBits[call[g].data[n]] \subseteq ReferenceBits)

LEMMA QuietBits ==
  ASSUME IInv, Pending = {}, NEW key \in Keys
  PROVE  AllSet(key) <=> KeyBits[key] \subseteq ReferenceBits
<1>1. Accounted = added
  <2>1. UNION {KeysOf(call[g]) : g \in Pending} = {}
    OBVIOUS
  <2> QED
    BY <2>1 DEF Accounted
<1>2. ASSUME NEW p \in KeyBits[key], p[2] \in backing[p[1]] PROVE p \in ReferenceBits
  <2>1. PICK l \in Lanes : p = <<HashParts(key).base + l, LaneBit(key, l)>>
    BY <1>2, KeyFacts
  <2>2. p[1] \in Indices /\ p = <<p[1], p[2]>>
    BY <2>1, KeyFacts
  <2>3. \E other \in added : <<p[1], p[2]>> \in KeyBits[other]
    BY <1>1, <1>2, <2>2 DEF IInv, NoStrayBit
  <2> QED
    BY <2>2, <2>3 DEF ReferenceBits
<1>3. ASSUME NEW p \in ReferenceBits PROVE p[2] \in backing[p[1]]
  <2>1. PICK other \in added : p \in KeyBits[other]
    BY <1>3 DEF ReferenceBits
  <2>2. AllSet(other)
    BY <2>1 DEF IInv
  <2> QED
    BY <2>1, <2>2 DEF AllSet
<1> QED
  BY <1>2, <1>3 DEF AllSet

(***************************************************************************)
(* THEOREM: the answers do not depend on the processor: with the same keys *)
(* inserted, in any order, singly or in batches, a key is reported with    *)
(* AVX2 exactly when it is reported without.                               *)
(***************************************************************************)
THEOREM KeysDecideAnswers == Spec => []KeysDecide
<1>1. IInv => KeysDecide
  <2>1. SUFFICES ASSUME IInv, Locking, NEW g \in Goroutines, NEW n \in DOMAIN call[g].out,
                        call[g].out[n] # "none"
                 PROVE  call[g].out[n] = "present" <=>
                          KeyBits[call[g].data[n]] \subseteq ReferenceBits
    BY DEF KeysDecide
  <2>2. call[g] \in CallState /\ Framed(call[g]) /\ Truthful(call[g])
    BY <2>1, CallFacts
  <2>3. n \in 1 .. Len(call[g].data) /\ n \in 1 .. Len(call[g].out)
    BY <2>1, <2>2 DEF CallState, Framed
  <2>4. call[g].op = "test" /\ Inside(call[g])
    BY <2>1, <2>2, <2>3 DEF Framed
  <2>5. Pending = {}
    <3>1. ASSUME NEW h \in Pending PROVE FALSE
      <4>1. call[h].op = "add"
        BY <3>1 DEF Pending
      <4>2. g \in Goroutines \ {h}
        BY <2>4, <4>1
      <4> QED
        BY <2>1, <2>4, <4>2, Alone
    <3> QED
      BY <3>1
  <2>6. call[g].data[n] \in Keys
    BY <2>2, <2>3 DEF CallState
  <2>7. call[g].out[n] \in {"absent", "present"}
    BY <2>1, <2>2, <2>3 DEF CallState
  <2>8. call[g].out[n] = "present" <=> AllSet(call[g].data[n])
    BY <2>1, <2>2, <2>7 DEF Truthful
  <2> QED
    BY <2>1, <2>5, <2>6, <2>8, QuietBits
<1> QED
  BY <1>1, Invariance, PTL

-----------------------------------------------------------------------------
(***************************************************************************)
(* Nothing is forgotten: a step never clears a bit of a key, and never     *)
(* takes a key out of added.                                               *)
(***************************************************************************)
LEMMA StepGrows ==
  ASSUME IInv, [Next]_vars
  PROVE  added \subseteq added' /\ \A key \in Keys : AllSet(key) => AllSet(key)'
<1>1. CASE backing' = backing /\ added \subseteq added'
  BY <1>1 DEF AllSet
<1>2. CASE \E g \in Goroutines : Store(g)
  <2>1. added' = added
    BY <1>2 DEF Store
  <2> QED
    BY <1>2, <2>1, StoreBits
<1>3. CASE \E g \in Goroutines : Return(g)
  BY <1>1, <1>3 DEF Return
<1>4. CASE \E g \in Goroutines, op \in {"add", "test"}, data \in Batches : Call(g, op, data)
  BY <1>1, <1>4 DEF Call
<1>5. CASE \E g \in Goroutines : Acquire(g) \/ Window(g) \/ Load(g) \/ Check(g) \/ KeyDone(g)
  BY <1>1, <1>5 DEF Acquire, Window, Load, Check, KeyDone
<1>6. CASE UNCHANGED vars
  BY <1>1, <1>6 DEF vars
<1> QED
  BY <1>2, <1>3, <1>4, <1>5, <1>6 DEF Next

(***************************************************************************)
(* THEOREM: a shared SimdFilter is a BloomSet.  It reports no key at       *)
(* first, since a block has a lane; a step only adds members and reported  *)
(* keys; and every member is reported.                                     *)
(***************************************************************************)
THEOREM ImplementsBloomSet == Spec => Refines
<1> DEFINE Reported == {key \in Keys : AllSet(key)}
<1>1. Init => Abstract!Init
  <2>1. SUFFICES ASSUME Init PROVE added = {} /\ Reported = {}
    BY DEF Abstract!Init
  <2>2. ASSUME NEW key \in Keys
        PROVE  ~AllSet(key)
    <3>1. 0 \in Lanes
      BY SimdAssumption DEF Lanes
    <3>2. HashParts(key).base + 0 \in Indices
      BY <3>1, KeyFacts
    <3>3. ~LaneSet(key, 0)
      BY <2>1, <3>2 DEF Init, LaneSet
    <3> QED
      BY <3>1, <3>3, KeyFacts
  <2> QED
    BY <2>1, <2>2 DEF Init
<1>2. IInv /\ IInv' /\ [Next]_vars => [Abstract!Grow]_<<added, Reported>>
  <2>1. SUFFICES ASSUME IInv, IInv', [Next]_vars PROVE Abstract!Grow
    OBVIOUS
  <2>2. added \subseteq added' /\ \A key \in Keys : AllSet(key) => AllSet(key)'
    BY <2>1, StepGrows
  <2>3. added' \in SUBSET Keys /\ \A key \in added' : AllSet(key)'
    BY <2>1 DEF IInv
  <2> QED
    BY <2>2, <2>3 DEF Abstract!Grow
<1> QED
  BY <1>1, <1>2, Invariance, PTL DEF Spec, Refines, Abstract!Spec
=============================================================================
