------------------------ MODULE BlockedFilterProofs ------------------------
(***************************************************************************)
(* Proofs about a BlockedFilter shared by any number of goroutines, for    *)
(* any keys, hashes, batches, window size and shape.                       *)
(***************************************************************************)
EXTENDS BlockedFilter, BlockProbeProofs, SequenceTheorems

-----------------------------------------------------------------------------
(***************************************************************************)
(* The walk and the bits of a key.                                         *)
(***************************************************************************)
LEMMA ShapeFacts ==
  Shape \in FilterShape /\ Shape.k \in Nat \ {0} /\ BatchWindow \in Nat \ {0}
BY FilterAssumption DEF FilterShape

LEMMA KeyFacts ==
  ASSUME NEW key \in Keys
  PROVE  /\ KeyWalk[key][0] = Locate(key)
         /\ \A i \in 0 .. Shape.k - 1 : KeyWalk[key][i + 1] = Advance(KeyWalk[key][i], i)
         /\ \A i \in 0 .. Shape.k :
              /\ KeyWalk[key][i] \in ProbeState
              /\ WordOf(KeyWalk[key][i]) \in WordIndices(Shape)
              /\ BitOf(KeyWalk[key][i]) \in 0 .. WordBits - 1
         /\ KeyBits[key] = {BitAt(key, i) : i \in 0 .. Shape.k - 1}
<1>1. Hash[key] \in HashValue /\ Shape \in FilterShape
  BY FilterAssumption
<1>2. KeyWalk[key] = Walk(Shape, Hash[key])
  BY DEF KeyWalk
<1>3. KeyWalk[key][0] = Locate(key)
  BY <1>1, <1>2, WalkTurns DEF Locate
<1>4. \A i \in 0 .. Shape.k - 1 : KeyWalk[key][i + 1] = Advance(KeyWalk[key][i], i)
  BY <1>1, <1>2, WalkTurns
<1>5. \A i \in 0 .. Shape.k : /\ KeyWalk[key][i] \in ProbeState
                              /\ WordOf(KeyWalk[key][i]) \in WordIndices(Shape)
                              /\ BitOf(KeyWalk[key][i]) \in 0 .. WordBits - 1
  BY <1>1, <1>2, WalkTypes, ProbesInBlock
<1>6. KeyBits[key] = {BitAt(key, i) : i \in 0 .. Shape.k - 1}
  BY <1>2 DEF KeyBits, Positions, BitAt
<1> QED
  BY <1>3, <1>4, <1>5, <1>6

-----------------------------------------------------------------------------
(***************************************************************************)
(* The steps of a call's local state.                                      *)
(***************************************************************************)
LEMMA IndexFacts ==
  ASSUME NEW c \in CallState, Framed(c), Probing(c)
  PROVE  /\ Index(c) \in 1 .. Len(c.data)
         /\ KeyOf(c) \in Keys
         /\ WindowSize(c) \in Nat
         /\ c.i \in 0 .. Shape.k
         /\ c.cur = KeyWalk[KeyOf(c)][c.i]
<1>1. /\ c.base \in Nat /\ c.j \in Nat /\ c.j < WindowSize(c)
      /\ c.data \in Seq(Keys) /\ c.i \in 0 .. Shape.k
      /\ c.cur = KeyWalk[KeyOf(c)][c.i]
  BY DEF CallState, Framed
<1>2. Len(c.data) \in Nat /\ BatchWindow \in Nat
  BY <1>1, ShapeFacts
<1>3. WindowSize(c) \in Int /\ c.base + WindowSize(c) <= Len(c.data)
  BY <1>1, <1>2 DEF WindowSize
<1>4. \A b, n, w, last \in Int : b >= 0 /\ n >= 0 /\ n < w /\ b + w <= last
                                 => b + n + 1 \in 1 .. last
  OBVIOUS
<1>5. Index(c) \in 1 .. Len(c.data)
  <2>1. c.base + c.j + 1 \in 1 .. Len(c.data)
    BY <1>1, <1>2, <1>3, <1>4
  <2> QED
    BY <2>1 DEF Index
<1> QED
  BY <1>1, <1>3, <1>5 DEF KeyOf

(***************************************************************************)
(* The updates of a call's state keep its type.                            *)
(***************************************************************************)
LEMMA KeyType ==
  ASSUME NEW c \in CallState, NEW j \in Nat, NEW s \in ProbeState
  PROVE  [c EXCEPT !.pc = "probe", !.j = j, !.i = 0, !.cur = s] \in CallState
<1>1. 0 \in 0 .. Shape.k
  BY ShapeFacts
<1> QED
  BY <1>1, Zenon DEF CallState

LEMMA WindowType ==
  ASSUME NEW c \in CallState, NEW n \in Nat
  PROVE  [c EXCEPT !.pc = "window", !.base = n] \in CallState
BY Zenon DEF CallState

(***************************************************************************)
(* Going on to the next key keeps the frame.                               *)
(***************************************************************************)
LEMMA NextKeyFacts ==
  ASSUME NEW c \in CallState, Framed(c), c.pc = "probe"
  PROVE  LET d == NextKey(c) IN
         /\ d \in CallState /\ Framed(d)
         /\ d.pc \in {"window", "probe"}
         /\ d.op = c.op /\ d.data = c.data /\ d.out = c.out /\ d.due = c.due
         /\ d.reg = c.reg
         /\ d.pc = "probe" => d.i = 0
         /\ \A n \in 1 .. Len(c.data) : n <= Done(d) => n <= Done(c) \/ n = Index(c)
<1> DEFINE d == NextKey(c)
<1>1. Probing(c)
  BY DEF Probing
<1>2. /\ Index(c) \in 1 .. Len(c.data) /\ KeyOf(c) \in Keys /\ WindowSize(c) \in Nat
      /\ Shape.k \in Nat \ {0} /\ BatchWindow \in Nat \ {0}
  BY <1>1, IndexFacts, ShapeFacts
<1>3. /\ c.base \in Nat /\ c.j \in Nat /\ c.j < WindowSize(c)
      /\ c.data \in Seq(Keys) /\ Len(c.data) \in Nat
      /\ c.op # "none" /\ Len(c.out) = Len(c.data)
      /\ c.probe = [n \in 1 .. WindowSize(c) |-> Locate(c.data[c.base + n])]
      /\ c.probe \in Seq(ProbeState)
      /\ c.op = "test" \/ \A n \in 1 .. Len(c.out) : c.out[n] = "none"
  BY <1>1 DEF CallState, Framed
<1>4. CASE c.j + 1 < WindowSize(c)
  <2>1. d = [c EXCEPT !.pc = "probe", !.j = c.j + 1, !.i = 0, !.cur = c.probe[c.j + 2]]
    BY <1>4 DEF NextKey
  <2>2. c.j + 2 \in 1 .. WindowSize(c)
    BY <1>2, <1>3, <1>4
  <2>3. c.probe[c.j + 2] = Locate(c.data[c.base + (c.j + 2)])
    BY <1>3, <2>2
  <2>4. /\ d.pc = "probe" /\ d.j = c.j + 1 /\ d.i = 0 /\ d.base = c.base
        /\ d.data = c.data /\ d.out = c.out /\ d.due = c.due /\ d.reg = c.reg
        /\ d.probe = c.probe /\ d.cur = c.probe[c.j + 2] /\ d.op = c.op
    BY <2>1 DEF CallState
  <2>5. WindowSize(d) = WindowSize(c)
    BY <2>4 DEF WindowSize
  <2>6. KeyOf(d) = c.data[c.base + (c.j + 2)] /\ KeyOf(d) \in Keys
    <3>1. Index(d) = c.base + (c.j + 2)
      BY <1>3, <2>4 DEF Index
    <3>2. c.base + WindowSize(c) <= Len(c.data)
      BY <1>2, <1>3 DEF WindowSize
    <3>3. c.base + (c.j + 2) \in 1 .. Len(c.data)
      <4> HIDE DEF d
      <4>1. c.j + 2 <= WindowSize(c)
        BY <1>2, <1>3, <1>4
      <4>2. c.base + (c.j + 2) <= Len(c.data)
        BY <1>2, <1>3, <3>2, <4>1
      <4> QED
        BY <1>3, <4>2
    <3> QED
      BY <1>3, <2>4, <3>1, <3>3 DEF KeyOf
  <2>7. d.cur = KeyWalk[KeyOf(d)][0] /\ d.cur \in ProbeState
    BY <1>2, <2>3, <2>4, <2>6, KeyFacts
  <2>8. d \in CallState
    <3>1. c.j + 1 \in Nat /\ c.probe[c.j + 2] \in ProbeState
      BY <1>3, <2>4, <2>7
    <3> HIDE DEF d
    <3> QED
      BY <2>1, <3>1, KeyType
  <2>9. Framed(d)
    BY <1>2, <1>3, <1>4, <2>4, <2>5, <2>7 DEF Framed, Probing, Inside
  <2>10. \A n \in 1 .. Len(c.data) : n <= Done(d) => n <= Done(c) \/ n = Index(c)
    <3>1. Done(d) = c.base + (c.j + 1) /\ Done(c) = c.base + c.j /\ Index(c) = c.base + c.j + 1
      BY <1>1, <2>4 DEF Done, Index, Probing
    <3>2. \A b, m, n \in Int : n <= b + (m + 1) => n <= b + m \/ n = b + m + 1
      OBVIOUS
    <3>3. /\ c.base \in Int /\ c.j \in Int
          /\ \A n \in 1 .. Len(c.data) : n \in Int
      BY <1>3
    <3> HIDE DEF d
    <3> QED
      BY <3>1, <3>2, <3>3
  <2> QED
    BY <2>4, <2>8, <2>9, <2>10
<1>5. CASE ~(c.j + 1 < WindowSize(c))
  <2>1. d = [c EXCEPT !.pc = "window", !.base = c.base + BatchWindow]
    BY <1>5 DEF NextKey
  <2>2. /\ d.pc = "window" /\ d.base = c.base + BatchWindow
        /\ d.data = c.data /\ d.out = c.out /\ d.due = c.due /\ d.reg = c.reg
        /\ d.op = c.op
    BY <2>1 DEF CallState
  <2>3. d \in CallState
    <3>1. c.base + BatchWindow \in Nat
      BY <1>2, <1>3
    <3> HIDE DEF d
    <3> QED
      BY <2>1, <3>1, WindowType
  <2>4. Framed(d)
    BY <1>1, <1>3, <2>2 DEF Framed, Probing, Inside
  <2>5. \A n \in 1 .. Len(c.data) : n <= Done(d) => n <= Done(c) \/ n = Index(c)
    <3>1. c.j + 1 = WindowSize(c)
      BY <1>2, <1>3, <1>5
    <3>2. \A n \in 1 .. Len(c.data) : n <= c.base + BatchWindow => n <= c.base + WindowSize(c)
      BY <1>2, <1>3 DEF WindowSize
    <3>3. Done(d) = c.base + BatchWindow /\ Done(c) = c.base + c.j /\ Index(c) = c.base + c.j + 1
      BY <1>1, <2>2 DEF Done, Index, Probing
    <3>4. \A b, m, n \in Int : n <= b + (m + 1) => n <= b + m \/ n = b + m + 1
      OBVIOUS
    <3>5. /\ c.base \in Int /\ c.j \in Int
          /\ \A n \in 1 .. Len(c.data) : n \in Int
      BY <1>3
    <3> HIDE DEF d
    <3> QED
      BY <3>1, <3>2, <3>3, <3>4, <3>5
  <2> QED
    BY <2>2, <2>3, <2>4, <2>5
<1> QED
  BY <1>4, <1>5

(***************************************************************************)
(* Answering for a key: its place of out changes, then on to the next key. *)
(***************************************************************************)
LEMMA AnswerFacts ==
  ASSUME NEW c \in CallState, Framed(c), c.pc = "probe", c.op = "test",
         NEW hit \in {"absent", "present"}
  PROVE  LET d == Answer(c, hit) IN
         /\ d \in CallState /\ Framed(d)
         /\ d.pc \in {"window", "probe"}
         /\ d.op = c.op /\ d.data = c.data /\ d.due = c.due
         /\ d.out = [c.out EXCEPT ![Index(c)] = hit]
         /\ DOMAIN c.out = 1 .. Len(c.data)
         /\ d.pc = "probe" => d.i = 0
         /\ \A n \in 1 .. Len(c.data) : n <= Done(d) => n <= Done(c) \/ n = Index(c)
<1> DEFINE e == [c EXCEPT !.out[Index(c)] = hit]
<1>1. Probing(c) /\ Index(c) \in 1 .. Len(c.data) /\ Len(c.out) = Len(c.data)
  BY IndexFacts DEF Probing, Framed
<1>2. c.out \in Seq({"none", "absent", "present"})
  BY DEF CallState
<1>3. DOMAIN c.out = 1 .. Len(c.data)
  BY <1>1, <1>2
<1>4. /\ [c.out EXCEPT ![Index(c)] = hit] \in Seq({"none", "absent", "present"})
      /\ Len([c.out EXCEPT ![Index(c)] = hit]) = Len(c.out)
  BY <1>1, <1>2, ExceptSeq
<1>5. e = [c EXCEPT !.out = [c.out EXCEPT ![Index(c)] = hit]]
  BY DEF CallState
<1>6. e \in CallState
  BY <1>4, <1>5, Zenon DEF CallState
<1>7. /\ e.pc = c.pc /\ e.op = c.op /\ e.data = c.data /\ e.due = c.due
      /\ e.base = c.base /\ e.probe = c.probe /\ e.j = c.j /\ e.i = c.i
      /\ e.cur = c.cur /\ e.out = [c.out EXCEPT ![Index(c)] = hit]
  BY DEF CallState
<1> HIDE DEF e
<1>8. Framed(e)
  BY <1>1, <1>4, <1>7 DEF Framed, Probing, WindowSize, KeyOf, Index, Inside
<1>9. Answer(c, hit) = NextKey(e)
  BY DEF Answer, e
<1>10. Done(e) = Done(c) /\ Index(e) = Index(c)
  BY <1>7 DEF Done, Index, Probing
<1> QED
  BY <1>3, <1>6, <1>7, <1>8, <1>9, <1>10, NextKeyFacts

LEMMA NextProbeFacts ==
  ASSUME NEW c \in CallState, Framed(c), Probing(c), c.i < Shape.k
  PROVE  LET d == [NextProbe(c) EXCEPT !.reg = {}] IN
         /\ d \in CallState /\ NextProbe(c) \in CallState
         /\ d.pc = "probe" /\ d.op = c.op /\ d.data = c.data /\ d.due = c.due
         /\ d.out = c.out /\ d.base = c.base /\ d.j = c.j /\ d.i = c.i + 1
         /\ NextProbe(c) = [d EXCEPT !.reg = c.reg]
         /\ Framed(d) /\ Framed(NextProbe(c))
         /\ KeyOf(d) = KeyOf(c) /\ d.i \in 1 .. Shape.k
<1> DEFINE d == [NextProbe(c) EXCEPT !.reg = {}]
           e == NextProbe(c)
<1>1. /\ KeyOf(c) \in Keys /\ c.i \in 0 .. Shape.k /\ Shape.k \in Nat
      /\ c.cur = KeyWalk[KeyOf(c)][c.i]
  BY IndexFacts, ShapeFacts
<1>2. c.i + 1 \in 1 .. Shape.k /\ c.i \in 0 .. Shape.k - 1 /\ c.i + 1 \in 0 .. Shape.k
  BY <1>1
<1>3. /\ Advance(c.cur, c.i) = KeyWalk[KeyOf(c)][c.i + 1]
      /\ Advance(c.cur, c.i) \in ProbeState
  BY <1>1, <1>2, KeyFacts
<1>4. e \in CallState
  BY <1>2, <1>3, Zenon DEF CallState, NextProbe
<1>5. d \in CallState
  <2>1. {} \in SUBSET (0 .. WordBits - 1)
    OBVIOUS
  <2> HIDE DEF e
  <2> QED
    BY <1>4, <2>1, Zenon DEF CallState, e
<1>6. /\ d.pc = "probe" /\ d.op = c.op /\ d.data = c.data /\ d.due = c.due
      /\ d.out = c.out /\ d.base = c.base /\ d.j = c.j /\ d.i = c.i + 1
      /\ d.probe = c.probe /\ d.cur = Advance(c.cur, c.i)
  BY DEF NextProbe, CallState
<1>7. /\ e.pc = "probe" /\ e.op = c.op /\ e.data = c.data /\ e.due = c.due
      /\ e.out = c.out /\ e.base = c.base /\ e.j = c.j /\ e.i = c.i + 1
      /\ e.probe = c.probe /\ e.cur = Advance(c.cur, c.i) /\ e.reg = c.reg
  BY DEF NextProbe, CallState
<1>8. e = [d EXCEPT !.reg = c.reg]
  BY DEF NextProbe, CallState
<1> HIDE DEF d, e
<1>9. Framed(d) /\ KeyOf(d) = KeyOf(c)
  BY <1>3, <1>6 DEF Framed, Probing, WindowSize, KeyOf, Index, Inside
<1>10. Framed(e)
  BY <1>3, <1>7 DEF Framed, Probing, WindowSize, KeyOf, Index, Inside
<1> QED
  BY <1>2, <1>4, <1>5, <1>6, <1>8, <1>9, <1>10 DEF d, e

-----------------------------------------------------------------------------
(***************************************************************************)
(* The inductive invariant: at first, then across each kind of step.       *)
(***************************************************************************)
LEMMA IdleFacts == Idle \in CallState /\ Framed(Idle) /\ Fresh(Idle) /\ Progress(Idle)
<1>1. NoProbe \in ProbeState
  BY WidthAssumption DEF NoProbe, ProbeState
<1>2. 0 \in 0 .. Shape.k
  BY ShapeFacts
<1>3. /\ <<>> \in Seq(Keys) /\ <<>> \in Seq(ProbeState)
      /\ <<>> \in Seq({"none", "absent", "present"})
  OBVIOUS
<1>4. Idle \in CallState
  BY <1>1, <1>2, <1>3 DEF Idle, CallState
<1>5. Framed(Idle) /\ Fresh(Idle) /\ Progress(Idle)
  BY DEF Idle, Framed, Fresh, Progress, Complete, Probing, Inside
<1> QED
  BY <1>4, <1>5

LEMMA InitInv == Init => IInv
<1>1. SUFFICES ASSUME Init PROVE IInv
  OBVIOUS
<1>2. /\ words = ZeroBits(Shape) /\ added = {}
      /\ call = [g \in Goroutines |-> Idle] /\ lock = Free
  BY <1>1 DEF Init
<1>3. TypeOK
  BY <1>2, IdleFacts DEF TypeOK, BitArrays, ZeroBits, Free
<1>4. Excluded
  BY <1>2 DEF Excluded, Idle, Inside
<1>5. \A g \in Goroutines : Framed(call[g]) /\ Fresh(call[g]) /\ Progress(call[g])
  BY <1>2, IdleFacts
<1>6. \A g \in Goroutines : call[g].due \subseteq added
  BY <1>2 DEF Idle
<1>7. ExactBits
  BY <1>2 DEF ExactBits, ZeroBits, BitsOf
<1>8. NoFalseNegatives /\ BatchAgreesWithTest
  BY <1>2 DEF NoFalseNegatives, BatchAgreesWithTest, Idle
<1> QED
  BY <1>3, <1>4, <1>5, <1>6, <1>7, <1>8 DEF IInv

(***************************************************************************)
(* A step that changes one call and leaves the bits alone.                 *)
(***************************************************************************)
Answered(c) ==
  \A n \in DOMAIN c.out :
    /\ c.out[n] = "absent" => c.data[n] \notin c.due
    /\ c.out[n] = "present" => AllSet(c.data[n])
    /\ Locking /\ c.out[n] = "absent" => ~AllSet(c.data[n])

LEMMA AnsweredFact ==
  (\A g \in Goroutines : Answered(call[g])) <=> NoFalseNegatives /\ BatchAgreesWithTest
BY DEF Answered, NoFalseNegatives, BatchAgreesWithTest

LEMMA LocalStep ==
  ASSUME IInv, NEW g \in Goroutines, NEW d \in CallState,
         call' = [call EXCEPT ![g] = d], words' = words,
         added \subseteq added', added' \in SUBSET Keys,
         \A key \in added' : AllSet(key),
         lock' \in [writer : SUBSET Writers, readers : SUBSET Goroutines],
         Excluded', Framed(d), Fresh(d), Progress(d), Answered(d),
         d.due \subseteq added',
         g \in Pending => \/ KeysOf(call[g]) \subseteq added'
                          \/ d.op = "add" /\ Inside(d) /\ d.data = call[g].data
  PROVE  IInv'
<1>1. /\ call \in [Goroutines -> CallState] /\ words \in BitArrays(Shape)
      /\ call'[g] = d /\ \A h \in Goroutines \ {g} : call'[h] = call[h]
  BY DEF IInv, TypeOK
<1>2. TypeOK'
  BY <1>1 DEF TypeOK
<1>3. \A h \in Goroutines : Framed(call[h])' /\ Fresh(call[h])' /\ Progress(call[h])'
  <2>1. TAKE h \in Goroutines
  <2>2. CASE h = g
    BY <1>1, <2>2 DEF Fresh, Progress, AllSet, IsSet
  <2>3. CASE h # g
    BY <1>1, <2>3 DEF IInv, Fresh, Progress, AllSet, IsSet
  <2> QED
    BY <2>2, <2>3
<1>4. \A h \in Goroutines : (call[h].due \subseteq added)'
  BY <1>1 DEF IInv
<1>5. ExactBits'
  <2>1. \A key \in added' : AllSet(key)'
    BY DEF AllSet, IsSet
  <2>2. added \cup UNION {KeysOf(call[h]) : h \in Pending}
          \subseteq added' \cup UNION {KeysOf(call'[h]) : h \in Pending'}
    <3>1. \A h \in Pending : \/ KeysOf(call[h]) \subseteq added'
                             \/ h \in Pending' /\ KeysOf(call'[h]) = KeysOf(call[h])
      BY <1>1 DEF Pending, KeysOf
    <3> QED
      BY <3>1
  <2>3. BitsOf(words)' = BitsOf(words)
    BY DEF BitsOf
  <2>4. BitsOf(words) \subseteq
          BitsOfKeys(added \cup UNION {KeysOf(call[h]) : h \in Pending})
    BY DEF IInv, ExactBits
  <2> QED
    BY <2>1, <2>2, <2>3, <2>4 DEF ExactBits, BitsOfKeys
<1>6. (\A h \in Goroutines : Answered(call[h]))'
  <2>1. \A h \in Goroutines : Answered(call[h])
    BY AnsweredFact DEF IInv
  <2>2. TAKE h \in Goroutines
  <2>3. CASE h = g
    BY <1>1, <2>3 DEF Answered, AllSet, IsSet
  <2>4. CASE h # g
    BY <1>1, <2>1, <2>4 DEF Answered, AllSet, IsSet
  <2> QED
    BY <2>3, <2>4
<1>7. (NoFalseNegatives /\ BatchAgreesWithTest)'
  BY <1>6 DEF Answered, NoFalseNegatives, BatchAgreesWithTest
<1> QED
  BY <1>2, <1>3, <1>4, <1>5, <1>7 DEF IInv

(***************************************************************************)
(* What the invariant says of one goroutine's call.                        *)
(***************************************************************************)
LEMMA CallFacts ==
  ASSUME IInv, NEW g \in Goroutines
  PROVE  /\ call[g] \in CallState
         /\ Framed(call[g]) /\ Fresh(call[g]) /\ Progress(call[g]) /\ Answered(call[g])
         /\ call[g].due \subseteq added
         /\ \A key \in added : AllSet(key)
         /\ lock \in [writer : SUBSET Writers, readers : SUBSET Goroutines]
         /\ added \in SUBSET Keys /\ Excluded
BY AnsweredFact DEF IInv, TypeOK, ExactBits

LEMMA CallInv ==
  ASSUME IInv, NEW g \in Goroutines, NEW op \in {"add", "test"},
         NEW data \in Batches, Call(g, op, data)
  PROVE  IInv'
<1>1. PICK d : d = [Idle EXCEPT !.pc = "lock", !.op = op, !.data = data, !.due = added,
                                !.out = [n \in 1 .. Len(data) |-> "none"]]
  OBVIOUS
<1>2. /\ call' = [call EXCEPT ![g] = d] /\ words' = words /\ lock' = lock
      /\ added' = added /\ call[g].pc = "idle"
      /\ op = "add" => g \in Writers
  BY <1>1 DEF Call
<1>3. /\ d.pc = "lock" /\ d.op = op /\ d.data = data /\ d.due = added /\ d.base = 0
      /\ d.out = [n \in 1 .. Len(data) |-> "none"]
  BY <1>1 DEF Idle
<1>4. data \in Seq(Keys) /\ Len(data) \in Nat
  BY FilterAssumption
<1>5. d.out \in Seq({"none", "absent", "present"}) /\ Len(d.out) = Len(data)
  BY <1>3, <1>4
<1>6. d \in CallState
  <2>1. added \in SUBSET Keys
    BY CallFacts
  <2>2. /\ d = [Idle EXCEPT !.pc = "lock", !.op = op, !.data = data, !.due = added, !.out = d.out]
    BY <1>1, <1>3
  <2> QED
    BY <1>4, <1>5, <2>1, <2>2, IdleFacts, Zenon DEF CallState
<1>7. Framed(d) /\ Fresh(d) /\ Progress(d) /\ Answered(d)
  BY <1>3, <1>5 DEF Framed, Fresh, Progress, Complete, Answered, Probing, Inside
<1>8. Excluded'
  BY <1>2, <1>3, CallFacts DEF Excluded, Inside, IInv, TypeOK
<1>9. g \notin Pending
  BY <1>2 DEF Pending, Inside
<1> QED
  BY <1>2, <1>3, <1>6, <1>7, <1>8, <1>9, CallFacts, LocalStep

LEMMA AcquireInv ==
  ASSUME IInv, NEW g \in Goroutines, Acquire(g)
  PROVE  IInv'
<1>1. PICK d : d = [call[g] EXCEPT !.pc = "window"]
  OBVIOUS
<1>2. /\ call' = [call EXCEPT ![g] = d] /\ words' = words /\ added' = added
      /\ call[g].pc = "lock"
  BY <1>1, CallFacts DEF Acquire, IInv, TypeOK
<1>3. /\ d.pc = "window" /\ d.op = call[g].op /\ d.data = call[g].data
      /\ d.base = 0 /\ d.out = call[g].out /\ d.due = call[g].due /\ d.op # "none"
      /\ Len(d.out) = Len(d.data) /\ \A n \in 1 .. Len(d.out) : d.out[n] = "none"
  <2>1. call[g] \in CallState /\ Framed(call[g])
    BY CallFacts
  <2>2. /\ call[g].base = 0 /\ call[g].op # "none" /\ Len(call[g].out) = Len(call[g].data)
        /\ \A n \in 1 .. Len(call[g].out) : call[g].out[n] = "none"
    BY <1>2, <2>1 DEF Framed, Inside
  <2> QED
    BY <1>1, <2>1, <2>2 DEF CallState
<1>4. d \in CallState
  <2>1. call[g] \in CallState
    BY CallFacts
  <2> QED
    BY <1>1, <2>1, Zenon DEF CallState
<1>5. /\ Framed(d) /\ Fresh(d) /\ Answered(d)
  BY <1>2, <1>3, CallFacts DEF Framed, Fresh, Answered, Probing, Inside
<1>6. Progress(d)
  BY <1>3 DEF Progress, Complete, Probing, Done
<1>7. lock' \in [writer : SUBSET Writers, readers : SUBSET Goroutines]
  <2>1. call[g].op = "add" => g \in Writers
    BY CallFacts DEF Excluded
  <2> QED
    BY <2>1, CallFacts DEF Acquire
<1>8. Excluded'
  <2>1. (\A h \in Goroutines : call[h].op = "add" => h \in Writers)'
    BY <1>2, <1>3, CallFacts DEF Excluded, IInv, TypeOK
  <2>2. ASSUME Locking, NEW h \in Goroutines, Inside(call'[h])
        PROVE  IF call'[h].op = "add" THEN lock' = [writer |-> {h}, readers |-> {}]
                                      ELSE lock'.writer = {} /\ h \in lock'.readers
    <3>1. /\ lock.writer = {}
          /\ call[g].op = "add" => lock.readers = {}
          /\ lock' = IF call[g].op = "add" THEN [lock EXCEPT !.writer = {g}]
                                           ELSE [lock EXCEPT !.readers = @ \cup {g}]
      BY <2>2 DEF Acquire, CanLock
    <3>2. lock \in [writer : SUBSET Writers, readers : SUBSET Goroutines]
      BY CallFacts
    <3>3. CASE h = g
      <4>1. call'[h].op = call[g].op
        BY <1>2, <1>3, <3>3, CallFacts DEF IInv, TypeOK
      <4> QED
        BY <3>1, <3>2, <3>3, <4>1
    <3>4. CASE h # g
      <4>1. call'[h] = call[h]
        BY <1>2, <3>4, CallFacts DEF IInv, TypeOK
      <4>2. call[h].op # "add" /\ h \in lock.readers
        <5>1. Inside(call[h])
          BY <2>2, <4>1 DEF Inside
        <5>2. IF call[h].op = "add" THEN lock = [writer |-> {h}, readers |-> {}]
                                    ELSE lock.writer = {} /\ h \in lock.readers
          BY <2>2, <5>1, CallFacts DEF Excluded
        <5> QED
          BY <3>1, <5>2
      <4> QED
        BY <3>1, <3>2, <4>1, <4>2
    <3> QED
      BY <3>3, <3>4
  <2> QED
    BY <2>1, <2>2 DEF Excluded, Inside
<1>9. g \notin Pending
  BY <1>2 DEF Pending, Inside
<1> QED
  BY <1>2, <1>3, <1>4, <1>5, <1>6, <1>7, <1>8, <1>9, CallFacts, LocalStep

(***************************************************************************)
(* A goroutine that stays inside its call keeps the lock it holds.         *)
(***************************************************************************)
LEMMA ExcludedKept ==
  ASSUME IInv, NEW g \in Goroutines, NEW d, call' = [call EXCEPT ![g] = d],
         lock' = lock, d.op = call[g].op, Inside(call[g])
  PROVE  Excluded'
BY CallFacts DEF Excluded, IInv, TypeOK, Inside

LEMMA WindowInv ==
  ASSUME IInv, NEW g \in Goroutines, Window(g)
  PROVE  IInv'
<1>1. PICK c : c = call[g]
  OBVIOUS
<1>2. /\ c \in CallState /\ c.pc = "window" /\ c.base < Len(c.data)
      /\ Framed(c) /\ Progress(c) /\ Answered(c) /\ c.due \subseteq added
  BY <1>1, CallFacts DEF Window
<1>3. PICK probe : probe = [n \in 1 .. WindowSize(c) |-> Locate(c.data[c.base + n])]
  OBVIOUS
<1>4. PICK d : d = [c EXCEPT !.pc = "probe", !.probe = probe, !.j = 0, !.i = 0,
                             !.cur = probe[1]]
  OBVIOUS
<1>5. /\ call' = [call EXCEPT ![g] = d] /\ words' = words /\ added' = added /\ lock' = lock
  BY <1>1, <1>3, <1>4, Zenon DEF Window
<1>6. /\ c.base \in Nat /\ c.data \in Seq(Keys) /\ Len(c.data) \in Nat
      /\ BatchWindow \in Nat \ {0}
  BY <1>2, ShapeFacts DEF CallState
<1>7. /\ WindowSize(c) \in Nat \ {0} /\ c.base + WindowSize(c) <= Len(c.data)
  BY <1>2, <1>6 DEF WindowSize
<1>8. \A n \in 1 .. WindowSize(c) : c.base + n \in 1 .. Len(c.data) /\ c.data[c.base + n] \in Keys
  BY <1>6, <1>7
<1>9. \A n \in 1 .. WindowSize(c) : Locate(c.data[c.base + n]) \in ProbeState
  <2>1. \A key \in Keys : Locate(key) \in ProbeState
    BY FilterAssumption, WalkStart DEF Locate
  <2> QED
    BY <1>8, <2>1
<1>10. probe \in Seq(ProbeState) /\ probe[1] \in ProbeState
       /\ probe[1] = Locate(c.data[c.base + 1])
  BY <1>3, <1>7, <1>9
<1>11. d \in CallState
  <2>1. 0 \in 0 .. Shape.k /\ 0 \in Nat
    BY ShapeFacts
  <2> QED
    BY <1>2, <1>4, <1>10, <2>1, Zenon DEF CallState
<1>12. /\ d.pc = "probe" /\ d.probe = probe /\ d.j = 0 /\ d.i = 0 /\ d.cur = probe[1]
       /\ d.op = c.op /\ d.data = c.data /\ d.out = c.out /\ d.due = c.due /\ d.base = c.base
  BY <1>2, <1>4 DEF CallState
<1>13. WindowSize(d) = WindowSize(c) /\ KeyOf(d) = c.data[c.base + 1] /\ KeyOf(d) \in Keys
  <2>1. Index(d) = c.base + 1 /\ 1 \in 1 .. WindowSize(c)
    BY <1>6, <1>7, <1>12 DEF Index
  <2> QED
    BY <1>8, <1>12, <2>1 DEF WindowSize, KeyOf
<1>14. d.cur = KeyWalk[KeyOf(d)][d.i]
  BY <1>10, <1>12, <1>13, KeyFacts
<1>15. Framed(d)
  BY <1>2, <1>3, <1>7, <1>12, <1>13, <1>14 DEF Framed, Probing, Inside
<1>16. Fresh(d) /\ Answered(d)
  BY <1>2, <1>12 DEF Fresh, Answered
<1>17. Progress(d)
  BY <1>2, <1>6, <1>12 DEF Progress, Complete, Probing, Inside, Done
<1>18. Excluded'
  BY <1>1, <1>2, <1>5, <1>12, ExcludedKept DEF Inside
<1>19. g \in Pending => d.op = "add" /\ Inside(d) /\ d.data = call[g].data
  BY <1>1, <1>12 DEF Pending, Inside
<1> QED
  BY <1>2, <1>5, <1>11, <1>12, <1>15, <1>16, <1>17, <1>18, <1>19, CallFacts, LocalStep

LEMMA LoadInv ==
  ASSUME IInv, NEW g \in Goroutines, Load(g)
  PROVE  IInv'
<1>1. PICK c : c = call[g]
  OBVIOUS
<1>2. /\ c \in CallState /\ c.pc = "probe" /\ c.op = "add" /\ c.i < Shape.k
      /\ Framed(c) /\ Progress(c) /\ Answered(c) /\ c.due \subseteq added /\ Probing(c)
  BY <1>1, CallFacts DEF Load, Probing
<1>3. PICK d : d = [c EXCEPT !.pc = "store", !.reg = words[WordOf(c.cur)]]
  OBVIOUS
<1>4. /\ call' = [call EXCEPT ![g] = d] /\ words' = words /\ added' = added /\ lock' = lock
  BY <1>1, <1>3, Zenon DEF Load
<1>5. words[WordOf(c.cur)] \in SUBSET (0 .. WordBits - 1)
  <2>1. WordOf(c.cur) \in WordIndices(Shape)
    BY <1>2, IndexFacts, KeyFacts
  <2> QED
    BY <2>1 DEF IInv, TypeOK, BitArrays
<1>6. d \in CallState
  BY <1>2, <1>3, <1>5, Zenon DEF CallState
<1>7. /\ d.pc = "store" /\ d.reg = words[WordOf(c.cur)]
      /\ d.op = c.op /\ d.data = c.data /\ d.out = c.out /\ d.due = c.due /\ d.i = c.i
      /\ d.base = c.base /\ d.probe = c.probe /\ d.j = c.j /\ d.cur = c.cur
  BY <1>2, <1>3 DEF CallState
<1>8. Framed(d)
  BY <1>2, <1>7 DEF Framed, Probing, Inside, WindowSize, KeyOf, Index
<1>9. Fresh(d) /\ Answered(d)
  BY <1>2, <1>7 DEF Fresh, Answered
<1>10. Progress(d)
  BY <1>2, <1>7 DEF Progress, Complete, Probing, Inside, Done, KeyOf, Index
<1>11. Excluded'
  BY <1>1, <1>2, <1>4, <1>7, ExcludedKept DEF Inside
<1>12. g \in Pending => d.op = "add" /\ Inside(d) /\ d.data = call[g].data
  BY <1>1, <1>7 DEF Pending, Inside
<1> QED
  BY <1>2, <1>4, <1>6, <1>7, <1>8, <1>9, <1>10, <1>11, <1>12, CallFacts, LocalStep

(***************************************************************************)
(* A test that answers: what it answers is right for the key it is about.  *)
(***************************************************************************)
LEMMA AnswerInv ==
  ASSUME IInv, NEW g \in Goroutines, NEW c, c = call[g], c.pc = "probe", c.op = "test",
         NEW hit \in {"absent", "present"},
         call' = [call EXCEPT ![g] = Answer(c, hit)], UNCHANGED <<words, lock, added>>,
         hit = "present" => AllSet(KeyOf(c)),
         hit = "absent" => ~AllSet(KeyOf(c))
  PROVE  IInv'
<1>1. PICK d : d = Answer(c, hit)
  OBVIOUS
<1>2. /\ c \in CallState /\ Framed(c) /\ Progress(c) /\ Answered(c)
      /\ c.due \subseteq added /\ Probing(c)
  BY CallFacts DEF Probing
<1>3. /\ d \in CallState /\ Framed(d) /\ d.pc \in {"window", "probe"}
      /\ d.op = "test" /\ d.data = c.data /\ d.due = c.due
      /\ d.out = [c.out EXCEPT ![Index(c)] = hit]
      /\ DOMAIN c.out = 1 .. Len(c.data)
      /\ d.pc = "probe" => d.i = 0
      /\ \A n \in 1 .. Len(c.data) : n <= Done(d) => n <= Done(c) \/ n = Index(c)
  BY <1>1, <1>2, AnswerFacts
<1>4. Answered(d)
  <2>1. DOMAIN d.out = DOMAIN c.out
    BY <1>3
  <2>2. SUFFICES ASSUME NEW n \in DOMAIN d.out
                 PROVE  /\ d.out[n] = "absent" => d.data[n] \notin d.due
                        /\ d.out[n] = "present" => AllSet(d.data[n])
                        /\ Locking /\ d.out[n] = "absent" => ~AllSet(d.data[n])
    BY DEF Answered
  <2>3. CASE n = Index(c)
    <3>1. d.out[n] = hit /\ d.data[n] = KeyOf(c)
      BY <1>3, <2>1, <2>3 DEF KeyOf
    <3>2. hit = "absent" => KeyOf(c) \notin added
      BY CallFacts
    <3> QED
      BY <1>2, <1>3, <3>1, <3>2
  <2>4. CASE n # Index(c)
    BY <1>2, <1>3, <2>1, <2>4 DEF Answered
  <2> QED
    BY <2>3, <2>4
<1>5. Fresh(d) /\ Progress(d)
  <2>1. \A n \in 1 .. Len(c.data) : n <= Done(c) => c.out[n] # "none"
    BY <1>2 DEF Progress, Complete, Inside
  <2>2. \A n \in 1 .. Len(d.data) : n <= Done(d) => d.out[n] # "none"
    BY <1>3, <2>1
  <2> QED
    BY <1>3, <2>2 DEF Fresh, Progress, Complete, Probing
<1>6. Excluded'
  BY <1>1, <1>3, ExcludedKept DEF Inside
<1>7. g \notin Pending
  BY DEF Pending
<1> QED
  BY <1>1, <1>2, <1>3, <1>4, <1>5, <1>6, <1>7, CallFacts, LocalStep

LEMMA LookInv ==
  ASSUME IInv, NEW g \in Goroutines, Look(g)
  PROVE  IInv'
<1>1. PICK c : c = call[g]
  OBVIOUS
<1>2. /\ c \in CallState /\ c.pc = "probe" /\ c.op = "test" /\ c.i < Shape.k
      /\ Framed(c) /\ Progress(c) /\ Answered(c) /\ c.due \subseteq added /\ Probing(c)
  BY <1>1, CallFacts DEF Look, Probing
<1>3. /\ KeyOf(c) \in Keys /\ c.i \in 0 .. Shape.k - 1
      /\ <<WordOf(c.cur), BitOf(c.cur)>> = BitAt(KeyOf(c), c.i)
  <2>1. KeyOf(c) \in Keys /\ c.i \in 0 .. Shape.k /\ c.cur = KeyWalk[KeyOf(c)][c.i]
    BY <1>2, IndexFacts
  <2>2. c.i \in 0 .. Shape.k - 1
    BY <1>2, <2>1, ShapeFacts
  <2> QED
    BY <2>1, <2>2 DEF BitAt
<1>4. CASE BitOf(c.cur) \in words[WordOf(c.cur)]
  <2>1. PICK d : d = NextProbe(c)
    OBVIOUS
  <2>2. call' = [call EXCEPT ![g] = d] /\ UNCHANGED <<words, lock, added>>
    BY <1>1, <1>4, <2>1 DEF Look
  <2>3. /\ d \in CallState /\ Framed(d) /\ d.pc = "probe" /\ d.op = c.op
        /\ d.data = c.data /\ d.out = c.out /\ d.due = c.due /\ d.i = c.i + 1
        /\ d.base = c.base /\ d.j = c.j
    BY <1>2, <2>1, NextProbeFacts DEF NextProbe, CallState
  <2>4. IsSet(BitAt(KeyOf(c), c.i))
    BY <1>3, <1>4 DEF IsSet
  <2>5. Progress(d)
    <3>1. KeyOf(d) = KeyOf(c)
      BY <2>3 DEF KeyOf, Index
    <3>2. \A i \in 0 .. d.i - 1 : i \in 0 .. c.i - 1 \/ i = c.i
      BY <1>3, <2>3
    <3>3. Complete(d)
      BY <1>2, <2>3 DEF Progress, Complete, Inside, Done, Probing
    <3> QED
      BY <1>2, <2>3, <2>4, <3>1, <3>2, <3>3 DEF Progress
  <2>6. Fresh(d) /\ Answered(d)
    BY <1>2, <2>3 DEF Fresh, Answered
  <2>7. Excluded'
    BY <1>1, <1>2, <2>2, <2>3, ExcludedKept DEF Inside
  <2>8. g \notin Pending
    BY <1>1, <1>2 DEF Pending
  <2> QED
    BY <1>2, <2>2, <2>3, <2>5, <2>6, <2>7, <2>8, CallFacts, LocalStep
<1>5. CASE BitOf(c.cur) \notin words[WordOf(c.cur)]
  <2>1. call' = [call EXCEPT ![g] = Answer(c, "absent")] /\ UNCHANGED <<words, lock, added>>
    BY <1>1, <1>5 DEF Look
  <2>2. ~AllSet(KeyOf(c))
    <3>1. BitAt(KeyOf(c), c.i) \in KeyBits[KeyOf(c)]
      BY <1>3, KeyFacts
    <3>2. ~IsSet(BitAt(KeyOf(c), c.i))
      BY <1>3, <1>5 DEF IsSet
    <3> QED
      BY <3>1, <3>2 DEF AllSet
  <2> QED
    BY <1>1, <1>2, <2>1, <2>2, AnswerInv
<1> QED
  BY <1>4, <1>5

LEMMA KeyDoneInv ==
  ASSUME IInv, NEW g \in Goroutines, KeyDone(g)
  PROVE  IInv'
<1>1. PICK c : c = call[g]
  OBVIOUS
<1>2. /\ c \in CallState /\ c.pc = "probe" /\ c.i = Shape.k
      /\ Framed(c) /\ Progress(c) /\ Answered(c) /\ c.due \subseteq added /\ Probing(c)
  BY <1>1, CallFacts DEF KeyDone, Probing
<1>3. KeyOf(c) \in Keys
  BY <1>2, IndexFacts
<1>4. AllSet(KeyOf(c))
  BY <1>2, <1>3, KeyFacts DEF Progress, AllSet
<1>5. CASE c.op = "test"
  <2>1. call' = [call EXCEPT ![g] = Answer(c, "present")] /\ UNCHANGED <<words, lock, added>>
    BY <1>1, <1>5 DEF KeyDone
  <2> QED
    BY <1>1, <1>2, <1>4, <1>5, <2>1, AnswerInv
<1>6. CASE c.op # "test"
  <2>1. PICK d : d = NextKey(c)
    OBVIOUS
  <2>2. call' = [call EXCEPT ![g] = d] /\ UNCHANGED <<words, lock, added>>
    BY <1>1, <1>6, <2>1 DEF KeyDone
  <2>3. /\ d \in CallState /\ Framed(d) /\ d.pc \in {"window", "probe"}
        /\ d.op = c.op /\ d.data = c.data /\ d.out = c.out /\ d.due = c.due
        /\ d.pc = "probe" => d.i = 0
    BY <1>2, <2>1, NextKeyFacts
  <2>4. \A n \in 1 .. Len(c.data) : n <= Done(d) => n <= Done(c) \/ n = Index(c)
    BY <1>2, <2>1, NextKeyFacts
  <2>5. Progress(d)
    <3>1. c.op = "add"
      BY <1>2, <1>6 DEF CallState, Framed
    <3>2. \A n \in 1 .. Len(d.data) : n <= Done(d) => AllSet(d.data[n])
      BY <1>2, <1>4, <2>3, <2>4, <3>1 DEF Progress, Inside, KeyOf
    <3>3. Probing(d) => d.i = 0
      BY <2>3 DEF Probing
    <3>4. Complete(d)
      BY <2>3, <3>1 DEF Complete
    <3> QED
      BY <3>2, <3>3, <3>4 DEF Progress
  <2>6. Fresh(d) /\ Answered(d)
    BY <1>2, <2>3 DEF Fresh, Answered
  <2>7. Excluded'
    BY <1>1, <1>2, <2>2, <2>3, ExcludedKept DEF Inside
  <2>8. g \in Pending => d.op = "add" /\ Inside(d) /\ d.data = call[g].data
    BY <1>1, <2>3 DEF Pending, Inside
  <2> QED
    BY <1>2, <2>2, <2>3, <2>5, <2>6, <2>7, <2>8, CallFacts, LocalStep
<1> QED
  BY <1>5, <1>6

LEMMA ReturnInv ==
  ASSUME IInv, NEW g \in Goroutines, Return(g)
  PROVE  IInv'
<1>1. PICK c : c = call[g]
  OBVIOUS
<1>2. /\ c \in CallState /\ c.pc = "window" /\ c.base >= Len(c.data)
      /\ Framed(c) /\ Progress(c) /\ c.due \subseteq added
  BY <1>1, CallFacts DEF Return
<1>3. PICK d : d = Idle
  OBVIOUS
<1>4. /\ call' = [call EXCEPT ![g] = d] /\ words' = words
      /\ lock' = [writer |-> lock.writer \ {g}, readers |-> lock.readers \ {g}]
      /\ added' = IF c.op = "add" THEN added \cup KeysOf(c) ELSE added
  BY <1>1, <1>3, Zenon DEF Return, KeysOf
<1>5. /\ d \in CallState /\ Framed(d) /\ Fresh(d) /\ Progress(d) /\ Answered(d)
      /\ d.due = {} /\ d.op = "none" /\ d.pc = "idle"
  <2>1. d.due = {} /\ d.op = "none" /\ d.pc = "idle" /\ d.out = <<>>
    BY <1>3 DEF Idle
  <2> QED
    BY <1>3, <2>1, IdleFacts DEF Answered
<1>6. c.data \in Seq(Keys) /\ Len(c.data) \in Nat /\ c.base \in Nat
  BY <1>2 DEF CallState
<1>7. added \subseteq added' /\ added' \in SUBSET Keys
  <2>1. added \in SUBSET Keys
    BY CallFacts
  <2>2. KeysOf(c) \in SUBSET Keys
    BY <1>6 DEF KeysOf
  <2> QED
    BY <1>4, <2>1, <2>2
<1>8. \A key \in added' : AllSet(key)
  <2>1. c.op = "add" => \A n \in 1 .. Len(c.data) : AllSet(c.data[n])
    <3>1. Done(c) = c.base /\ Inside(c)
      BY <1>2 DEF Done, Probing, Inside
    <3>2. \A n \in 1 .. Len(c.data) : n <= c.base
      BY <1>2, <1>6
    <3> QED
      BY <1>2, <3>1, <3>2 DEF Progress
  <2>2. \A key \in added : AllSet(key)
    BY CallFacts
  <2> QED
    BY <1>4, <2>1, <2>2 DEF KeysOf
<1>9. lock' \in [writer : SUBSET Writers, readers : SUBSET Goroutines]
  BY <1>4, CallFacts
<1>10. Excluded'
  <2>1. call'[g] = d /\ \A h \in Goroutines \ {g} : call'[h] = call[h]
    BY <1>4 DEF IInv, TypeOK
  <2>2. ASSUME Locking, NEW h \in Goroutines, Inside(call'[h])
        PROVE  IF call'[h].op = "add" THEN lock' = [writer |-> {h}, readers |-> {}]
                                      ELSE lock'.writer = {} /\ h \in lock'.readers
    <3>1. h # g /\ call'[h] = call[h] /\ Inside(call[h]) /\ Inside(call[g])
      BY <1>1, <1>2, <1>5, <2>1, <2>2 DEF Inside
    <3>2. IF call[h].op = "add" THEN lock = [writer |-> {h}, readers |-> {}]
                                ELSE lock.writer = {} /\ h \in lock.readers
      BY <2>2, <3>1, CallFacts DEF Excluded
    <3> QED
      BY <1>4, <3>1, <3>2
  <2>3. (\A h \in Goroutines : call[h].op = "add" => h \in Writers)'
    BY <1>5, <2>1, CallFacts DEF Excluded
  <2> QED
    BY <2>2, <2>3 DEF Excluded, Inside
<1>11. g \in Pending => \/ KeysOf(call[g]) \subseteq added'
                        \/ d.op = "add" /\ Inside(d) /\ d.data = call[g].data
  BY <1>1, <1>4 DEF Pending
<1> QED
  <2>1. d.due \subseteq added'
    BY <1>5
  <2>2. call' = [call EXCEPT ![g] = d] /\ words' = words
    BY <1>4
  <2> QED
    BY <2>2, <1>5, <1>7, <1>8, <1>9, <1>10, <1>11, <2>1, LocalStep, Zenon

(***************************************************************************)
(* Nobody else is inserting, and under the lock nobody else is reading,    *)
(* while a goroutine is inside an insertion.                               *)
(***************************************************************************)
LEMMA Alone ==
  ASSUME IInv, NEW g \in Pending, NEW h \in Goroutines \ {g}
  PROVE  h \notin Pending /\ (Locking => ~Inside(call[h]))
<1>1. g \in Goroutines /\ call[g].op = "add" /\ Inside(call[g]) /\ Excluded /\ g \in Writers
  BY CallFacts DEF Pending, Excluded
<1>2. CASE Locking
  <2>1. lock = [writer |-> {g}, readers |-> {}]
    BY <1>1, <1>2 DEF Excluded
  <2>2. ~Inside(call[h])
    <3>1. SUFFICES ASSUME Inside(call[h]) PROVE FALSE
      OBVIOUS
    <3>2. IF call[h].op = "add" THEN lock = [writer |-> {h}, readers |-> {}]
                                ELSE lock.writer = {} /\ h \in lock.readers
      BY <1>1, <1>2, <3>1 DEF Excluded
    <3> QED
      BY <2>1, <3>2
  <2> QED
    BY <2>2 DEF Pending
<1>3. CASE ~Locking
  BY <1>1, <1>3, CallerAssumption DEF Excluded, Pending
<1> QED
  BY <1>2, <1>3

(***************************************************************************)
(* A store sets a bit and clears none.                                     *)
(***************************************************************************)
LEMMA StoreGrows ==
  ASSUME IInv, NEW g \in Goroutines, Store(g)
  PROVE  /\ \A key \in Keys, i \in 0 .. Shape.k - 1 : IsSet(BitAt(key, i)) => IsSet(BitAt(key, i))'
         /\ \A key \in Keys : AllSet(key) => AllSet(key)'
<1>1. PICK w, b : w = WordOf(call[g].cur) /\ b = BitOf(call[g].cur)
  OBVIOUS
<1>2. words' = [words EXCEPT ![w] = words[w] \cup {b}]
  BY <1>1, CallFacts DEF Store, Fresh
<1>3. \A x \in WordIndices(Shape) : words[x] \subseteq words'[x]
  BY <1>2 DEF IInv, TypeOK, BitArrays
<1>4. \A key \in Keys, i \in 0 .. Shape.k - 1 : IsSet(BitAt(key, i)) => IsSet(BitAt(key, i))'
  <2>1. \A key \in Keys, i \in 0 .. Shape.k - 1 : BitAt(key, i)[1] \in WordIndices(Shape)
    BY KeyFacts, ShapeFacts DEF BitAt
  <2> QED
    BY <1>3, <2>1 DEF IsSet
<1>5. \A key \in Keys : AllSet(key) => AllSet(key)'
  <2>1. TAKE key \in Keys
  <2>2. KeyBits[key] = {BitAt(key, i) : i \in 0 .. Shape.k - 1}
    BY KeyFacts
  <2> QED
    BY <1>4, <2>2 DEF AllSet
<1> QED
  BY <1>4, <1>5

LEMMA StoreInv ==
  ASSUME IInv, NEW g \in Goroutines, Store(g)
  PROVE  IInv'
<1>1. PICK c : c = call[g]
  OBVIOUS
<1>2. /\ c \in CallState /\ c.pc = "store" /\ c.op = "add" /\ c.i < Shape.k
      /\ Framed(c) /\ Fresh(c) /\ Progress(c) /\ c.due \subseteq added /\ Probing(c)
  BY <1>1, CallFacts DEF Store, Probing, Framed
<1>3. g \in Pending
  BY <1>1, <1>2 DEF Pending, Inside
<1>4. PICK d : d = [NextProbe(c) EXCEPT !.reg = {}]
  OBVIOUS
<1>5. /\ d \in CallState /\ Framed(d) /\ d.pc = "probe" /\ d.op = c.op
      /\ d.data = c.data /\ d.out = c.out /\ d.due = c.due /\ d.i = c.i + 1
      /\ d.base = c.base /\ d.j = c.j /\ KeyOf(d) = KeyOf(c)
  BY <1>2, <1>4, NextProbeFacts
<1>6. PICK w, b : w = WordOf(c.cur) /\ b = BitOf(c.cur)
  OBVIOUS
<1>7. /\ KeyOf(c) \in Keys /\ c.i \in 0 .. Shape.k - 1
      /\ <<w, b>> = BitAt(KeyOf(c), c.i)
      /\ w \in WordIndices(Shape) /\ b \in 0 .. WordBits - 1
  <2>1. KeyOf(c) \in Keys /\ c.i \in 0 .. Shape.k /\ c.cur = KeyWalk[KeyOf(c)][c.i]
    BY <1>2, IndexFacts
  <2>2. c.i \in 0 .. Shape.k - 1
    BY <1>2, <2>1, ShapeFacts
  <2> QED
    BY <1>6, <2>1, <2>2, KeyFacts DEF BitAt
<1>8. /\ call' = [call EXCEPT ![g] = d] /\ added' = added /\ lock' = lock
      /\ words' = [words EXCEPT ![w] = words[w] \cup {b}]
  BY <1>1, <1>2, <1>4, <1>6 DEF Store, Fresh
<1>9. /\ call \in [Goroutines -> CallState] /\ words \in BitArrays(Shape)
      /\ call'[g] = d /\ \A h \in Goroutines \ {g} : call'[h] = call[h]
  BY <1>8 DEF IInv, TypeOK
<1>10. words' \in BitArrays(Shape)
  BY <1>7, <1>8, <1>9 DEF BitArrays
<1>11. \A x \in WordIndices(Shape) : words'[x] = IF x = w THEN words[x] \cup {b} ELSE words[x]
  BY <1>7, <1>8, <1>9 DEF BitArrays
<1>12. \A key \in Keys, i \in 0 .. Shape.k - 1 : IsSet(BitAt(key, i)) => IsSet(BitAt(key, i))'
  BY StoreGrows
<1>13. \A key \in Keys : AllSet(key) => AllSet(key)'
  BY StoreGrows
<1>14. IsSet(BitAt(KeyOf(c), c.i))'
  <2>1. b \in words'[w]
    BY <1>7, <1>11
  <2> QED
    BY <1>7, <2>1 DEF IsSet
<1>15. BitsOf(words)' \subseteq BitsOf(words) \cup {<<w, b>>}
  <2>1. DOMAIN words = WordIndices(Shape) /\ DOMAIN words' = WordIndices(Shape)
    BY <1>9, <1>10 DEF BitArrays
  <2>2. SUFFICES ASSUME NEW p \in BitsOf(words)' PROVE p \in BitsOf(words) \cup {<<w, b>>}
    OBVIOUS
  <2>3. PICK x \in WordIndices(Shape), y \in 0 .. WordBits - 1 : p = <<x, y>> /\ y \in words'[x]
    BY <2>1, <2>2 DEF BitsOf
  <2>4. y \in words[x] \/ p = <<w, b>>
    BY <1>11, <2>3
  <2> QED
    BY <2>1, <2>3, <2>4 DEF BitsOf
(***************************************************************************)
(* The invariant, part by part.                                            *)
(***************************************************************************)
<1>16. TypeOK'
  BY <1>5, <1>8, <1>9, <1>10 DEF TypeOK, IInv
<1>17. Excluded'
  BY <1>1, <1>3, <1>5, <1>8, ExcludedKept DEF Pending
<1>18. ASSUME NEW h \in Goroutines
       PROVE  Framed(call[h])' /\ Fresh(call[h])' /\ Progress(call[h])'
  <2>1. CASE h = g
    <3>1. Framed(d) /\ Fresh(d)'
      BY <1>5 DEF Fresh
    <3>2. \A i \in 0 .. d.i - 1 : IsSet(BitAt(KeyOf(d), i))'
      <4>1. \A i \in 0 .. d.i - 1 : i \in 0 .. c.i - 1 \/ i = c.i
        BY <1>5, <1>7
      <4>2. \A i \in 0 .. c.i - 1 : i \in 0 .. Shape.k - 1 /\ IsSet(BitAt(KeyOf(c), i))
        BY <1>2, <1>7, ShapeFacts DEF Progress
      <4> QED
        BY <1>5, <1>7, <1>12, <1>14, <4>1, <4>2
    <3>3. \A n \in 1 .. Len(d.data) : n <= Done(d) => AllSet(d.data[n])'
      <4>1. Done(d) = Done(c)
        BY <1>2, <1>5 DEF Done, Probing
      <4>2. \A n \in 1 .. Len(c.data) : c.data[n] \in Keys
        BY <1>2 DEF CallState
      <4> QED
        BY <1>2, <1>5, <1>13, <4>1, <4>2 DEF Progress, Inside
    <3>4. Progress(d)'
      BY <1>2, <1>5, <3>2, <3>3 DEF Progress, Complete
    <3> QED
      BY <1>9, <2>1, <3>1, <3>4 DEF Fresh, Progress, IsSet, AllSet
  <2>2. CASE h # g
    <3>1. PICK e : e = call[h]
      OBVIOUS
    <3>2. call'[h] = e /\ e \in CallState /\ Framed(e) /\ Progress(e)
      BY <1>9, <2>2, <3>1, CallFacts
    <3>3. e.pc # "store"
      BY <1>3, <2>2, <3>1, <3>2, Alone DEF Pending, Framed, Inside
    <3>4. \A i \in 0 .. e.i - 1 : Probing(e) => IsSet(BitAt(KeyOf(e), i))'
      <4>1. Probing(e) => KeyOf(e) \in Keys /\ e.i \in 0 .. Shape.k
        BY <3>2, IndexFacts
      <4>2. Probing(e) => \A i \in 0 .. e.i - 1 : i \in 0 .. Shape.k - 1
        BY <4>1, ShapeFacts
      <4> QED
        BY <1>12, <3>2, <4>1, <4>2 DEF Progress
    <3>5. ~(e.op = "add" /\ Inside(e))
      BY <1>3, <2>2, <3>1, Alone DEF Pending
    <3>6. Fresh(e)' /\ Progress(e)'
      BY <3>2, <3>3, <3>4, <3>5 DEF Fresh, Progress
    <3> QED
      BY <3>2, <3>6 DEF Fresh, Progress, IsSet, AllSet
  <2> QED
    BY <2>1, <2>2
<1>19. (\A h \in Goroutines : call[h].due \subseteq added)'
  BY <1>2, <1>5, <1>8, <1>9 DEF IInv
<1>20. ExactBits'
  <2>1. \A key \in added' : AllSet(key)'
    BY <1>8, <1>13, CallFacts
  <2>2. Pending' = Pending /\ \A h \in Goroutines : KeysOf(call'[h]) = KeysOf(call[h])
    BY <1>1, <1>3, <1>5, <1>9 DEF Pending, Inside, KeysOf
  <2>3. added' \cup UNION {KeysOf(call'[h]) : h \in Pending'}
          = added \cup UNION {KeysOf(call[h]) : h \in Pending}
    BY <1>8, <2>2 DEF Pending
  <2>4. <<w, b>> \in BitsOfKeys(added \cup UNION {KeysOf(call[h]) : h \in Pending})
    <3>1. Index(c) \in 1 .. Len(c.data)
      BY <1>2, IndexFacts
    <3>2. KeyOf(c) \in KeysOf(c)
      BY <3>1 DEF KeyOf, KeysOf
    <3>3. <<w, b>> \in KeyBits[KeyOf(c)]
      BY <1>7, KeyFacts
    <3> QED
      BY <1>1, <1>3, <3>2, <3>3 DEF BitsOfKeys
  <2>5. BitsOf(words) \subseteq BitsOfKeys(added \cup UNION {KeysOf(call[h]) : h \in Pending})
    BY DEF IInv, ExactBits
  <2> QED
    BY <1>15, <2>1, <2>3, <2>4, <2>5 DEF ExactBits
<1>21. ASSUME NEW h \in Goroutines
       PROVE  Answered(call[h])'
  <2>1. PICK e : e = call'[h]
    OBVIOUS
  <2>2. e \in CallState /\ Framed(e)
    BY <1>9, <1>16, <1>18, <2>1 DEF TypeOK
  <2>3. DOMAIN e.out = 1 .. Len(e.out) /\ Len(e.out) = Len(e.data)
    BY <2>2 DEF Framed, CallState
  <2>4. Answered(e)'
    <3>1. CASE h = g
      <4>1. \A n \in DOMAIN e.out : e.out[n] = "none"
        BY <1>2, <1>5, <1>9, <2>1, <2>2, <2>3, <3>1 DEF Framed
      <4> QED
        BY <4>1 DEF Answered
    <3>2. CASE h # g
      <4>1. e = call[h] /\ Answered(e)
        BY <1>9, <2>1, <3>2, CallFacts
      <4>2. \A n \in DOMAIN e.out : e.data[n] \in Keys
        BY <2>2, <2>3 DEF CallState
      <4>3. Locking => \A n \in DOMAIN e.out : e.out[n] = "none"
        BY <1>3, <2>2, <2>3, <3>2, <4>1, Alone DEF Framed
      <4> QED
        BY <1>13, <4>1, <4>2, <4>3 DEF Answered
    <3> QED
      BY <3>1, <3>2
  <2> QED
    BY <2>1, <2>4 DEF Answered, AllSet, IsSet
<1>22. (NoFalseNegatives /\ BatchAgreesWithTest)'
  BY <1>21 DEF Answered, NoFalseNegatives, BatchAgreesWithTest
<1> QED
  BY <1>16, <1>17, <1>18, <1>19, <1>20, <1>22 DEF IInv

LEMMA NextInv == IInv /\ [Next]_vars => IInv'
<1>1. SUFFICES ASSUME IInv, [Next]_vars PROVE IInv'
  OBVIOUS
<1>2. CASE UNCHANGED vars
  BY <1>1, <1>2 DEF vars, IInv, TypeOK, Excluded, Fresh, Progress, IsSet, AllSet, Pending,
    ExactBits, NoFalseNegatives, BatchAgreesWithTest, BitsOf
<1>3. ASSUME NEW g \in Goroutines, NEW op \in {"add", "test"}, NEW data \in Batches,
             Call(g, op, data)
      PROVE  IInv'
  BY <1>1, <1>3, CallInv
<1>4. ASSUME NEW g \in Goroutines, Step(g)
      PROVE  IInv'
  BY <1>1, <1>4, AcquireInv, WindowInv, LoadInv, StoreInv, LookInv, KeyDoneInv, ReturnInv DEF Step
<1> QED
  BY <1>1, <1>2, <1>3, <1>4 DEF Next

-----------------------------------------------------------------------------
(***************************************************************************)
(* THEOREM: the inductive invariant holds in every reachable state.        *)
(***************************************************************************)
THEOREM Invariance == Spec => []IInv
BY InitInv, NextInv, PTL DEF Spec

(***************************************************************************)
(* THEOREM: every variable keeps its type; in particular no probe of any   *)
(* key falls outside the array.                                            *)
(***************************************************************************)
THEOREM TypeCorrect == Spec => []TypeOK
<1>1. IInv => TypeOK
  BY DEF IInv
<1> QED
  BY <1>1, Invariance, PTL

(***************************************************************************)
(* THEOREM: a key whose insertion returned is never answered "absent" by a *)
(* test made later, by whichever goroutine, alone or in a batch.           *)
(***************************************************************************)
THEOREM NeverFalseNegative == Spec => []NoFalseNegatives
<1>1. IInv => NoFalseNegatives
  BY DEF IInv
<1> QED
  BY <1>1, Invariance, PTL

(***************************************************************************)
(* THEOREM: the array is exactly the union of the inserted keys' bits, up  *)
(* to the insertions under way: no update is lost, no stray bit is set.    *)
(***************************************************************************)
THEOREM NoLostUpdate == Spec => []ExactBits
<1>1. IInv => ExactBits
  BY DEF IInv
<1> QED
  BY <1>1, Invariance, PTL

(***************************************************************************)
(* THEOREM: the answer for data[i] is in out[i], and is the one Test would *)
(* give for that key.                                                      *)
(***************************************************************************)
THEOREM BatchEqualsTest == Spec => []BatchAgreesWithTest
<1>1. IInv => BatchAgreesWithTest
  BY DEF IInv
<1> QED
  BY <1>1, Invariance, PTL

(***************************************************************************)
(* THEOREM: a batch of tests has answered for every key when it returns.   *)
(***************************************************************************)
THEOREM BatchAnswersAll == Spec => []EveryKeyAnswered
<1>1. IInv => EveryKeyAnswered
  <2>1. SUFFICES ASSUME IInv, NEW g \in Goroutines, call[g].op = "test",
                        call[g].pc = "window", call[g].base >= Len(call[g].data),
                        NEW n \in DOMAIN call[g].out
                 PROVE  call[g].out[n] # "none"
    BY DEF EveryKeyAnswered
  <2>2. /\ call[g] \in CallState /\ Framed(call[g]) /\ Complete(call[g])
    BY <2>1, CallFacts DEF Progress
  <2>3. n \in 1 .. Len(call[g].data) /\ Done(call[g]) = call[g].base /\ Inside(call[g])
    BY <2>1, <2>2 DEF CallState, Framed, Done, Probing, Inside
  <2>4. call[g].base \in Nat /\ Len(call[g].data) \in Nat
    BY <2>2 DEF CallState
  <2>5. n <= Done(call[g])
    BY <2>1, <2>3, <2>4
  <2> QED
    BY <2>1, <2>2, <2>3, <2>5 DEF Complete
<1> QED
  BY <1>1, Invariance, PTL

-----------------------------------------------------------------------------
(***************************************************************************)
(* Only the set of inserted keys matters: with no insertion under way the  *)
(* array is the union of their bits, and under the lock every answer, of   *)
(* Test or in a batch, is decided by that union.                           *)
(***************************************************************************)
KeysDecide ==
  /\ Pending = {} => BitsOf(words) = BitsOfKeys(added)
  /\ Locking => \A g \in Goroutines : \A n \in DOMAIN call[g].out :
       call[g].out[n] # "none" =>
         (call[g].out[n] = "present" <=> KeyBits[call[g].data[n]] \subseteq BitsOfKeys(added))

LEMMA QuietArray ==
  ASSUME IInv, Pending = {}
  PROVE  /\ BitsOf(words) = BitsOfKeys(added)
         /\ \A key \in Keys : AllSet(key) <=> KeyBits[key] \subseteq BitsOfKeys(added)
<1>0. words \in BitArrays(Shape) /\ added \in SUBSET Keys
  BY DEF IInv, TypeOK
<1>1. DOMAIN words = WordIndices(Shape)
  BY <1>0 DEF BitArrays
<1>2. ASSUME NEW key \in Keys, NEW p \in KeyBits[key]
      PROVE  /\ p \in (DOMAIN words) \X (0 .. WordBits - 1)
             /\ IsSet(p) <=> p \in BitsOf(words)
  <2>1. PICK i \in 0 .. Shape.k - 1 : p = BitAt(key, i)
    BY <1>2, KeyFacts
  <2>2. i \in 0 .. Shape.k
    BY <2>1, ShapeFacts
  <2>3. p = <<WordOf(KeyWalk[key][i]), BitOf(KeyWalk[key][i])>>
    BY <2>1 DEF BitAt
  <2>4. p \in (DOMAIN words) \X (0 .. WordBits - 1)
    BY <1>1, <2>2, <2>3, KeyFacts
  <2> QED
    BY <2>4 DEF IsSet, BitsOf
<1>3. BitsOf(words) \subseteq BitsOfKeys(added)
  <2>1. added \cup UNION {KeysOf(call[g]) : g \in Pending} = added
    OBVIOUS
  <2> QED
    BY <2>1 DEF IInv, ExactBits
<1>4. ASSUME NEW p \in BitsOfKeys(added) PROVE p \in BitsOf(words)
  <2>1. PICK key \in added : p \in KeyBits[key]
    BY <1>4 DEF BitsOfKeys
  <2>2. key \in Keys /\ AllSet(key)
    BY <1>0, <2>1 DEF IInv, ExactBits
  <2> QED
    BY <1>2, <2>1, <2>2 DEF AllSet
<1>5. BitsOf(words) = BitsOfKeys(added)
  BY <1>3, <1>4
<1> QED
  BY <1>2, <1>5 DEF AllSet

(***************************************************************************)
(* THEOREM: two filters of one shape into which the same keys went, in any *)
(* order, in single calls or in batches, by any goroutines, hold the same  *)
(* bits and give the same answers.                                         *)
(***************************************************************************)
THEOREM KeysDecideAnswers == Spec => []KeysDecide
<1>1. IInv => KeysDecide
  <2>1. SUFFICES ASSUME IInv, Locking, NEW g \in Goroutines, NEW n \in DOMAIN call[g].out,
                        call[g].out[n] # "none"
                 PROVE  call[g].out[n] = "present" <=>
                          KeyBits[call[g].data[n]] \subseteq BitsOfKeys(added)
    BY QuietArray DEF KeysDecide
  <2>2. call[g] \in CallState /\ Framed(call[g]) /\ Answered(call[g])
    BY <2>1, CallFacts
  <2>3. n \in 1 .. Len(call[g].data) /\ n \in 1 .. Len(call[g].out)
    BY <2>1, <2>2 DEF CallState, Framed
  <2>4. call[g].op = "test" /\ Inside(call[g])
    BY <2>1, <2>2, <2>3 DEF Framed
  <2>5. Pending = {}
    <3>1. ASSUME NEW h \in Pending PROVE FALSE
      <4>1. call[h].op = "add"
        BY <3>1 DEF Pending
      <4>2. g \in Goroutines \ {h}
        BY <2>4, <4>1
      <4> QED
        BY <2>1, <2>4, <4>2, Alone
    <3> QED
      BY <3>1
  <2>6. call[g].data[n] \in Keys
    BY <2>2, <2>3 DEF CallState
  <2>7. call[g].out[n] \in {"absent", "present"}
    BY <2>1, <2>2 DEF CallState
  <2>8. call[g].out[n] = "present" <=> AllSet(call[g].data[n])
    BY <2>1, <2>2, <2>7 DEF Answered
  <2> QED
    BY <2>1, <2>5, <2>6, <2>8, QuietArray
<1> QED
  BY <1>1, Invariance, PTL

-----------------------------------------------------------------------------
(***************************************************************************)
(* Nothing is forgotten: a step never clears a bit of a key, and never     *)
(* takes a key out of added.                                               *)
(***************************************************************************)
LEMMA StepGrows ==
  ASSUME IInv, [Next]_vars
  PROVE  added \subseteq added' /\ \A key \in Keys : AllSet(key) => AllSet(key)'
<1>1. CASE words' = words /\ added \subseteq added'
  BY <1>1 DEF AllSet, IsSet
<1>2. CASE \E g \in Goroutines : Store(g)
  <2>1. added' = added
    BY <1>2 DEF Store
  <2> QED
    BY <1>2, <2>1, StoreGrows
<1>3. CASE \E g \in Goroutines : Return(g)
  BY <1>1, <1>3 DEF Return
<1>4. CASE \E g \in Goroutines, op \in {"add", "test"}, data \in Batches : Call(g, op, data)
  BY <1>1, <1>4 DEF Call
<1>5. CASE \E g \in Goroutines : Acquire(g) \/ Window(g) \/ Load(g) \/ Look(g) \/ KeyDone(g)
  BY <1>1, <1>5 DEF Acquire, Window, Load, Look, KeyDone
<1>6. CASE UNCHANGED vars
  BY <1>1, <1>6 DEF vars
<1> QED
  BY <1>2, <1>3, <1>4, <1>5, <1>6 DEF Next, Step

(***************************************************************************)
(* THEOREM: a shared BlockedFilter is a BloomSet.  An empty filter reports *)
(* no key, since k > 0; a step only adds members and reported keys; and    *)
(* every member is reported.                                               *)
(***************************************************************************)
THEOREM ImplementsBloomSet == Spec => Refines
<1>1. Init => Abstract!Init
  <2>1. SUFFICES ASSUME Init PROVE added = {} /\ Reported = {}
    BY DEF Abstract!Init
  <2>2. \A key \in Keys : ~AllSet(key)
    <3>1. TAKE key \in Keys
    <3>2. 0 \in 0 .. Shape.k - 1
      BY ShapeFacts
    <3>3. BitAt(key, 0) \in KeyBits[key] /\ BitAt(key, 0)[1] \in WordIndices(Shape)
      BY <3>2, KeyFacts, ShapeFacts DEF BitAt
    <3>4. ~IsSet(BitAt(key, 0))
      BY <2>1, <3>3 DEF Init, ZeroBits, IsSet
    <3> QED
      BY <3>3, <3>4 DEF AllSet
  <2> QED
    BY <2>1, <2>2 DEF Init, Reported
<1>2. IInv /\ IInv' /\ [Next]_vars => [Abstract!Grow]_<<added, Reported>>
  <2>1. SUFFICES ASSUME IInv, IInv', [Next]_vars PROVE Abstract!Grow
    OBVIOUS
  <2>2. added \subseteq added' /\ \A key \in Keys : AllSet(key) => AllSet(key)'
    BY <2>1, StepGrows
  <2>3. added' \in SUBSET Keys /\ \A key \in added' : AllSet(key)'
    BY <2>1 DEF IInv, TypeOK, ExactBits
  <2> QED
    BY <2>2, <2>3 DEF Abstract!Grow, Reported
<1> QED
  BY <1>1, <1>2, Invariance, PTL DEF Spec, Refines, Abstract!Spec
=============================================================================
