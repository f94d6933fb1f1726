-------------------------- MODULE LiveFilterProofs --------------------------
(***************************************************************************)
(* Replacing a filter is atomic for the goroutines that test it: proofs    *)
(* for any number of them, of filters in memory, of versions and of        *)
(* replacements.                                                           *)
(***************************************************************************)
EXTENDS LiveFilter, BlockProbeProofs

-----------------------------------------------------------------------------
Whole(v) == Holding(v, v.keys)

\* The (word, bit) pairs that some keys of a version set.
Marked(v, S) == UNION {Positions(v.shape, Hash[v.seed][key]) : key \in S}

LEMMA VersionFacts ==
  ASSUME NEW v \in Versions
  PROVE  /\ v \in Version /\ v.shape \in FilterShape /\ v.seed \in Seeds /\ v.keys \subseteq Keys
         /\ v.shape.numBlocks \in Nat \ {0} /\ v.shape.k \in Nat \ {0}
         /\ v.shape.fastrange \in BOOLEAN
         /\ \A key \in Keys : Hash[v.seed][key] \in HashValue
         /\ v.shape = [numBlocks |-> v.shape.numBlocks, k |-> v.shape.k,
                       fastrange |-> v.shape.fastrange]
<1>1. v \in Version
  BY LiveAssumption
<1>2. v.shape \in FilterShape /\ v.seed \in Seeds /\ v.keys \subseteq Keys
  BY <1>1 DEF Version
<1>3. \A key \in Keys : Hash[v.seed][key] \in HashValue
  BY <1>2, LiveAssumption
<1>4. v.shape = [numBlocks |-> v.shape.numBlocks, k |-> v.shape.k,
                 fastrange |-> v.shape.fastrange]
  BY <1>2 DEF FilterShape
<1> QED
  BY <1>1, <1>2, <1>3, <1>4 DEF FilterShape

\* What a filter of a version in memory is, field by field.
LEMMA HoldingFields ==
  ASSUME NEW v \in Versions, NEW S
  PROVE  /\ Holding(v, S) \in Memory
         /\ Holding(v, S).numBlocks = v.shape.numBlocks /\ Holding(v, S).k = v.shape.k
         /\ Holding(v, S).fastrange = v.shape.fastrange /\ Holding(v, S).seed = v.seed
         /\ DOMAIN Holding(v, S).blocks = WordIndices(v.shape)
         /\ \A w \in WordIndices(v.shape) :
              Holding(v, S).blocks[w] = {b \in 0 .. WordBits - 1 : <<w, b>> \in Marked(v, S)}
<1> DEFINE B == [w \in WordIndices(v.shape) |-> {b \in 0 .. WordBits - 1 : <<w, b>> \in Marked(v, S)}]
<1>1. Holding(v, S) = [numBlocks |-> v.shape.numBlocks, k |-> v.shape.k,
                       fastrange |-> v.shape.fastrange, seed |-> v.seed, blocks |-> B]
  BY DEF Holding, Marked
<1>2. B \in BitArrays(v.shape)
  BY DEF BitArrays
<1>3. B \in UNION {BitArrays(u.shape) : u \in Versions}
  BY <1>2
<1>4. DOMAIN B = WordIndices(v.shape)
  OBVIOUS
<1>5. \A w \in WordIndices(v.shape) : B[w] = {b \in 0 .. WordBits - 1 : <<w, b>> \in Marked(v, S)}
  OBVIOUS
<1> HIDE DEF B
<1>6. Holding(v, S) \in Memory
  <2> DEFINE U == UNION {BitArrays(u.shape) : u \in Versions}
  <2>1. /\ v.shape.numBlocks \in Nat \ {0} /\ v.shape.k \in Nat \ {0}
        /\ v.shape.fastrange \in BOOLEAN /\ v.seed \in Seeds /\ B \in U
    BY <1>3, VersionFacts
  <2>2. Memory = [numBlocks : Nat \ {0}, k : Nat \ {0}, fastrange : BOOLEAN, seed : Seeds, blocks : U]
    BY DEF Memory
  <2> HIDE DEF U
  <2> QED
    BY <1>1, <2>1, <2>2
<1>7. /\ Holding(v, S).numBlocks = v.shape.numBlocks /\ Holding(v, S).k = v.shape.k
      /\ Holding(v, S).fastrange = v.shape.fastrange /\ Holding(v, S).seed = v.seed
      /\ Holding(v, S).blocks = B
  BY <1>1
<1> QED
  BY <1>4, <1>5, <1>6, <1>7

\* Two filters in memory with the same fields are the same.
LEMMA SameFields ==
  ASSUME NEW f \in Memory, NEW g \in Memory,
         \A field \in Fields : f[field] = g[field]
  PROVE  f = g
BY DEF Memory, Fields

\* Adding a key to some keys of a version.
LEMMA AddsKey ==
  ASSUME NEW v \in Versions, NEW S, NEW key \in Keys
  PROVE  WithKey(Holding(v, S), key) = Holding(v, S \cup {key})
<1> DEFINE f == Holding(v, S)
           g == Holding(v, S \cup {key})
           P == Positions(v.shape, Hash[v.seed][key])
           C == [w \in DOMAIN f.blocks |-> f.blocks[w] \cup {b \in 0 .. WordBits - 1 : <<w, b>> \in P}]
<1>1. WithKey(f, key) = [f EXCEPT !.blocks = C]
  <2>1. f.seed = v.seed /\ [numBlocks |-> f.numBlocks, k |-> f.k, fastrange |-> f.fastrange] = v.shape
    BY HoldingFields, VersionFacts
  <2> HIDE DEF f
  <2> QED
    BY <2>1 DEF WithKey
<1>2. Marked(v, S \cup {key}) = Marked(v, S) \cup P
  BY DEF Marked
<1>3. C = g.blocks
  <2>1. DOMAIN f.blocks = WordIndices(v.shape) /\ DOMAIN g.blocks = WordIndices(v.shape)
    BY HoldingFields
  <2>2. \A w \in WordIndices(v.shape) :
          f.blocks[w] \cup {b \in 0 .. WordBits - 1 : <<w, b>> \in P} = g.blocks[w]
    <3>1. TAKE w \in WordIndices(v.shape)
    <3>2. f.blocks[w] = {b \in 0 .. WordBits - 1 : <<w, b>> \in Marked(v, S)}
      BY HoldingFields
    <3>3. g.blocks[w] = {b \in 0 .. WordBits - 1 : <<w, b>> \in Marked(v, S \cup {key})}
      BY HoldingFields
    <3> HIDE DEF f, g, P
    <3> QED
      BY <1>2, <3>2, <3>3
  <2>3. g.blocks = [w \in WordIndices(v.shape) |-> g.blocks[w]]
    BY DEF Holding
  <2> HIDE DEF f, g, P
  <2> QED
    BY <2>1, <2>2, <2>3
<1>4. f \in Memory /\ g \in Memory
  BY HoldingFields
<1>5. /\ g.numBlocks = f.numBlocks /\ g.k = f.k
      /\ g.fastrange = f.fastrange /\ g.seed = f.seed
  BY HoldingFields
<1> HIDE DEF f, g, C
<1>6. [f EXCEPT !.blocks = C] = g
  BY <1>3, <1>4, <1>5 DEF Memory
<1> QED
  BY <1>1, <1>6 DEF f, g

-----------------------------------------------------------------------------
(***************************************************************************)
(* What a test finds in a whole filter of a version.                       *)
(***************************************************************************)
At(v, key) == Walk(v.shape, Hash[v.seed][key])

IsMarked(v, s) == <<WordOf(s), BitOf(s)>> \in Marked(v, v.keys)

LEMMA ProbesExist ==
  ASSUME NEW v \in Versions, NEW key \in Keys, NEW i \in 0 .. v.shape.k
  PROVE  LET s == At(v, key)[i] IN
         /\ WordOf(s) \in DOMAIN Whole(v).blocks
         /\ BitOf(s) \in Whole(v).blocks[WordOf(s)] <=> IsMarked(v, s)
<1> DEFINE s == At(v, key)[i]
<1>1. WordOf(s) \in WordIndices(v.shape) /\ BitOf(s) \in 0 .. WordBits - 1
  BY VersionFacts, ProbesInBlock DEF At
<1>2. /\ DOMAIN Whole(v).blocks = WordIndices(v.shape)
      /\ Whole(v).blocks[WordOf(s)] =
           {b \in 0 .. WordBits - 1 : <<WordOf(s), b>> \in Marked(v, v.keys)}
  BY <1>1, HoldingFields DEF Whole
<1> HIDE DEF s
<1>3. BitOf(s) \in Whole(v).blocks[WordOf(s)] <=> IsMarked(v, s)
  BY <1>1, <1>2 DEF IsMarked
<1> QED
  BY <1>1, <1>2, <1>3 DEF s

LEMMA AnswerIs ==
  ASSUME NEW v \in Versions, NEW key \in Keys
  PROVE  /\ Answer(v, key) \in BOOLEAN
         /\ Answer(v, key) <=> \A i \in 0 .. v.shape.k - 1 : IsMarked(v, At(v, key)[i])
         /\ key \in v.keys => Answer(v, key)
<1>1. Positions(v.shape, Hash[v.seed][key]) =
        {<<WordOf(At(v, key)[i]), BitOf(At(v, key)[i])>> : i \in 0 .. v.shape.k - 1}
  BY DEF Positions, At
<1>2. Answer(v, key) <=> Positions(v.shape, Hash[v.seed][key]) \subseteq Marked(v, v.keys)
  BY DEF Answer, Marked
<1>3. Answer(v, key) \in BOOLEAN
  BY DEF Answer
<1>4. key \in v.keys => Positions(v.shape, Hash[v.seed][key]) \subseteq Marked(v, v.keys)
  BY DEF Marked
<1>5. Positions(v.shape, Hash[v.seed][key]) \subseteq Marked(v, v.keys) <=>
        \A i \in 0 .. v.shape.k - 1 : IsMarked(v, At(v, key)[i])
  BY <1>1 DEF IsMarked
<1> QED
  BY <1>2, <1>3, <1>4, <1>5

\* A test starts where the walk of its key in the version starts.
LEMMA LocatesWalk ==
  ASSUME NEW v \in Versions, NEW key \in Keys
  PROVE  LET f == Whole(v) IN BlockOffsetHash(f, Hash[f.seed][key]) = At(v, key)[0]
<1> DEFINE h == Hash[v.seed][key]
<1>1. Whole(v).seed = v.seed
  BY HoldingFields DEF Whole
<1>2. Whole(v).numBlocks = v.shape.numBlocks /\ Whole(v).fastrange = v.shape.fastrange
  BY HoldingFields DEF Whole
<1>3. BlockOffsetHash(Whole(v), h) = BlockOffsetHash(v.shape, h)
  BY <1>2 DEF BlockOffsetHash, BlockIndex
<1>4. At(v, key)[0] = BlockOffsetHash(v.shape, h)
  BY VersionFacts, WalkTurns DEF At
<1> QED
  BY <1>1, <1>3, <1>4

-----------------------------------------------------------------------------
(***************************************************************************)
(* The inductive invariant.  The updater owns the filter it fills, and     *)
(* with the lock there is nobody inside while it works.  The filter in use *)
(* is the current version, but for the fields that were copied already.  A *)
(* test works on one whole version that it saw in use, and has found every *)
(* bit it looked at.                                                       *)
(***************************************************************************)
Filling ==
  upd \in [pc : {"fill"}, obj : Objs, todo : SUBSET Keys, version : Versions,
           left : SUBSET Fields]

UpdaterInv ==
  \/ upd = IdleUpdater
  \/ /\ Filling
     /\ upd.obj # ptr /\ \A r \in Inside : rd[r].obj # upd.obj
     /\ heap[upd.obj] = Holding(upd.version, upd.version.keys \ upd.todo)
     /\ upd.todo \subseteq upd.version.keys
     /\ how = "inPlace" => Inside = {}
     /\ upd.left # Fields => how = "inPlace" /\ upd.todo = {}

InUseInv ==
  \A field \in Fields :
    heap[ptr][field] = IF upd.pc = "fill" /\ field \notin upd.left
                         THEN heap[upd.obj][field] ELSE Whole(current)[field]

TestsVersion(r, v) ==
  /\ heap[rd[r].obj] = Whole(v)
  /\ rd[r].pc = "look" =>
       /\ rd[r].i \in 0 .. v.shape.k
       /\ rd[r].at = At(v, rd[r].key)[rd[r].i]
       /\ \A j \in 0 .. rd[r].i - 1 : IsMarked(v, At(v, rd[r].key)[j])
  /\ rd[r].pc = "done" => rd[r].answer = Answer(v, rd[r].key)

ReaderInv(r) ==
  /\ rd[r].pc \in {"idle", "call", "locate", "look", "done"}
  /\ rd[r].pc # "idle" => rd[r].key \in Keys
  /\ rd[r].pc = "call" => current \in seen[r]
  /\ r \in Inside => rd[r].obj \in Objs /\ \E v \in seen[r] : TestsVersion(r, v)

StateTypes ==
  /\ how \in {"swap", "inPlace"} /\ ptr \in Objs /\ current \in Versions
  /\ heap \in [Objs -> Memory]
  /\ rd = [r \in Readers |-> rd[r]]
  /\ seen \in [Readers -> SUBSET Versions]

LInv == StateTypes /\ UpdaterInv /\ InUseInv /\ \A r \in Readers : ReaderInv(r)

-----------------------------------------------------------------------------
LEMMA InitLInv == Init => LInv
<1> SUFFICES ASSUME Init PROVE LInv
  OBVIOUS
<1> USE DEF Init
<1>1. Whole(current) \in Memory
  BY HoldingFields DEF Whole
<1>2. StateTypes
  BY <1>1, LiveAssumption DEF StateTypes, Whole
<1>3. UpdaterInv
  BY DEF UpdaterInv
<1>4. InUseInv
  BY LiveAssumption DEF InUseInv, IdleUpdater, Whole
<1>5. \A r \in Readers : ReaderInv(r)
  BY DEF ReaderInv, IdleReader, Inside
<1> QED
  BY <1>2, <1>3, <1>4, <1>5 DEF LInv

-----------------------------------------------------------------------------
(***************************************************************************)
(* Steps of a goroutine that tests.                                        *)
(***************************************************************************)
LEMMA UpdaterTypes ==
  ASSUME UpdaterInv
  PROVE  /\ upd.pc \in {"idle", "fill"}
         /\ upd.pc = "idle" => upd = IdleUpdater
         /\ upd.pc = "fill" =>
              /\ upd.obj \in Objs /\ upd.todo \subseteq Keys /\ upd.version \in Versions
              /\ upd.left \subseteq Fields
BY DEF UpdaterInv, Filling, IdleUpdater

\* Such a step changes nothing but the goroutine, which may enter.
LEMMA TestStep ==
  ASSUME LInv, NEW r \in Readers, NEW c,
         rd' = [rd EXCEPT ![r] = c], UNCHANGED <<how, heap, ptr, upd, replaced, current>>,
         seen' \in [Readers -> SUBSET Versions], \A q \in Readers \ {r} : seen'[q] = seen[q],
         c.pc \notin {"idle", "call"} =>
           \/ r \in Inside /\ c.obj = rd[r].obj
           \/ c.obj = ptr /\ (how = "inPlace" => upd.pc = "idle"),
         ReaderInv(r)'
  PROVE  LInv'
<1>1. /\ rd = [q \in Readers |-> rd[q]] /\ rd'[r] = c
      /\ \A q \in Readers \ {r} : rd'[q] = rd[q]
      /\ rd' = [q \in Readers |-> rd'[q]]
  <2>1. rd = [q \in Readers |-> rd[q]]
    BY DEF LInv, StateTypes
  <2> QED
    BY <2>1
<1>2. Inside' \subseteq Inside \cup {r} /\ (r \in Inside' <=> c.pc \notin {"idle", "call"})
  BY <1>1 DEF Inside
<1>3. StateTypes'
  BY <1>1 DEF LInv, StateTypes
<1>4. UpdaterInv'
  <2>1. CASE upd = IdleUpdater
    BY <2>1 DEF UpdaterInv, IdleUpdater
  <2>2. CASE upd # IdleUpdater
    <3>1. /\ Filling /\ upd.obj # ptr /\ \A q \in Inside : rd[q].obj # upd.obj
          /\ heap[upd.obj] = Holding(upd.version, upd.version.keys \ upd.todo)
          /\ upd.todo \subseteq upd.version.keys
          /\ how = "inPlace" => Inside = {}
          /\ upd.left # Fields => how = "inPlace" /\ upd.todo = {}
      BY <2>2 DEF LInv, UpdaterInv
    <3>2. upd.pc = "fill"
      BY <3>1 DEF Filling
    <3>3. \A q \in Inside' : rd'[q].obj # upd.obj
      <4>1. TAKE q \in Inside'
      <4>2. CASE q = r
        BY <1>1, <1>2, <3>1, <4>2
      <4>3. CASE q # r
        BY <1>1, <1>2, <3>1, <4>3 DEF Inside
      <4> QED
        BY <4>2, <4>3
    <3>4. how = "inPlace" => Inside' = {}
      BY <1>2, <3>1, <3>2
    <3>5. Filling'
      BY <3>1 DEF Filling
    <3> QED
      BY <3>1, <3>3, <3>4, <3>5 DEF UpdaterInv
  <2> QED
    BY <2>1, <2>2
<1>5. InUseInv'
  BY DEF LInv, InUseInv
<1>6. \A q \in Readers : ReaderInv(q)'
  <2>1. TAKE q \in Readers
  <2>2. CASE q = r
    BY <2>2
  <2>3. CASE q # r
    <3>1. rd'[q] = rd[q] /\ seen'[q] = seen[q] /\ ReaderInv(q) /\ (q \in Inside' <=> q \in Inside)
      BY <1>1, <2>3 DEF LInv, Inside
    <3>2. \A v : TestsVersion(q, v) => TestsVersion(q, v)'
      BY <3>1 DEF TestsVersion
    <3> QED
      BY <3>1, <3>2 DEF ReaderInv
  <2> QED
    BY <2>2, <2>3
<1> QED
  BY <1>3, <1>4, <1>5, <1>6 DEF LInv

LEMMA CallLInv ==
  ASSUME LInv, NEW r \in Readers, NEW key \in Keys, Call(r, key)
  PROVE  LInv'
<1>1. /\ rd' = [rd EXCEPT ![r] = [pc |-> "call", key |-> key]]
      /\ seen' = [seen EXCEPT ![r] = {current}]
      /\ UNCHANGED <<how, heap, ptr, upd, replaced, current>>
  BY DEF Call
<1>2. rd = [q \in Readers |-> rd[q]] /\ seen \in [Readers -> SUBSET Versions] /\ current \in Versions
  BY DEF LInv, StateTypes
<1>3. seen' \in [Readers -> SUBSET Versions] /\ \A q \in Readers \ {r} : seen'[q] = seen[q]
  BY <1>1, <1>2
<1>4. rd'[r] = [pc |-> "call", key |-> key] /\ seen'[r] = {current}
  BY <1>1, <1>2
<1>5. ReaderInv(r)'
  BY <1>1, <1>4 DEF ReaderInv, Inside
<1> QED
  BY <1>1, <1>3, <1>5, TestStep

\* Who may enter finds the current version whole.
LEMMA FindsWhole ==
  ASSUME LInv, NEW r \in Readers, Enter(r)
  PROVE  heap[ptr] = Whole(current)
<1>1. MayEnter
  BY DEF Enter
<1>2. \A field \in Fields : heap[ptr][field] = Whole(current)[field]
  BY <1>1, UpdaterTypes DEF LInv, UpdaterInv, InUseInv, MayEnter, IdleUpdater
<1>3. heap[ptr] \in Memory /\ Whole(current) \in Memory
  BY HoldingFields DEF Whole, LInv, StateTypes
<1> QED
  BY <1>2, <1>3, SameFields

LEMMA EnterLInv ==
  ASSUME LInv, NEW r \in Readers, Enter(r)
  PROVE  LInv'
<1> DEFINE c == [pc |-> "locate", key |-> rd[r].key, obj |-> ptr]
<1>1. /\ rd[r].pc = "call" /\ MayEnter
      /\ rd' = [rd EXCEPT ![r] = c]
      /\ UNCHANGED <<how, heap, ptr, upd, replaced, current, seen>>
  BY DEF Enter
<1>2. /\ rd = [q \in Readers |-> rd[q]] /\ seen \in [Readers -> SUBSET Versions]
      /\ current \in Versions /\ ptr \in Objs /\ heap \in [Objs -> Memory]
  BY DEF LInv, StateTypes
<1>3. rd[r].key \in Keys /\ current \in seen[r]
  BY <1>1 DEF LInv, ReaderInv
<1>4. heap[ptr] = Whole(current)
  BY FindsWhole
<1>5. rd'[r] = c
  BY <1>1, <1>2
<1>6. TestsVersion(r, current)'
  BY <1>1, <1>4, <1>5 DEF TestsVersion, Whole
<1>7. ReaderInv(r)'
  BY <1>1, <1>2, <1>3, <1>5, <1>6 DEF ReaderInv
<1>8. c.pc \notin {"idle", "call"} => c.obj = ptr /\ (how = "inPlace" => upd.pc = "idle")
  BY <1>1 DEF MayEnter
<1> QED
  BY <1>1, <1>2, <1>7, <1>8, TestStep

LEMMA LocateLInv ==
  ASSUME LInv, NEW r \in Readers, Locate(r)
  PROVE  LInv'
<1> DEFINE f == heap[rd[r].obj]
           c == [pc |-> "look", key |-> rd[r].key, obj |-> rd[r].obj, i |-> 0,
                 at |-> BlockOffsetHash(f, Hash[f.seed][rd[r].key])]
<1>1. /\ rd[r].pc = "locate"
      /\ rd' = [rd EXCEPT ![r] = c]
      /\ UNCHANGED <<how, heap, ptr, upd, replaced, current, seen>>
  BY DEF Locate
<1>2. rd = [q \in Readers |-> rd[q]] /\ seen \in [Readers -> SUBSET Versions]
  BY DEF LInv, StateTypes
<1>3. r \in Inside
  BY <1>1 DEF Inside
<1>4. rd[r].key \in Keys /\ rd[r].obj \in Objs /\ \E v \in seen[r] : TestsVersion(r, v)
  BY <1>1, <1>3 DEF LInv, ReaderInv
<1>5. PICK v \in seen[r] : TestsVersion(r, v)
  BY <1>4
<1>6. v \in Versions /\ f = Whole(v)
  BY <1>2, <1>5 DEF TestsVersion
<1>7. c.at = At(v, rd[r].key)[0]
  BY <1>4, <1>6, LocatesWalk
<1>8. /\ c.pc = "look" /\ c.key = rd[r].key /\ c.obj = rd[r].obj /\ c.i = 0
  OBVIOUS
<1> HIDE DEF c
<1>9. rd'[r] = c
  BY <1>1, <1>2
<1>10. v.shape.k \in Nat
  BY <1>6, VersionFacts
<1>11. TestsVersion(r, v)'
  <2>1. heap'[rd'[r].obj] = Whole(v)
    BY <1>1, <1>6, <1>8, <1>9
  <2>2. /\ rd'[r].i \in 0 .. v.shape.k /\ rd'[r].pc = "look"
        /\ rd'[r].at = At(v, rd'[r].key)[rd'[r].i]
        /\ \A j \in 0 .. rd'[r].i - 1 : IsMarked(v, At(v, rd'[r].key)[j])
    BY <1>7, <1>8, <1>9, <1>10
  <2> QED
    BY <2>1, <2>2 DEF TestsVersion
<1>12. ReaderInv(r)'
  BY <1>1, <1>4, <1>5, <1>8, <1>9, <1>11 DEF ReaderInv
<1> QED
  BY <1>1, <1>2, <1>3, <1>8, <1>12, TestStep

\* A turn of the probe loop in a whole filter of a version.
LEMMA LookLInv ==
  ASSUME LInv, NEW r \in Readers, Look(r)
  PROVE  LInv'
<1> DEFINE f == heap[rd[r].obj]
           s == rd[r].at
           i == rd[r].i
           c == IF i >= f.k THEN Ended(r, "done", TRUE)
                ELSE IF WordOf(s) \notin DOMAIN f.blocks THEN Ended(r, "panic", FALSE)
                ELSE IF BitOf(s) \notin f.blocks[WordOf(s)] THEN Ended(r, "done", FALSE)
                ELSE [pc |-> "look", key |-> rd[r].key, obj |-> rd[r].obj,
                      i |-> i + 1, at |-> Advance(s, i)]
<1>1. /\ rd[r].pc = "look"
      /\ rd' = [rd EXCEPT ![r] = c]
      /\ UNCHANGED <<how, heap, ptr, upd, replaced, current, seen>>
  BY DEF Look
<1>2. rd = [q \in Readers |-> rd[q]] /\ seen \in [Readers -> SUBSET Versions]
  BY DEF LInv, StateTypes
<1>3. r \in Inside
  BY <1>1 DEF Inside
<1>4. rd[r].key \in Keys /\ rd[r].obj \in Objs /\ \E v \in seen[r] : TestsVersion(r, v)
  BY <1>1, <1>3 DEF LInv, ReaderInv
<1>5. PICK v \in seen[r] : TestsVersion(r, v)
  BY <1>4
<1> DEFINE key == rd[r].key
<1>6. /\ v \in Versions /\ f = Whole(v) /\ i \in 0 .. v.shape.k /\ s = At(v, key)[i]
      /\ \A j \in 0 .. i - 1 : IsMarked(v, At(v, key)[j])
  BY <1>1, <1>2, <1>5 DEF TestsVersion
<1>7. f.k = v.shape.k /\ v.shape.k \in Nat /\ v.shape \in FilterShape
  <2>1. Whole(v).k = v.shape.k
    BY <1>6, HoldingFields DEF Whole
  <2> QED
    BY <1>6, <2>1, VersionFacts
<1>8. /\ WordOf(s) \in DOMAIN f.blocks
      /\ BitOf(s) \in f.blocks[WordOf(s)] <=> IsMarked(v, s)
  BY <1>4, <1>6, ProbesExist
<1> HIDE DEF f
<1>9. c.key = key /\ c.obj = rd[r].obj /\ c.pc \in {"look", "done"}
  BY <1>8 DEF Ended
<1>10. c.pc = "done" => c.answer = Answer(v, key)
  <2>1. CASE i >= f.k
    <3>1. c = Ended(r, "done", TRUE)
      BY <2>1
    <3>2. i = v.shape.k
      BY <1>6, <1>7, <2>1
    <3>3. Answer(v, key) = TRUE
      BY <1>4, <1>6, <3>2, AnswerIs
    <3> QED
      BY <3>1, <3>3 DEF Ended
  <2>2. CASE ~(i >= f.k) /\ ~IsMarked(v, s)
    <3>1. c = Ended(r, "done", FALSE)
      BY <1>8, <2>2
    <3>2. i \in 0 .. v.shape.k - 1
      BY <1>6, <1>7, <2>2
    <3>3. Answer(v, key) = FALSE
      BY <1>4, <1>6, <2>2, <3>2, AnswerIs
    <3> QED
      BY <3>1, <3>3 DEF Ended
  <2>3. CASE ~(i >= f.k) /\ IsMarked(v, s)
    BY <1>8, <2>3
  <2> QED
    BY <2>1, <2>2, <2>3
<1>11. c.pc = "look" =>
         /\ c.i \in 0 .. v.shape.k /\ c.at = At(v, key)[c.i]
         /\ \A j \in 0 .. c.i - 1 : IsMarked(v, At(v, key)[j])
  <2> SUFFICES ASSUME c.pc = "look"
               PROVE  /\ c.i \in 0 .. v.shape.k /\ c.at = At(v, key)[c.i]
                      /\ \A j \in 0 .. c.i - 1 : IsMarked(v, At(v, key)[j])
    OBVIOUS
  <2>1. /\ ~(i >= f.k) /\ IsMarked(v, s)
        /\ c = [pc |-> "look", key |-> key, obj |-> rd[r].obj, i |-> i + 1, at |-> Advance(s, i)]
    BY <1>8 DEF Ended
  <2> HIDE DEF c
  <2>2. c.i = i + 1 /\ c.at = Advance(s, i)
    BY <2>1
  <2>3. i \in 0 .. v.shape.k - 1 /\ i + 1 \in 0 .. v.shape.k
    BY <1>6, <1>7, <2>1
  <2>4. At(v, key)[i + 1] = Advance(At(v, key)[i], i)
    BY <1>7, <2>3, WalkTurns DEF At
  <2>5. \A j \in 0 .. (i + 1) - 1 : IsMarked(v, At(v, key)[j])
    <3>1. TAKE j \in 0 .. (i + 1) - 1
    <3>2. CASE j = i
      BY <1>6, <2>1, <3>2
    <3>3. CASE j # i
      <4>1. j \in 0 .. i - 1
        BY <2>3, <3>3
      <4> QED
        BY <1>6, <4>1
    <3> QED
      BY <3>2, <3>3
  <2> QED
    BY <1>6, <2>2, <2>3, <2>4, <2>5
<1> HIDE DEF c
<1>12. rd'[r] = c
  BY <1>1, <1>2
<1>13. TestsVersion(r, v)'
  BY <1>1, <1>6, <1>9, <1>10, <1>11, <1>12 DEF TestsVersion, Whole, f
<1>14. ReaderInv(r)'
  BY <1>1, <1>4, <1>5, <1>9, <1>12, <1>13 DEF ReaderInv
<1> QED
  BY <1>1, <1>2, <1>3, <1>9, <1>14, TestStep

LEMMA ReturnLInv ==
  ASSUME LInv, NEW r \in Readers, Return(r)
  PROVE  LInv'
<1>1. /\ rd' = [rd EXCEPT ![r] = IdleReader]
      /\ seen' = [seen EXCEPT ![r] = {}]
      /\ UNCHANGED <<how, heap, ptr, upd, replaced, current>>
  BY DEF Return
<1>2. rd = [q \in Readers |-> rd[q]] /\ seen \in [Readers -> SUBSET Versions]
  BY DEF LInv, StateTypes
<1>3. seen' \in [Readers -> SUBSET Versions] /\ \A q \in Readers \ {r} : seen'[q] = seen[q]
  BY <1>1, <1>2
<1>4. rd'[r] = IdleReader /\ IdleReader.pc = "idle"
  BY <1>1, <1>2 DEF IdleReader
<1>5. ReaderInv(r)'
  BY <1>4 DEF ReaderInv, Inside
<1> QED
  BY <1>1, <1>3, <1>4, <1>5, TestStep

-----------------------------------------------------------------------------
(***************************************************************************)
(* Steps of the updater.                                                   *)
(***************************************************************************)
\* What the updater writes that no goroutine tests is not noticed.
LEMMA ReadersUndisturbed ==
  ASSUME LInv, UNCHANGED <<rd, current, seen>>,
         \A q \in Inside : heap'[rd[q].obj] = heap[rd[q].obj]
  PROVE  \A q \in Readers : ReaderInv(q)'
<1>1. TAKE q \in Readers
<1>2. ReaderInv(q) /\ (q \in Inside' <=> q \in Inside)
  BY DEF LInv, Inside
<1>3. ASSUME q \in Inside, NEW v, TestsVersion(q, v)
      PROVE  TestsVersion(q, v)'
  BY <1>3 DEF TestsVersion
<1> QED
  BY <1>2, <1>3 DEF ReaderInv

\* A new version is one more that a call in progress may answer for.
LEMMA ReadersSeeNew ==
  ASSUME LInv, upd.version \in Versions, NewVersion, UNCHANGED <<heap, rd>>
  PROVE  /\ \A q \in Readers : ReaderInv(q)'
         /\ current' \in Versions /\ seen' \in [Readers -> SUBSET Versions]
<1>1. /\ current' = upd.version
      /\ seen' = [q \in Readers |-> IF rd[q].pc = "idle" THEN {} ELSE seen[q] \cup {upd.version}]
      /\ seen \in [Readers -> SUBSET Versions]
  BY DEF NewVersion, LInv, StateTypes
<1>2. \A q \in Readers : ReaderInv(q)'
  <2>1. TAKE q \in Readers
  <2>2. ReaderInv(q) /\ (q \in Inside' <=> q \in Inside)
    BY DEF LInv, Inside
  <2>3. rd[q].pc # "idle" => seen'[q] = seen[q] \cup {upd.version}
    BY <1>1
  <2>4. q \in Inside => rd[q].pc # "idle"
    BY DEF Inside
  <2>5. ASSUME NEW v, TestsVersion(q, v) PROVE TestsVersion(q, v)'
    BY <2>5 DEF TestsVersion
  <2> QED
    BY <1>1, <2>2, <2>3, <2>4, <2>5 DEF ReaderInv
<1> QED
  BY <1>1, <1>2

LEMMA BeginLInv ==
  ASSUME LInv, NEW v \in Versions, NEW o \in Objs, Begin(v, o)
  PROVE  LInv'
<1>1. /\ upd.pc = "idle" /\ (how = "inPlace" => Inside = {}) /\ o \in Unused
      /\ heap' = [heap EXCEPT ![o] = Holding(v, {})]
      /\ upd' = [pc |-> "fill", obj |-> o, todo |-> v.keys, version |-> v, left |-> Fields]
      /\ UNCHANGED <<how, ptr, rd, current, seen>>
  BY DEF Begin
<1>2. StateTypes
  BY DEF LInv
<1>3. o # ptr /\ (\A q \in Inside : rd[q].obj # o)
  BY <1>1 DEF Unused
<1>4. Holding(v, {}) \in Memory
  BY HoldingFields
<1>5. /\ heap' \in [Objs -> Memory] /\ heap'[o] = Holding(v, {})
      /\ \A p \in Objs \ {o} : heap'[p] = heap[p]
  BY <1>1, <1>2, <1>4 DEF StateTypes
<1>6. \A q \in Inside : heap'[rd[q].obj] = heap[rd[q].obj]
  BY <1>3, <1>5 DEF LInv, ReaderInv, Inside
<1>7. UpdaterInv'
  <2>1. Filling'
    BY <1>1, VersionFacts DEF Filling
  <2>2. Inside' = Inside /\ v.keys \ v.keys = {}
    BY <1>1 DEF Inside
  <2>3. heap'[upd'.obj] = Holding(v, v.keys \ v.keys)
    BY <1>1, <1>5, <2>2
  <2>4. upd'.version = v /\ upd'.todo = v.keys /\ upd'.left = Fields /\ upd'.obj = o
    BY <1>1
  <2> QED
    BY <1>1, <1>3, <2>1, <2>2, <2>3, <2>4 DEF UpdaterInv
<1>8. InUseInv'
  <2>1. heap'[ptr] = heap[ptr] /\ upd'.left = Fields
    BY <1>1, <1>2, <1>3, <1>5 DEF StateTypes
  <2> QED
    BY <1>1, <2>1 DEF LInv, InUseInv, Whole
<1>9. \A q \in Readers : ReaderInv(q)'
  BY <1>1, <1>6, ReadersUndisturbed
<1>10. StateTypes'
  BY <1>1, <1>2, <1>5 DEF StateTypes
<1> QED
  BY <1>7, <1>8, <1>9, <1>10 DEF LInv

\* The invariant of an updater at work, with its parts.
LEMMA AtWork ==
  ASSUME LInv, upd.pc = "fill"
  PROVE  /\ upd.obj \in Objs \ {ptr} /\ upd.version \in Versions
         /\ upd.todo \subseteq upd.version.keys /\ upd.todo \subseteq Keys
         /\ upd.left \subseteq Fields /\ Filling
         /\ \A r \in Inside : rd[r].obj # upd.obj
         /\ heap[upd.obj] = Holding(upd.version, upd.version.keys \ upd.todo)
         /\ how = "inPlace" => Inside = {}
         /\ upd.left # Fields => how = "inPlace" /\ upd.todo = {}
         /\ upd.todo = {} => heap[upd.obj] = Whole(upd.version)
<1>1. upd # IdleUpdater
  BY DEF IdleUpdater
<1>2. /\ Filling /\ upd.obj # ptr /\ \A r \in Inside : rd[r].obj # upd.obj
      /\ heap[upd.obj] = Holding(upd.version, upd.version.keys \ upd.todo)
      /\ upd.todo \subseteq upd.version.keys
      /\ how = "inPlace" => Inside = {}
      /\ upd.left # Fields => how = "inPlace" /\ upd.todo = {}
  BY <1>1 DEF LInv, UpdaterInv
<1>3. upd.todo = {} => heap[upd.obj] = Whole(upd.version)
  <2>1. upd.version.keys \ {} = upd.version.keys
    OBVIOUS
  <2> QED
    BY <1>2, <2>1 DEF Whole
<1>4. upd.obj \in Objs /\ upd.version \in Versions /\ upd.todo \subseteq Keys /\ upd.left \subseteq Fields
  BY <1>2 DEF Filling
<1> QED
  BY <1>2, <1>3, <1>4

LEMMA FillLInv ==
  ASSUME LInv, NEW key \in Keys, Fill(key)
  PROVE  LInv'
<1>1. /\ upd.pc = "fill" /\ key \in upd.todo
      /\ heap' = [heap EXCEPT ![upd.obj] = WithKey(heap[upd.obj], key)]
      /\ upd' = [upd EXCEPT !.todo = upd.todo \ {key}]
      /\ UNCHANGED <<how, ptr, rd, current, seen>>
  BY DEF Fill
<1> DEFINE v == upd.version
           S == upd.version.keys \ (upd.todo \ {key})
<1>2. StateTypes
  BY DEF LInv
<1>3. /\ upd.obj \in Objs \ {ptr} /\ v \in Versions /\ Filling
      /\ upd.todo \subseteq v.keys
      /\ \A r \in Inside : rd[r].obj # upd.obj
      /\ heap[upd.obj] = Holding(v, v.keys \ upd.todo)
      /\ how = "inPlace" => Inside = {}
      /\ upd.left = Fields
  BY <1>1, AtWork
<1>4. /\ upd' = [pc |-> "fill", obj |-> upd.obj, todo |-> upd.todo \ {key}, version |-> v,
                left |-> Fields]
      /\ Filling'
  BY <1>1, <1>3 DEF Filling
<1>5. S = (v.keys \ upd.todo) \cup {key}
  BY <1>1, <1>3
<1>6. heap'[upd.obj] = Holding(v, S) /\ Holding(v, S) \in Memory
  <2>1. heap'[upd.obj] = WithKey(Holding(v, v.keys \ upd.todo), key)
    BY <1>1, <1>2, <1>3 DEF StateTypes
  <2>2. WithKey(Holding(v, v.keys \ upd.todo), key) = Holding(v, S)
    BY <1>3, <1>5, AddsKey
  <2>3. Holding(v, S) \in Memory
    BY <1>3, HoldingFields
  <2> QED
    BY <2>1, <2>2, <2>3
<1>7. heap' \in [Objs -> Memory] /\ \A p \in Objs \ {upd.obj} : heap'[p] = heap[p]
  <2>1. WithKey(heap[upd.obj], key) \in Memory
    BY <1>1, <1>2, <1>3, <1>6 DEF StateTypes
  <2> QED
    BY <1>1, <1>2, <2>1 DEF StateTypes
<1>8. UpdaterInv'
  <2>1. Inside' = Inside
    BY <1>1 DEF Inside
  <2>2. /\ upd'.obj = upd.obj /\ upd'.todo = upd.todo \ {key} /\ upd'.version = v
        /\ upd'.left = Fields
    BY <1>4
  <2>3. upd'.todo \subseteq v.keys
    BY <1>3, <2>2
  <2> QED
    BY <1>1, <1>3, <1>4, <1>6, <2>1, <2>2, <2>3 DEF UpdaterInv
<1>9. InUseInv'
  <2>1. heap'[ptr] = heap[ptr] /\ upd'.left = Fields
    BY <1>2, <1>3, <1>4, <1>7 DEF StateTypes
  <2> QED
    BY <1>1, <1>3, <2>1 DEF LInv, InUseInv, Whole
<1>10. \A q \in Readers : ReaderInv(q)'
  <2>1. \A q \in Inside : heap'[rd[q].obj] = heap[rd[q].obj]
    BY <1>3, <1>7 DEF LInv, ReaderInv, Inside
  <2> QED
    BY <1>1, <2>1, ReadersUndisturbed
<1>11. StateTypes'
  BY <1>1, <1>2, <1>7 DEF StateTypes
<1> QED
  BY <1>8, <1>9, <1>10, <1>11 DEF LInv

\* An updater that is done, or gives up, leaves a whole version in use.
LEMMA SwapLInv ==
  ASSUME LInv, Swap
  PROVE  LInv'
<1>1. /\ how = "swap" /\ upd.pc = "fill" /\ upd.todo = {}
      /\ ptr' = upd.obj /\ upd' = IdleUpdater /\ NewVersion
      /\ UNCHANGED <<how, heap, rd, replaced>>
  BY DEF Swap
<1>2. upd.obj \in Objs /\ upd.version \in Versions /\ heap[upd.obj] = Whole(upd.version)
  BY <1>1, AtWork
<1>3. /\ \A q \in Readers : ReaderInv(q)'
      /\ current' \in Versions /\ seen' \in [Readers -> SUBSET Versions]
  BY <1>1, <1>2, ReadersSeeNew
<1>4. StateTypes'
  BY <1>1, <1>2, <1>3 DEF LInv, StateTypes
<1>5. UpdaterInv'
  BY <1>1 DEF UpdaterInv, IdleUpdater
<1>6. InUseInv'
  <2>1. heap'[ptr'] = Whole(current)' /\ upd'.pc # "fill"
    BY <1>1, <1>2 DEF NewVersion, IdleUpdater, Whole
  <2> QED
    BY <2>1 DEF InUseInv
<1> QED
  BY <1>3, <1>4, <1>5, <1>6 DEF LInv

LEMMA UnlockLInv ==
  ASSUME LInv, Unlock
  PROVE  LInv'
<1>1. /\ how = "inPlace" /\ upd.pc = "fill" /\ upd.todo = {} /\ upd.left = {}
      /\ upd' = IdleUpdater /\ NewVersion
      /\ UNCHANGED <<how, heap, ptr, rd, replaced>>
  BY DEF Unlock
<1>2. upd.obj \in Objs /\ upd.version \in Versions /\ heap[upd.obj] = Whole(upd.version)
  BY <1>1, AtWork
<1>3. /\ \A q \in Readers : ReaderInv(q)'
      /\ current' \in Versions /\ seen' \in [Readers -> SUBSET Versions]
  BY <1>1, <1>2, ReadersSeeNew
<1>4. StateTypes'
  BY <1>1, <1>3 DEF LInv, StateTypes
<1>5. UpdaterInv'
  BY <1>1 DEF UpdaterInv, IdleUpdater
<1>6. InUseInv'
  <2>1. \A field \in Fields : heap[ptr][field] = Whole(upd.version)[field]
    BY <1>1, <1>2 DEF LInv, InUseInv
  <2>2. heap' = heap /\ ptr' = ptr /\ current' = upd.version /\ upd'.pc # "fill"
    BY <1>1 DEF NewVersion, IdleUpdater
  <2> QED
    BY <2>1, <2>2 DEF InUseInv, Whole
<1> QED
  BY <1>3, <1>4, <1>5, <1>6 DEF LInv

LEMMA AbandonLInv ==
  ASSUME LInv, Abandon
  PROVE  LInv'
<1>1. /\ upd.pc = "fill" /\ upd.left = Fields /\ upd' = IdleUpdater
      /\ UNCHANGED <<how, heap, ptr, rd, replaced, current, seen>>
  BY DEF Abandon
<1>2. StateTypes'
  BY <1>1 DEF LInv, StateTypes
<1>3. UpdaterInv'
  BY <1>1 DEF UpdaterInv, IdleUpdater
<1>4. InUseInv'
  <2>1. \A field \in Fields : heap[ptr][field] = Whole(current)[field]
    BY <1>1 DEF LInv, InUseInv
  <2>2. upd'.pc # "fill"
    BY <1>1 DEF IdleUpdater
  <2> QED
    BY <1>1, <2>1, <2>2 DEF InUseInv, Whole
<1>5. \A q \in Readers : ReaderInv(q)'
  BY <1>1, ReadersUndisturbed
<1> QED
  BY <1>2, <1>3, <1>4, <1>5 DEF LInv

\* A field is copied while nobody is inside.
LEMMA CopyLInv ==
  ASSUME LInv, NEW field \in Fields, Copy(field)
  PROVE  LInv'
<1> DEFINE g == heap[upd.obj]
<1>1. /\ how = "inPlace" /\ upd.pc = "fill" /\ upd.todo = {} /\ field \in upd.left
      /\ heap' = [heap EXCEPT ![ptr][field] = heap[upd.obj][field]]
      /\ upd' = [upd EXCEPT !.left = upd.left \ {field}]
      /\ UNCHANGED <<how, ptr, rd, replaced, current, seen>>
  BY DEF Copy
<1>2. ptr \in Objs /\ heap \in [Objs -> Memory] /\ StateTypes
  BY DEF LInv, StateTypes
<1>3. /\ upd.obj \in Objs \ {ptr} /\ Filling /\ Inside = {}
      /\ upd.version \in Versions /\ upd.left \subseteq Fields
      /\ g = Holding(upd.version, upd.version.keys \ upd.todo)
  BY <1>1, AtWork
<1>4. /\ upd' = [pc |-> "fill", obj |-> upd.obj, todo |-> {}, version |-> upd.version,
                left |-> upd.left \ {field}]
      /\ Filling'
  BY <1>1, <1>3 DEF Filling
<1>5. g \in Memory /\ heap[ptr] \in Memory
  BY <1>2, <1>3
<1>6. /\ heap'[ptr] = [heap[ptr] EXCEPT ![field] = g[field]]
      /\ \A p \in Objs \ {ptr} : heap'[p] = heap[p]
  BY <1>1, <1>2
<1>7. heap'[ptr] \in Memory
  BY <1>5, <1>6 DEF Memory, Fields
<1>8. /\ heap'[ptr][field] = g[field]
      /\ \A other \in Fields \ {field} : heap'[ptr][other] = heap[ptr][other]
  <2>1. DOMAIN heap[ptr] = Fields
    BY <1>5 DEF Memory, Fields
  <2> HIDE DEF g
  <2> QED
    BY <1>6, <2>1, Zenon
<1>9. StateTypes'
  <2>1. heap' = [p \in Objs |-> heap'[p]]
    BY <1>1, <1>2
  <2>2. heap' \in [Objs -> Memory]
    BY <1>2, <1>6, <1>7, <2>1
  <2> QED
    BY <1>1, <1>2, <2>2 DEF StateTypes
<1>10. UpdaterInv'
  <2>1. Inside' = {}
    BY <1>1, <1>3 DEF Inside
  <2>2. /\ upd'.obj = upd.obj /\ upd'.todo = {} /\ upd'.version = upd.version
    BY <1>4
  <2>3. heap'[upd.obj] = Holding(upd.version, upd.version.keys \ {})
    BY <1>1, <1>3, <1>6
  <2>4. how' = "inPlace" /\ ptr' = ptr
    BY <1>1
  <2> QED
    BY <1>3, <1>4, <2>1, <2>2, <2>3, <2>4 DEF UpdaterInv
<1>11. InUseInv'
  <2>1. /\ upd'.pc = "fill" /\ upd'.left = upd.left \ {field} /\ upd'.obj = upd.obj
        /\ heap'[upd.obj] = g
    BY <1>3, <1>4, <1>6
  <2>2. SUFFICES ASSUME NEW other \in Fields
                 PROVE  heap'[ptr][other] = IF other \notin upd'.left THEN g[other]
                                            ELSE Whole(current)[other]
    BY <1>1, <2>1 DEF InUseInv, Whole
  <2>3. CASE other = field
    BY <1>8, <2>1, <2>3
  <2>4. CASE other # field
    <3>1. heap[ptr][other] = IF other \notin upd.left THEN g[other] ELSE Whole(current)[other]
      BY <1>1 DEF LInv, InUseInv
    <3>2. other \notin upd'.left <=> other \notin upd.left
      BY <2>1, <2>4
    <3> QED
      BY <1>8, <2>4, <3>1, <3>2
  <2> QED
    BY <2>3, <2>4
<1>12. \A q \in Readers : ReaderInv(q)'
  BY <1>1, <1>3, ReadersUndisturbed
<1> QED
  BY <1>9, <1>10, <1>11, <1>12 DEF LInv

LEMMA NextLInv == LInv /\ [Next]_vars => LInv'
<1> SUFFICES ASSUME LInv, [Next]_vars PROVE LInv'
  OBVIOUS
<1>1. CASE UNCHANGED vars
  <2>1. UNCHANGED <<how, heap, ptr, upd, rd, replaced, current, seen>>
    BY <1>1 DEF vars
  <2>2. \A q \in Readers : ReaderInv(q)'
    BY <2>1, ReadersUndisturbed
  <2>3. StateTypes' /\ InUseInv'
    BY <2>1 DEF LInv, StateTypes, InUseInv, Whole
  <2>4. UpdaterInv'
    BY <2>1 DEF LInv, UpdaterInv, Inside, Filling
  <2> QED
    BY <2>2, <2>3, <2>4 DEF LInv
<1>2. CASE Update
  BY <1>2, BeginLInv, FillLInv, CopyLInv, SwapLInv, UnlockLInv, AbandonLInv DEF Update
<1>3. ASSUME NEW r \in Readers, Step(r) \/ \E key \in Keys : Call(r, key) PROVE LInv'
  BY <1>3, CallLInv, EnterLInv, LocateLInv, LookLInv, ReturnLInv DEF Step
<1> QED
  BY <1>1, <1>2, <1>3 DEF Next

-----------------------------------------------------------------------------
\* The inductive invariant holds in every reachable state.
THEOREM LiveInvariance == Spec => []LInv
BY InitLInv, NextLInv, PTL DEF Spec

(***************************************************************************)
(* Filters in memory keep their types, and what the updater fills is never *)
(* what somebody tests.                                                    *)
(***************************************************************************)
THEOREM LiveTypeCorrect == Spec => []TypeOK
<1>1. LInv => TypeOK
  <2> SUFFICES ASSUME LInv PROVE TypeOK
    OBVIOUS
  <2>1. /\ how \in {"swap", "inPlace"} /\ ptr \in Objs /\ current \in Versions
        /\ heap \in [Objs -> Memory] /\ seen \in [Readers -> SUBSET Versions]
    BY DEF LInv, StateTypes
  <2>2. upd.pc = "fill" => /\ upd.obj \in Objs \ ({ptr} \cup {rd[r].obj : r \in Inside})
                           /\ upd.todo \subseteq Keys /\ upd.left \subseteq Fields
    <3> SUFFICES ASSUME upd.pc = "fill"
                 PROVE  /\ upd.obj \in Objs \ ({ptr} \cup {rd[r].obj : r \in Inside})
                        /\ upd.todo \subseteq Keys /\ upd.left \subseteq Fields
      OBVIOUS
    <3> QED
      BY AtWork
  <2>3. \A r \in Readers : rd[r].pc \in {"idle", "call", "locate", "look", "done", "panic"}
    BY DEF LInv, ReaderInv
  <2>4. \A r \in Inside : rd[r].obj \in Objs
    BY DEF LInv, ReaderInv, Inside
  <2> QED
    BY <2>1, <2>2, <2>3, <2>4 DEF TypeOK
<1> QED
  BY <1>1, LiveInvariance, PTL

\* No test pairs the array of one version with the block count of another.
THEOREM NeverOutOfRange == Spec => []NoIndexOutOfRange
<1>1. LInv => NoIndexOutOfRange
  BY DEF LInv, ReaderInv, NoIndexOutOfRange
<1> QED
  BY <1>1, LiveInvariance, PTL

(***************************************************************************)
(* Replacement is atomic: each answer is that of a version in use during   *)
(* the call.                                                               *)
(***************************************************************************)
LEMMA OneVersion == LInv => AnswersOfOneVersion
<1> SUFFICES ASSUME LInv, NEW r \in Readers, rd[r].pc = "done"
             PROVE  \E v \in seen[r] : rd[r].answer = Answer(v, rd[r].key)
  BY DEF AnswersOfOneVersion
<1>1. r \in Inside /\ ReaderInv(r)
  BY DEF Inside, LInv
<1>2. \E v \in seen[r] : TestsVersion(r, v)
  BY <1>1 DEF ReaderInv
<1> QED
  BY <1>2 DEF TestsVersion

\* THEOREM: whatever is replaced while it runs, every finished test answered
\* as one version in use during the call.
THEOREM ReplacedAtomically == Spec => []AnswersOfOneVersion
BY OneVersion, LiveInvariance, PTL

(***************************************************************************)
(* A key that no version in use during the call lacks is found.            *)
(***************************************************************************)
THEOREM NoneMissedOnReplacing == Spec => []NoFalseNegatives
<1>1. LInv => NoFalseNegatives
  <2> SUFFICES ASSUME LInv, NEW r \in Readers, rd[r].pc = "done",
                      \A v \in seen[r] : rd[r].key \in v.keys
               PROVE  rd[r].answer
    BY DEF NoFalseNegatives
  <2>1. PICK v \in seen[r] : rd[r].answer = Answer(v, rd[r].key)
    BY OneVersion DEF AnswersOfOneVersion
  <2>2. v \in Versions /\ rd[r].key \in Keys
    BY DEF LInv, StateTypes, ReaderInv
  <2>3. Answer(v, rd[r].key) = TRUE
    BY <2>1, <2>2, AnswerIs
  <2> QED
    BY <2>1, <2>3
<1> QED
  BY <1>1, LiveInvariance, PTL

-----------------------------------------------------------------------------
(***************************************************************************)
(* Replacement as one step: what a whole filter in memory would answer is  *)
(* the answer of its version.                                              *)
(***************************************************************************)
LEMMA WholeAnswers ==
  ASSUME NEW v \in Versions, NEW key \in Keys
  PROVE  AnswerOf(Whole(v), key) = Answer(v, key)
<1> DEFINE f == Whole(v)
           P == Positions(v.shape, Hash[v.seed][key])
<1>1. /\ f.seed = v.seed
      /\ [numBlocks |-> f.numBlocks, k |-> f.k, fastrange |-> f.fastrange] = v.shape
  BY HoldingFields, VersionFacts DEF Whole
<1>2. Places[v.shape][v.seed][key] = P
  <2>1. /\ v.shape.numBlocks \in {u.shape.numBlocks : u \in Versions}
        /\ v.shape.k \in {u.shape.k : u \in Versions}
    OBVIOUS
  <2>2. \A A, B, C : \A a \in A, b \in B, c \in C :
          [numBlocks |-> a, k |-> b, fastrange |-> c] \in [numBlocks : A, k : B, fastrange : C]
    OBVIOUS
  <2>3. [numBlocks |-> v.shape.numBlocks, k |-> v.shape.k, fastrange |-> v.shape.fastrange]
          \in Shapes
    BY <2>1, <2>2, VersionFacts, Zenon DEF Shapes
  <2>4. v.shape \in Shapes /\ v.seed \in Seeds
    BY <2>3, VersionFacts
  <2> QED
    BY <2>4 DEF Places
<1>3. P = {<<WordOf(At(v, key)[i]), BitOf(At(v, key)[i])>> : i \in 0 .. v.shape.k - 1}
  BY DEF Positions, At
<1> HIDE DEF P, f
<1>4. AnswerOf(f, key) <=> \A p \in P : p[1] \in DOMAIN f.blocks /\ p[2] \in f.blocks[p[1]]
  BY <1>1, <1>2 DEF AnswerOf
<1>5. \A i \in 0 .. v.shape.k - 1 :
        /\ WordOf(At(v, key)[i]) \in DOMAIN f.blocks
        /\ BitOf(At(v, key)[i]) \in f.blocks[WordOf(At(v, key)[i])] <=> IsMarked(v, At(v, key)[i])
  <2>1. TAKE i \in 0 .. v.shape.k - 1
  <2>2. i \in 0 .. v.shape.k
    <3>1. v.shape.k \in Nat
      BY VersionFacts
    <3> QED
      BY <3>1
  <2> QED
    BY <2>2, ProbesExist DEF f
<1>6. AnswerOf(f, key) <=> Answer(v, key)
  <2>1. ASSUME \A p \in P : p[1] \in DOMAIN f.blocks /\ p[2] \in f.blocks[p[1]],
               NEW i \in 0 .. v.shape.k - 1
        PROVE  IsMarked(v, At(v, key)[i])
    <3>1. <<WordOf(At(v, key)[i]), BitOf(At(v, key)[i])>> \in P
      BY <1>3
    <3> QED
      BY <2>1, <3>1, <1>5
  <2>2. ASSUME \A i \in 0 .. v.shape.k - 1 : IsMarked(v, At(v, key)[i]), NEW p \in P
        PROVE  p[1] \in DOMAIN f.blocks /\ p[2] \in f.blocks[p[1]]
    <3>1. PICK i \in 0 .. v.shape.k - 1 :
            p = <<WordOf(At(v, key)[i]), BitOf(At(v, key)[i])>>
      BY <1>3
    <3>2. p[1] = WordOf(At(v, key)[i]) /\ p[2] = BitOf(At(v, key)[i])
      BY <3>1
    <3> QED
      BY <2>2, <3>2, <1>5
  <2>3. AnswerOf(f, key) <=> \A i \in 0 .. v.shape.k - 1 : IsMarked(v, At(v, key)[i])
    BY <1>4, <2>1, <2>2
  <2> QED
    BY <2>3, AnswerIs
<1>7. AnswerOf(f, key) \in BOOLEAN /\ Answer(v, key) \in BOOLEAN
  BY AnswerIs DEF AnswerOf
<1> QED
  BY <1>6, <1>7 DEF f

(***************************************************************************)
(* From the moment it is inside, a test has the answer that the filter it  *)
(* works on gives, also once it has returned one.                          *)
(***************************************************************************)
Outcome(r) ==
  IF rd[r].pc \in {"idle", "call"} THEN rd[r]
  ELSE [pc |-> "done", key |-> rd[r].key, answer |-> AnswerOf(heap[rd[r].obj], rd[r].key)]

Steady == Decided = [r \in Readers |-> Outcome(r)]

LEMMA TestsSteady == LInv => Steady
<1> SUFFICES ASSUME LInv PROVE Steady
  OBVIOUS
<1>1. ASSUME NEW r \in Readers PROVE Decided[r] = Outcome(r)
  <2>1. CASE rd[r].pc \in {"idle", "call"}
    BY <2>1 DEF Decided, Test, Outcome
  <2>2. CASE rd[r].pc \in {"locate", "look"}
    BY <2>2 DEF Decided, Test, Outcome
  <2>3. CASE rd[r].pc = "done"
    <3>1. r \in Inside /\ ReaderInv(r) /\ seen[r] \subseteq Versions
      BY <2>3 DEF LInv, StateTypes, Inside
    <3>2. PICK v \in Versions : TestsVersion(r, v)
      BY <3>1 DEF ReaderInv
    <3>3. rd[r].key \in Keys
      BY <2>3, <3>1 DEF ReaderInv
    <3>4. heap[rd[r].obj] = Whole(v) /\ rd[r].answer = Answer(v, rd[r].key)
      BY <2>3, <3>2 DEF TestsVersion
    <3>5. rd[r].answer = AnswerOf(heap[rd[r].obj], rd[r].key)
      BY <3>2, <3>3, <3>4, WholeAnswers
    <3> QED
      BY <2>3, <3>5 DEF Decided, Test, Outcome
  <2>4. rd[r].pc \in {"idle", "call", "locate", "look", "done"}
    BY DEF LInv, ReaderInv
  <2> QED
    BY <2>1, <2>2, <2>3, <2>4
<1>2. Decided = [r \in Readers |-> Decided[r]]
  BY DEF Decided
<1> QED
  BY <1>1, <1>2, Zenon DEF Steady

-----------------------------------------------------------------------------
(***************************************************************************)
(* The updater changes no filter that somebody tests, and the version in   *)
(* use only as a whole.                                                    *)
(***************************************************************************)
LEMMA UpdaterAbstract ==
  ASSUME LInv, LInv', Update
  PROVE  rd' = rd /\ current' \in Versions /\ \A q \in Inside : heap'[rd[q].obj] = heap[rd[q].obj]
<1>0. current' \in Versions /\ ptr \in Objs /\ heap = [o \in Objs |-> heap[o]]
  BY DEF LInv, StateTypes
<1>1. ASSUME NEW v \in Versions, NEW o \in Objs, Begin(v, o)
      PROVE  rd' = rd /\ \A q \in Inside : heap'[rd[q].obj] = heap[rd[q].obj]
  <2>1. /\ o \in Unused /\ rd' = rd /\ heap' = [heap EXCEPT ![o] = Holding(v, {})]
    BY <1>1 DEF Begin
  <2>2. \A q \in Inside : rd[q].obj # o
    BY <2>1 DEF Unused
  <2> QED
    BY <1>0, <2>1, <2>2
<1>2. ASSUME NEW key \in Keys, Fill(key)
      PROVE  rd' = rd /\ \A q \in Inside : heap'[rd[q].obj] = heap[rd[q].obj]
  <2>1. /\ upd.pc = "fill" /\ rd' = rd
        /\ heap' = [heap EXCEPT ![upd.obj] = WithKey(heap[upd.obj], key)]
    BY <1>2 DEF Fill
  <2>2. \A q \in Inside : rd[q].obj # upd.obj
    BY <2>1, AtWork
  <2> QED
    BY <1>0, <2>1, <2>2
<1>3. ASSUME NEW field \in Fields, Copy(field)
      PROVE  rd' = rd /\ \A q \in Inside : heap'[rd[q].obj] = heap[rd[q].obj]
  BY <1>3, AtWork DEF Copy
<1>4. CASE Swap \/ Unlock \/ Abandon
  BY <1>0, <1>4 DEF Swap, Unlock, Abandon
<1> QED
  BY <1>0, <1>1, <1>2, <1>3, <1>4 DEF Update

\* A test that is not disturbed keeps its outcome.
LEMMA Undisturbed ==
  ASSUME NEW q, rd'[q] = rd[q],
         rd[q].pc \notin {"idle", "call"} => heap'[rd[q].obj] = heap[rd[q].obj]
  PROVE  Outcome(q)' = Outcome(q)
BY DEF Outcome

(***************************************************************************)
(* A step of a goroutine is a step of its abstract test, or none.          *)
(***************************************************************************)
LEMMA ReaderAbstract ==
  ASSUME LInv, LInv', Steady, Steady', NEW r \in Readers,
         Step(r) \/ \E key \in Keys : Call(r, key)
  PROVE  \/ UNCHANGED <<current, Decided>>
         \/ Abstract!Decide(r) \/ Abstract!Return(r) \/ \E key \in Keys : Abstract!Call(r, key)
<1>0. /\ rd = [q \in Readers |-> rd[q]] /\ current \in Versions
      /\ Decided = [q \in Readers |-> Outcome(q)]
      /\ Decided' = [q \in Readers |-> Outcome(q)']
  BY DEF LInv, StateTypes, Steady
<1>1. UNCHANGED <<heap, current>> /\ \E c : rd' = [rd EXCEPT ![r] = c]
  BY DEF Step, Call, Enter, Locate, Look, Return
<1>2. \A q \in Readers \ {r} : Outcome(q)' = Outcome(q)
  <2>1. \A q \in Readers \ {r} : rd'[q] = rd[q]
    BY <1>0, <1>1
  <2> QED
    BY <1>1, <2>1, Undisturbed
<1>3. Decided' = [Decided EXCEPT ![r] = Outcome(r)']
  BY <1>0, <1>2
<1>4. ASSUME NEW key \in Keys, Call(r, key) PROVE Abstract!Call(r, key)
  <2>1. rd[r].pc = "idle" /\ rd'[r] = [pc |-> "call", key |-> key]
    BY <1>0, <1>4 DEF Call
  <2>2. Decided[r].pc = "idle" /\ Outcome(r)' = [pc |-> "call", key |-> key]
    BY <1>0, <2>1 DEF Outcome
  <2> QED
    BY <1>1, <1>3, <2>2 DEF Abstract!Call
<1>5. CASE Enter(r)
  <2>1. /\ rd[r].pc = "call" /\ rd[r].key \in Keys
        /\ rd'[r] = [pc |-> "locate", key |-> rd[r].key, obj |-> ptr]
    BY <1>0, <1>5 DEF Enter, LInv, ReaderInv
  <2>2. heap[ptr] = Whole(current)
    BY <1>5, FindsWhole
  <2>3. AnswerOf(heap[ptr], rd[r].key) = Verdict[current][rd[r].key]
    BY <1>0, <2>1, <2>2, WholeAnswers DEF Verdict
  <2>4. Outcome(r)' = [pc |-> "done", key |-> rd[r].key, answer |-> Verdict[current][rd[r].key]]
    BY <1>1, <2>1, <2>3 DEF Outcome
  <2>5. Decided[r].pc = "call" /\ Decided[r].key = rd[r].key
    BY <1>0, <2>1 DEF Outcome
  <2> QED
    BY <1>1, <1>3, <2>4, <2>5 DEF Abstract!Decide
<1>6. CASE Locate(r) \/ Look(r)
  <2>1. /\ rd[r].pc \in {"locate", "look"} /\ rd'[r].pc \notin {"idle", "call"}
        /\ rd'[r].key = rd[r].key /\ rd'[r].obj = rd[r].obj
    BY <1>0, <1>6 DEF Locate, Look, Ended
  <2>2. Outcome(r)' = Outcome(r)
    BY <1>1, <2>1 DEF Outcome
  <2> QED
    BY <1>0, <1>1, <1>2, <2>2
<1>7. CASE Return(r)
  <2>1. rd[r].pc = "done" /\ rd'[r] = IdleReader /\ IdleReader = [pc |-> "idle"]
    BY <1>0, <1>7 DEF Return, IdleReader
  <2>2. Decided[r].pc = "done" /\ Outcome(r)' = Abstract!Idle
    BY <1>0, <2>1 DEF Outcome, Abstract!Idle
  <2> QED
    BY <1>1, <1>3, <2>2 DEF Abstract!Return
<1> QED
  BY <1>4, <1>5, <1>6, <1>7 DEF Step

(***************************************************************************)
(* THEOREM: replacing a filter under traffic, field by field under a lock  *)
(* or by a pointer, while tests read it word by word, implements a filter  *)
(* that changes in one step and is tested in one.                          *)
(***************************************************************************)
THEOREM ReplacementIsOneStep == Spec => ReplacesAtomically
<1>1. Init => Abstract!Init
  <2> SUFFICES ASSUME Init PROVE Abstract!Init
    OBVIOUS
  <2>1. \A r \in Readers : rd[r] = IdleReader
    BY DEF Init
  <2>2. Decided = [r \in Readers |-> Abstract!Idle]
    BY <2>1 DEF Decided, Test, IdleReader, Abstract!Idle
  <2> QED
    BY <2>2 DEF Init, Abstract!Init
<1>2. LInv /\ LInv' /\ Steady /\ Steady' /\ [Next]_vars => [Abstract!Next]_<<current, Decided>>
  <2> SUFFICES ASSUME LInv, LInv', Steady, Steady', [Next]_vars
               PROVE  [Abstract!Next]_<<current, Decided>>
    OBVIOUS
  <2>1. CASE UNCHANGED vars
    <3>1. \A q \in Readers : Outcome(q)' = Outcome(q)
      BY <2>1 DEF vars, Outcome
    <3> QED
      BY <2>1, <3>1 DEF vars, Steady
  <2>2. CASE Update
    <3>1. rd' = rd /\ current' \in Versions /\ \A q \in Inside : heap'[rd[q].obj] = heap[rd[q].obj]
      BY <2>2, UpdaterAbstract
    <3>2. \A q \in Readers : Outcome(q)' = Outcome(q)
      BY <3>1, Undisturbed DEF Inside
    <3>3. Decided' = Decided
      BY <3>2 DEF Steady
    <3> QED
      BY <3>1, <3>3 DEF Abstract!Next, Abstract!Replace
  <2>3. ASSUME NEW r \in Readers, Step(r) \/ \E key \in Keys : Call(r, key)
        PROVE  [Abstract!Next]_<<current, Decided>>
    BY <2>3, ReaderAbstract DEF Abstract!Next
  <2> QED
    BY <2>1, <2>2, <2>3 DEF Next
<1> QED
  BY <1>1, <1>2, LiveInvariance, TestsSteady, PTL DEF Spec, ReplacesAtomically, Abstract!Spec
=============================================================================
