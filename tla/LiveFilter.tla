----------------------------- MODULE LiveFilter -----------------------------
(***************************************************************************)
(* A blocked filter replaced under traffic.  The README offers "an         *)
(* external lock or an atomic pointer swap (build a new filter, swap it    *)
(* in)": an updater either calls ReadFrom on the filter in use, which ends *)
(* in *f = *nf (filter_blocked.go), with the callers' RWMutex locked, or   *)
(* fills a filter of its own and swaps a pointer.  Other goroutines test   *)
(* keys meanwhile.                                                         *)
(*                                                                         *)
(* A filter is memory: its fields are copied one at a time, in any order,  *)
(* and a test reads them when the code does, k and a word at every probe.  *)
(* A filter nothing refers to may be allocated again.                      *)
(***************************************************************************)
EXTENDS BlockProbe

CONSTANTS Objs, First,  \* memory for filters, and the first in use
          Readers, Keys,
          Seeds,        \* hash functions with their seeds
          Hash,         \* seed |-> key |-> hash
          Versions,     \* what the updater may put in place
          MaxReplaced   \* bound on the number of replacements

Version == [shape : FilterShape, seed : Seeds, keys : SUBSET Keys]

ASSUME LiveAssumption ==
  /\ Hash \in [Seeds -> [Keys -> HashValue]]
  /\ Versions \subseteq Version /\ First \in Objs
  /\ MaxReplaced \in Nat

VARIABLES how,      \* "swap" or "inPlace"
          heap,     \* the filters in memory
          ptr,      \* the one in use
          upd,      \* the updater
          rd,       \* the readers
          replaced,
          current,  \* history: the version in use
          seen      \* history: the versions in use during each call
vars == <<how, heap, ptr, upd, rd, replaced, current, seen>>

-----------------------------------------------------------------------------
\* A filter with the shape and the seed of a version and some of its keys.
Holding(v, S) ==
  LET bits == UNION {Positions(v.shape, Hash[v.seed][key]) : key \in S}
  IN  [numBlocks |-> v.shape.numBlocks, k |-> v.shape.k, fastrange |-> v.shape.fastrange,
       seed |-> v.seed,
       blocks |-> [w \in WordIndices(v.shape) |-> {b \in 0 .. WordBits - 1 : <<w, b>> \in bits}]]

WithKey(f, key) ==
  LET shape == [numBlocks |-> f.numBlocks, k |-> f.k, fastrange |-> f.fastrange]
      bits  == Positions(shape, Hash[f.seed][key])
  IN  [f EXCEPT !.blocks = [w \in DOMAIN @ |->
         @[w] \cup {b \in 0 .. WordBits - 1 : <<w, b>> \in bits}]]

\* All a test of a key would look at is set, in a whole filter with these keys.
Answer(v, key) ==
  LET At(x) == Positions(v.shape, Hash[v.seed][x])
  IN  At(key) \subseteq UNION {At(x) : x \in v.keys}

\* The fields that *f = *nf copies; and mutated, the range mode is forgotten.
FieldsButMode == {"blocks", "numBlocks", "k", "seed"}

Fields == {"blocks", "numBlocks", "k", "seed", "fastrange"}

IdleUpdater == [pc |-> "idle"]
IdleReader  == [pc |-> "idle"]

Inside == {r \in Readers : rd[r].pc \notin {"idle", "call"}}

\* Memory the updater may get; and mutated, it loads over the filter in use.
UnusedOrInUse == Objs \ {rd[r].obj : r \in Inside}

Unused == Objs \ ({ptr} \cup {rd[r].obj : r \in Inside})

(***************************************************************************)
(* A goroutine that tests sees the pointer, or enters the read lock while  *)
(* no ReadFrom runs.  And mutated, without looking at the lock, and with   *)
(* a lock where the pointer would do.                                      *)
(***************************************************************************)
MayAlwaysEnter == TRUE

MayEnterUnlocked == upd.pc = "idle"

MayEnter == how = "inPlace" => upd.pc = "idle"

-----------------------------------------------------------------------------
\* The first version is complete before anything else runs.
Init ==
  /\ how \in {"swap", "inPlace"}
  /\ current \in Versions
  /\ ptr = First
  /\ heap = [o \in Objs |-> Holding(current, current.keys)]
  /\ upd = IdleUpdater /\ replaced = 0
  /\ rd = [r \in Readers |-> IdleReader] /\ seen = [r \in Readers |-> {}]

(***************************************************************************)
(* The updater: a filter of its own, its keys (or the payload that holds   *)
(* them), and then it takes the place of the one in use.                   *)
(***************************************************************************)
Begin(v, o) ==
  /\ upd.pc = "idle" /\ replaced < MaxReplaced
  /\ how = "inPlace" => Inside = {}
  /\ o \in Unused
  /\ heap' = [heap EXCEPT ![o] = Holding(v, {})]
  /\ upd' = [pc |-> "fill", obj |-> o, todo |-> v.keys, version |-> v, left |-> Fields]
  /\ replaced' = replaced + 1
  /\ UNCHANGED <<how, ptr, rd, current, seen>>

Fill(key) ==
  /\ upd.pc = "fill" /\ key \in upd.todo
  /\ heap' = [heap EXCEPT ![upd.obj] = WithKey(@, key)]
  /\ upd' = [upd EXCEPT !.todo = @ \ {key}]
  /\ UNCHANGED <<how, ptr, rd, replaced, current, seen>>

\* ReadFrom fails, or the new filter is given up, before it is in place.
Abandon ==
  /\ upd.pc = "fill" /\ upd.left = Fields
  /\ upd' = IdleUpdater
  /\ UNCHANGED <<how, heap, ptr, rd, replaced, current, seen>>

\* History: calls that overlap the change may answer for either version.
NewVersion ==
  /\ current' = upd.version
  /\ seen' = [r \in Readers |-> IF rd[r].pc = "idle" THEN {} ELSE seen[r] \cup {upd.version}]

\* And mutated, the filter is published before its keys are in it.
SwapEarly ==
  /\ how = "swap" /\ upd.pc = "fill"
  /\ ptr' = upd.obj
  /\ upd' = IF upd.todo = {} THEN IdleUpdater ELSE upd
  /\ NewVersion
  /\ UNCHANGED <<how, heap, rd, replaced>>

Swap ==
  /\ how = "swap" /\ upd.pc = "fill" /\ upd.todo = {}
  /\ ptr' = upd.obj
  /\ upd' = IdleUpdater
  /\ NewVersion
  /\ UNCHANGED <<how, heap, rd, replaced>>

Copy(field) ==
  /\ how = "inPlace" /\ upd.pc = "fill" /\ upd.todo = {} /\ field \in upd.left
  /\ heap' = [heap EXCEPT ![ptr][field] = heap[upd.obj][field]]
  /\ upd' = [upd EXCEPT !.left = @ \ {field}]
  /\ UNCHANGED <<how, ptr, rd, replaced, current, seen>>

Unlock ==
  /\ how = "inPlace" /\ upd.pc = "fill" /\ upd.todo = {} /\ upd.left = {}
  /\ upd' = IdleUpdater
  /\ NewVersion
  /\ UNCHANGED <<how, heap, ptr, rd, replaced>>

Update ==
  \/ \E v \in Versions, o \in Objs : Begin(v, o)
  \/ \E key \in Keys : Fill(key)
  \/ \E field \in Fields : Copy(field)
  \/ Swap \/ Unlock \/ Abandon

-----------------------------------------------------------------------------
(***************************************************************************)
(* A goroutine that tests a key.                                           *)
(***************************************************************************)
Call(r, key) ==
  /\ rd[r].pc = "idle"
  /\ rd' = [rd EXCEPT ![r] = [pc |-> "call", key |-> key]]
  /\ seen' = [seen EXCEPT ![r] = {current}]
  /\ UNCHANGED <<how, heap, ptr, upd, replaced, current>>

Enter(r) ==
  /\ rd[r].pc = "call" /\ MayEnter
  /\ rd' = [rd EXCEPT ![r] = [pc |-> "locate", key |-> rd[r].key, obj |-> ptr]]
  /\ UNCHANGED <<how, heap, ptr, upd, replaced, current, seen>>

\* blockOffset: the hash, the block count and the range mode.
Locate(r) ==
  LET f == heap[rd[r].obj] IN
  /\ rd[r].pc = "locate"
  /\ rd' = [rd EXCEPT ![r] = [pc |-> "look", key |-> rd[r].key, obj |-> rd[r].obj, i |-> 0,
                              at |-> BlockOffsetHash(f, Hash[f.seed][rd[r].key])]]
  /\ UNCHANGED <<how, heap, ptr, upd, replaced, current, seen>>

(***************************************************************************)
(* One turn of testBits: the end of the loop, an index out of range, a     *)
(* missing bit, or on to the next.                                         *)
(***************************************************************************)
Ended(r, pc, answer) == [pc |-> pc, key |-> rd[r].key, obj |-> rd[r].obj, answer |-> answer]

Look(r) ==
  LET c == rd[r]
      f == heap[c.obj]
  IN
  /\ c.pc = "look"
  /\ rd' = [rd EXCEPT ![r] =
       IF c.i >= f.k THEN Ended(r, "done", TRUE)
       ELSE IF WordOf(c.at) \notin DOMAIN f.blocks THEN Ended(r, "panic", FALSE)
       ELSE IF BitOf(c.at) \notin f.blocks[WordOf(c.at)] THEN Ended(r, "done", FALSE)
       ELSE [pc |-> "look", key |-> c.key, obj |-> c.obj,
             i |-> c.i + 1, at |-> Advance(c.at, c.i)]]
  /\ UNCHANGED <<how, heap, ptr, upd, replaced, current, seen>>

Return(r) ==
  /\ rd[r].pc = "done"
  /\ rd' = [rd EXCEPT ![r] = IdleReader]
  /\ seen' = [seen EXCEPT ![r] = {}]
  /\ UNCHANGED <<how, heap, ptr, upd, replaced, current>>

Step(r) == Enter(r) \/ Locate(r) \/ Look(r) \/ Return(r)

Next == Update \/ \E r \in Readers : Step(r) \/ \E key \in Keys : Call(r, key)

Spec == Init /\ [][Next]_vars

\* A goroutine that tests keeps running; the updater may stop anywhere.
FairSpec == Spec /\ \A r \in Readers : WF_vars(Step(r))

-----------------------------------------------------------------------------
Memory == [numBlocks : Nat \ {0}, k : Nat \ {0}, fastrange : BOOLEAN, seed : Seeds,
           blocks : UNION {BitArrays(v.shape) : v \in Versions}]

(***************************************************************************)
(* Fields have their types, and no goroutine works on memory that was      *)
(* given to the updater.                                                   *)
(***************************************************************************)
TypeOK ==
  /\ how \in {"swap", "inPlace"} /\ ptr \in Objs /\ current \in Versions
  /\ heap \in [Objs -> Memory]
  /\ upd.pc = "fill" => /\ upd.obj \in Objs \ ({ptr} \cup {rd[r].obj : r \in Inside})
                        /\ upd.todo \subseteq Keys /\ upd.left \subseteq Fields
  /\ \A r \in Readers : rd[r].pc \in {"idle", "call", "locate", "look", "done", "panic"}
  /\ \A r \in Inside : rd[r].obj \in Objs
  /\ seen \in [Readers -> SUBSET Versions]

(***************************************************************************)
(* No test indexes the array of one version with the block of another.     *)
(***************************************************************************)
NoIndexOutOfRange == \A r \in Readers : rd[r].pc # "panic"

(***************************************************************************)
(* Every answer is the answer of one whole version that was in use during  *)
(* the call: replacing a filter is atomic for those who test it.           *)
(***************************************************************************)
AnswersOfOneVersion ==
  \A r \in Readers :
    rd[r].pc = "done" => \E v \in seen[r] : rd[r].answer = Answer(v, rd[r].key)

(***************************************************************************)
(* A key that every version in use during the call contains is found.      *)
(***************************************************************************)
NoFalseNegatives ==
  \A r \in Readers :
    rd[r].pc = "done" /\ (\A v \in seen[r] : rd[r].key \in v.keys) => rd[r].answer

(***************************************************************************)
(* Testing and replacing are atomic: see AtomicReplace.  A test happens    *)
(* when the goroutine loads the pointer or gets the lock; from then on its *)
(* answer is what the filter it works on would answer undisturbed.         *)
(***************************************************************************)
Shapes == [numBlocks : {v.shape.numBlocks : v \in Versions},
           k : {v.shape.k : v \in Versions}, fastrange : BOOLEAN]

Places == [shape \in Shapes |-> [seed \in Seeds |->
  [key \in Keys |-> Positions(shape, Hash[seed][key])]]]

AnswerOf(f, key) ==
  LET shape == [numBlocks |-> f.numBlocks, k |-> f.k, fastrange |-> f.fastrange]
  IN  \A p \in Places[shape][f.seed][key] :
        p[1] \in DOMAIN f.blocks /\ p[2] \in f.blocks[p[1]]

Test(r) ==
  CASE rd[r].pc \in {"idle", "call"} -> rd[r]
    [] rd[r].pc \in {"locate", "look"} ->
         [pc |-> "done", key |-> rd[r].key, answer |-> AnswerOf(heap[rd[r].obj], rd[r].key)]
    [] rd[r].pc \in {"done", "panic"} ->
         [pc |-> rd[r].pc, key |-> rd[r].key, answer |-> rd[r].answer]

Decided == [r \in Readers |-> Test(r)]

Verdict == [v \in Versions |-> [key \in Keys |-> Answer(v, key)]]

Abstract == INSTANCE AtomicReplace WITH inUse <- current, test <- Decided

ReplacesAtomically == Abstract!Spec

(***************************************************************************)
(* With the pointer swap a test ends even if the updater stops halfway:    *)
(* nobody waits for a lock.                                                *)
(***************************************************************************)
SwapBlocksNoTest ==
  \A r \in Readers : how = "swap" /\ rd[r].pc = "call" ~> rd[r].pc = "idle"
=============================================================================
