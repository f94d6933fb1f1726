------------------------- MODULE FilterStreamProofs -------------------------
(***************************************************************************)
(* Filters survive streams: proofs for any number of processes of either   *)
(* byte order, of streams and files, of sizes, keys, hash kinds and        *)
(* functions, and for all widths.                                          *)
(***************************************************************************)
EXTENDS FilterStream, BlockProbeProofs

-----------------------------------------------------------------------------
(***************************************************************************)
(* Turning the bytes of a word round twice gives the word.                 *)
(***************************************************************************)
LEMMA QuotientOf ==
  ASSUME NEW m \in Nat, NEW n \in Nat \ {0}, NEW r \in 0 .. n - 1
  PROVE  (m * n + r) \div n = m /\ (m * n + r) % n = r
<1> DEFINE x == m * n + r
<1>1. m * n \in Nat /\ x \in Nat
  OBVIOUS
<1>2. PICK q \in Int, t \in 0 .. n - 1 : x = q * n + t /\ x \div n = q /\ x % n = t
  <2>1. x \div n \in Int /\ x % n \in 0 .. n - 1 /\ x = (x \div n) * n + (x % n)
    <3> HIDE DEF x
    <3> QED
      BY <1>1
  <2> QED
    BY <2>1
<1>3. (q - m) * n = r - t
  BY <1>1, <1>2
<1>4. q = m
  <2>1. ~(q - m >= 1)
    BY <1>2, <1>3
  <2>2. ~(q - m <= -1)
    BY <1>2, <1>3
  <2> QED
    BY <1>2, <2>1, <2>2
<1> QED
  BY <1>2, <1>3, <1>4

LEMMA ByteFacts ==
  /\ ByteBits \in Nat \ {0} /\ WordBytes \in Nat
  /\ WordBits = WordBytes * ByteBits
BY WidthAssumption, StreamAssumption DEF WordBytes

\* The bit that a bit becomes.
Turned(b) == (WordBytes - 1 - (b \div ByteBits)) * ByteBits + (b % ByteBits)

LEMMA TurnedBit ==
  ASSUME NEW b \in 0 .. WordBits - 1
  PROVE  Turned(b) \in 0 .. WordBits - 1 /\ Turned(Turned(b)) = b
<1> DEFINE q == b \div ByteBits
           r == b % ByteBits
           m == WordBytes - 1 - q
<1>1. ByteBits \in Nat \ {0} /\ WordBytes \in Nat /\ b \in Nat
  BY ByteFacts, WidthAssumption
<1>2. q \in Nat /\ q < WordBytes
  <2>1. b < ByteBits * WordBytes
    BY ByteFacts, WidthAssumption
  <2> QED
    BY <1>1, <2>1, DivBelow
<1>3. r \in 0 .. ByteBits - 1
  BY <1>1, ModRange
<1>4. b = q * ByteBits + r
  BY <1>1
<1>5. m \in Nat /\ m <= WordBytes - 1 /\ WordBytes - 1 - m = q
  BY <1>1, <1>2
<1>6. Turned(b) = m * ByteBits + r
  BY DEF Turned
<1> HIDE DEF q, r, m
<1>7. Turned(b) \in 0 .. WordBits - 1
  <2>1. m * ByteBits \in Nat /\ m * ByteBits <= (WordBytes - 1) * ByteBits
    BY <1>1, <1>5
  <2>2. (WordBytes - 1) * ByteBits = WordBits - ByteBits
    BY <1>1, ByteFacts
  <2> QED
    BY <1>1, <1>3, <1>6, <2>1, <2>2, WidthAssumption
<1>8. Turned(b) \div ByteBits = m /\ Turned(b) % ByteBits = r
  <2>1. (m * ByteBits + r) \div ByteBits = m /\ (m * ByteBits + r) % ByteBits = r
    BY <1>1, <1>3, <1>5, QuotientOf
  <2> QED
    BY <1>6, <2>1
<1>9. Turned(Turned(b)) = q * ByteBits + r
  BY <1>5, <1>8 DEF Turned
<1> QED
  BY <1>4, <1>7, <1>9

LEMMA ReverseTwice ==
  ASSUME NEW word \in SUBSET (0 .. WordBits - 1)
  PROVE  /\ ReverseBytes(word) \in SUBSET (0 .. WordBits - 1)
         /\ ReverseBytes(ReverseBytes(word)) = word
<1>1. ReverseBytes(word) = {Turned(b) : b \in word}
  BY DEF ReverseBytes, Turned
<1>2. ReverseBytes(word) \in SUBSET (0 .. WordBits - 1)
  BY <1>1, TurnedBit
<1>3. ReverseBytes(ReverseBytes(word)) = {Turned(c) : c \in ReverseBytes(word)}
  BY DEF ReverseBytes, Turned
<1>4. {Turned(c) : c \in ReverseBytes(word)} = word
  <2>1. \A b \in word : Turned(b) \in ReverseBytes(word) /\ Turned(Turned(b)) = b
    BY <1>1, TurnedBit
  <2>2. \A c \in ReverseBytes(word) : Turned(c) \in word
    <3>1. SUFFICES ASSUME NEW b \in word PROVE Turned(Turned(b)) \in word
      BY <1>1
    <3> QED
      BY <2>1
  <2> QED
    BY <2>1, <2>2
<1> QED
  BY <1>2, <1>3, <1>4

-----------------------------------------------------------------------------
(***************************************************************************)
(* The bits of a hash depend on three fields of a filter, and are bits of  *)
(* its array.                                                              *)
(***************************************************************************)
LEMMA SamePositions ==
  ASSUME NEW f, NEW g, NEW h,
         f.numBlocks = g.numBlocks, f.k = g.k, f.fastrange = g.fastrange
  PROVE  Positions(f, h) = Positions(g, h)
<1>1. BlockOffsetHash(f, h) = BlockOffsetHash(g, h)
  BY DEF BlockOffsetHash, BlockIndex
<1>2. Walk(f, h) = Walk(g, h)
  BY <1>1 DEF Walk
<1> QED
  BY <1>2 DEF Positions

LEMMA PositionsInArray ==
  ASSUME NEW f, NEW h \in HashValue,
         f.numBlocks \in Nat \ {0}, f.k \in Nat \ {0}, f.fastrange \in BOOLEAN
  PROVE  Positions(f, h) \subseteq WordIndices(f) \X (0 .. WordBits - 1)
<1> DEFINE g == [numBlocks |-> f.numBlocks, k |-> f.k, fastrange |-> f.fastrange]
<1>1. g \in FilterShape
  BY DEF FilterShape
<1>2. g.numBlocks = f.numBlocks /\ g.k = f.k /\ g.fastrange = f.fastrange
  OBVIOUS
<1> HIDE DEF g
<1>3. Positions(f, h) = Positions(g, h)
  BY <1>2, SamePositions
<1>4. WordIndices(f) = WordIndices(g)
  BY <1>2 DEF WordIndices
<1>5. \A i \in 0 .. g.k - 1 :
        <<WordOf(Walk(g, h)[i]), BitOf(Walk(g, h)[i])>> \in WordIndices(g) \X (0 .. WordBits - 1)
  <2>1. TAKE i \in 0 .. g.k - 1
  <2>2. i \in 0 .. g.k
    BY <1>1 DEF FilterShape
  <2> QED
    BY <1>1, <2>2, ProbesInBlock
<1> QED
  BY <1>3, <1>4, <1>5 DEF Positions

LEMMA EntryHash ==
  ASSUME NEW f, BuiltFilter(f), NEW x \in Entries
  PROVE  HashOfEntry(f, x) \in HashValue
<1>1. f.hasher \in Hashers /\ f.seed \in Seeds
  BY DEF BuiltFilter
<1>2. CASE x \in Hashed
  BY <1>2, StreamAssumption DEF HashOfEntry
<1>3. CASE x \notin Hashed
  <2>1. <<f.hasher, f.seed, x>> \in Hashers \X Seeds \X Keys
    BY <1>1, <1>3 DEF Entries
  <2> QED
    BY <1>3, <2>1, StreamAssumption DEF HashOfEntry
<1> QED
  BY <1>2, <1>3

LEMMA EntryBits ==
  ASSUME NEW f, BuiltFilter(f), NEW x \in Entries
  PROVE  BitsOfEntry(f, x) \subseteq (DOMAIN f.words) \X (0 .. WordBits - 1)
<1>1. /\ f.numBlocks \in Nat \ {0} /\ f.k \in Nat \ {0} /\ f.fastrange \in BOOLEAN
      /\ DOMAIN f.words = WordIndices(f)
  BY DEF BuiltFilter, BitArrays
<1> QED
  BY <1>1, EntryHash, PositionsInArray DEF BitsOfEntry

-----------------------------------------------------------------------------
(***************************************************************************)
(* Filters that are built and filled.                                      *)
(***************************************************************************)
LEMMA AtLeastOneFact ==
  ASSUME NEW n \in Nat
  PROVE  AtLeastOne(n) \in Nat \ {0} /\ (n # 0 => AtLeastOne(n) = n)
BY DEF AtLeastOne

LEMMA Allocated ==
  ASSUME NEW n \in Nat, NEW k \in Nat, NEW seed \in Seeds, NEW hash \in Kinds,
         NEW hasher \in Hashers, NEW fastrange \in BOOLEAN
  PROVE  LET f == AllocBlocked(n, k, seed, hash, hasher, fastrange) IN
         BuiltFilter(f) /\ Sound(f) /\ f.members = {}
<1> DEFINE nb == AtLeastOne(n)
           W == [w \in 0 .. nb * BlockWords - 1 |-> {}]
           f == AllocBlocked(n, k, seed, hash, hasher, fastrange)
<1>1. PICK kk \in Nat \ {0} : kk = AtLeastOne(k)
  BY AtLeastOneFact
<1>2. nb \in Nat \ {0}
  BY AtLeastOneFact
<1>3. f = [numBlocks |-> nb, k |-> kk, fastrange |-> fastrange, seed |-> seed,
           hash |-> hash, hasher |-> hasher, words |-> W, members |-> {}]
  BY <1>1 DEF AllocBlocked
<1>4. W \in [0 .. nb * BlockWords - 1 -> SUBSET (0 .. WordBits - 1)]
  OBVIOUS
<1> HIDE DEF W, nb, f
<1>5. f.words \in BitArrays(f)
  BY <1>3, <1>4 DEF BitArrays, WordIndices
<1>6. BuiltFilter(f)
  BY <1>2, <1>3, <1>5 DEF BuiltFilter
<1>7. f.members = {}
  BY <1>3
<1>8. Sound(f)
  BY <1>6, <1>7 DEF Sound, HoldsMembers
<1> QED
  BY <1>6, <1>7, <1>8 DEF f

LEMMA Inserted ==
  ASSUME NEW f, BuiltFilter(f), HoldsMembers(f), NEW x \in Entries
  PROVE  Sound(Insert(f, x))
<1> DEFINE P == BitsOfEntry(f, x)
           W == [w \in DOMAIN f.words |-> f.words[w] \cup {p[2] : p \in {q \in P : q[1] = w}}]
           g == [numBlocks |-> f.numBlocks, k |-> f.k, fastrange |-> f.fastrange, seed |-> f.seed,
                 hash |-> f.hash, hasher |-> f.hasher, words |-> W, members |-> f.members \cup {x}]
<1>1. f = [numBlocks |-> f.numBlocks, k |-> f.k, fastrange |-> f.fastrange, seed |-> f.seed,
           hash |-> f.hash, hasher |-> f.hasher, words |-> f.words, members |-> f.members]
  BY DEF BuiltFilter
<1>2. Insert(f, x) = g
  <2>1. Insert(f, x) = [f EXCEPT !.words = W, !.members = f.members \cup {x}]
    BY <1>1 DEF Insert
  <2> HIDE DEF W
  <2> QED
    BY <1>1, <2>1
<1>3. P \subseteq (DOMAIN f.words) \X (0 .. WordBits - 1)
  BY EntryBits
<1>4. f.words \in [WordIndices(f) -> SUBSET (0 .. WordBits - 1)]
  BY DEF BuiltFilter, BitArrays
<1>5. \A w \in DOMAIN f.words : W[w] \in SUBSET (0 .. WordBits - 1) /\ f.words[w] \subseteq W[w]
  <2>1. TAKE w \in DOMAIN f.words
  <2>2. f.words[w] \in SUBSET (0 .. WordBits - 1)
    BY <1>4
  <2>3. \A p \in P : p[2] \in 0 .. WordBits - 1
    BY <1>3
  <2> HIDE DEF P
  <2> QED
    BY <2>2, <2>3
<1>6. \A p \in P : p[1] \in DOMAIN f.words /\ p[2] \in W[p[1]]
  <2>1. TAKE p \in P
  <2>2. p[1] \in DOMAIN f.words
    BY <1>3
  <2> HIDE DEF P
  <2> QED
    BY <2>2
<1>7. DOMAIN W = DOMAIN f.words /\ W = [w \in DOMAIN W |-> W[w]]
  OBVIOUS
<1>8. W \in [WordIndices(f) -> SUBSET (0 .. WordBits - 1)]
  <2> HIDE DEF W
  <2> QED
    BY <1>4, <1>5, <1>7
<1>9. /\ g.numBlocks = f.numBlocks /\ g.k = f.k /\ g.fastrange = f.fastrange /\ g.seed = f.seed
      /\ g.hash = f.hash /\ g.hasher = f.hasher /\ g.words = W /\ g.members = f.members \cup {x}
  <2> HIDE DEF W
  <2> QED
    OBVIOUS
<1>10. g = [numBlocks |-> g.numBlocks, k |-> g.k, fastrange |-> g.fastrange, seed |-> g.seed,
            hash |-> g.hash, hasher |-> g.hasher, words |-> g.words, members |-> g.members]
  <2> HIDE DEF W
  <2> QED
    OBVIOUS
<1> HIDE DEF g, W, P
<1>11. BuiltFilter(g)
  <2>1. g.words \in BitArrays(g)
    BY <1>8, <1>9 DEF BitArrays, WordIndices
  <2>2. /\ f.numBlocks \in Nat \ {0} /\ f.k \in Nat \ {0} /\ f.fastrange \in BOOLEAN
        /\ f.seed \in Seeds /\ f.hash \in Kinds /\ f.hasher \in Hashers /\ f.members \subseteq Entries
    BY DEF BuiltFilter
  <2>3. g.members \subseteq Entries
    BY <1>9, <2>2
  <2> QED
    BY <1>9, <1>10, <2>1, <2>2, <2>3, Zenon DEF BuiltFilter
<1>12. \A y : BitsOfEntry(g, y) = BitsOfEntry(f, y)
  <2>1. TAKE y
  <2>2. HashOfEntry(g, y) = HashOfEntry(f, y)
    BY <1>9 DEF HashOfEntry
  <2> QED
    BY <1>9, <2>2, SamePositions DEF BitsOfEntry
<1>13. HoldsMembers(g)
  <2>1. SUFFICES ASSUME NEW y \in g.members, NEW p \in BitsOfEntry(f, y)
                 PROVE  p[2] \in W[p[1]]
    BY <1>9, <1>12 DEF HoldsMembers, Test
  <2>2. CASE y = x
    BY <1>6, <2>1, <2>2 DEF P
  <2>3. CASE y \in f.members
    <3>1. y \in Entries
      BY <2>3 DEF BuiltFilter
    <3>2. p[1] \in DOMAIN f.words
      BY <3>1, EntryBits
    <3>3. p[2] \in f.words[p[1]]
      BY <2>3 DEF HoldsMembers, Test
    <3> QED
      BY <1>5, <3>2, <3>3
  <2> QED
    BY <1>9, <2>2, <2>3
<1> QED
  BY <1>2, <1>11, <1>13 DEF Sound

-----------------------------------------------------------------------------
(***************************************************************************)
(* The inductive invariant.  A stream keeps the filter its writer had when *)
(* it wrote the header; a call that reads it holds, from the header on, an *)
(* empty filter of its shape with the function registered here.            *)
(***************************************************************************)
Emptied(f, hasher) ==
  AllocBlocked(f.numBlocks, f.k, f.seed, f.hash, hasher, f.fastrange)

Started(pc, s) == [NoCall EXCEPT !.pc = pc, !.s = s]

Loading(s, nf) == [Started("rest", s) EXCEPT !.pc = "payload", !.nf = nf]

Idle(c) == c = NoCall

Writes(c, s) == stream[s].open /\ c = Started("write", s)

Reads(c, s) ==
  stream[s].open /\ Readable(stream[s].hdr) /\ c = Started("rest", s)

Loads(c, p, s) ==
  LET f == stream[s].snap IN
  /\ stream[s].open /\ Readable(stream[s].hdr)
  /\ BuiltFilter(f) /\ registry[p][f.hash] \in Hashers
  /\ c = Loading(s, Emptied(f, registry[p][f.hash]))

Returns(c) == \E n, used \in Nat, err \in BOOLEAN : c = Ended(n, used, err)

CallState(c, p) ==
  \/ Idle(c)
  \/ \E s \in Streams : Writes(c, s)
  \/ \E s \in Streams : Reads(c, s)
  \/ \E s \in Streams : Loads(c, p, s)
  \/ Returns(c)

Filters == filter = [p \in Procs |-> filter[p]] /\ \A p \in Procs : Sound(filter[p])

Registries == registry \in [Procs -> [Kinds -> Hashers \cup {NoHasher}]]

StreamState(st) == st = NoStream \/ WrittenStream(st)

Contained ==
  stream = [s \in Streams |-> stream[s]] /\ \A s \in Streams : StreamState(stream[s])

Calls == io = [p \in Procs |-> io[p]] /\ \A p \in Procs : CallState(io[p], p)

IInv == Filters /\ Registries /\ Contained /\ Calls

-----------------------------------------------------------------------------
(***************************************************************************)
(* What is written is what is loaded.                                      *)
(***************************************************************************)
LEMMA ContentsFacts ==
  ASSUME NEW p, NEW f, Sound(f), NEW n \in Nat
  PROVE  LET st == [Contents(p, f) EXCEPT !.len = n] IN
         WrittenStream(st) /\ st.open /\ st.snap = f
<1>0. PICK o : o = TRUE
  OBVIOUS
<1> DEFINE h == Header(p, f)
           R == [w \in DOMAIN f.words |-> InMemory(p, f.words[w])]
           st == [len |-> n, open |-> o, hdr |-> h, raw |-> R, snap |-> f]
<1>1. [Contents(p, f) EXCEPT !.len = n] = st
  <2>1. Contents(p, f) = [len |-> HeaderBytes + PayloadBytes(f), open |-> o, hdr |-> h,
                          raw |-> R, snap |-> f]
    BY <1>0, Zenon DEF Contents
  <2> HIDE DEF h, R
  <2> QED
    BY <2>1
<1>2. h.big = (p \in BigEndian)
  BY DEF Header
<1>3. h.big \in BOOLEAN
  BY <1>2
<1>4. /\ h.numBlocks = f.numBlocks /\ h.k = f.k /\ h.seed = f.seed
      /\ h.hash = f.hash /\ h.fastrange = f.fastrange
  BY DEF Header
<1>5. R = [w \in DOMAIN f.words |-> IF h.big THEN ReverseBytes(f.words[w]) ELSE f.words[w]]
  BY <1>2 DEF InMemory
<1>6. st.len = n /\ st.open = o /\ st.hdr = h /\ st.raw = R /\ st.snap = f
  <2> HIDE DEF h, R
  <2> QED
    OBVIOUS
<1>7. st = [len |-> st.len, open |-> o, hdr |-> st.hdr, raw |-> st.raw, snap |-> st.snap]
  <2> HIDE DEF h, R
  <2> QED
    OBVIOUS
<1> HIDE DEF h, R, st
<1>8. Holds(st)
  BY <1>3, <1>4, <1>5, <1>6 DEF Holds
<1>9. WrittenStream(st)
  BY <1>0, <1>6, <1>7, <1>8 DEF WrittenStream
<1> QED
  BY <1>0, <1>1, <1>6, <1>9

\* A stream with another length.
LEMMA Lengthened ==
  ASSUME NEW st, WrittenStream(st), NEW n \in Nat
  PROVE  LET t == [st EXCEPT !.len = n] IN
         WrittenStream(t) /\ t.open /\ t.hdr = st.hdr /\ t.raw = st.raw /\ t.snap = st.snap
<1>0. PICK o : o = TRUE
  OBVIOUS
<1>1. st = [len |-> st.len, open |-> o, hdr |-> st.hdr, raw |-> st.raw, snap |-> st.snap]
  BY <1>0, Zenon DEF WrittenStream
<1> DEFINE t == [len |-> n, open |-> o, hdr |-> st.hdr, raw |-> st.raw, snap |-> st.snap]
<1>2. [st EXCEPT !.len = n] = t
  BY <1>1
<1>3. t = [len |-> t.len, open |-> o, hdr |-> t.hdr, raw |-> t.raw, snap |-> t.snap]
  OBVIOUS
<1>4. t.len = n /\ t.open = o /\ t.hdr = st.hdr /\ t.raw = st.raw /\ t.snap = st.snap
  OBVIOUS
<1> HIDE DEF t
<1>5. WrittenStream(t)
  BY <1>0, <1>3, <1>4 DEF WrittenStream, Holds
<1> QED
  BY <1>0, <1>2, <1>4, <1>5

\* The words of the filter that was written, whatever the two byte orders.
LEMMA SameWords ==
  ASSUME NEW p, NEW s, Holds(stream[s]), BuiltFilter(stream[s].snap)
  PROVE  Loaded(p, s) = stream[s].snap.words
<1> DEFINE st == stream[s]
           f == st.snap
<1>1. /\ st.hdr.big \in BOOLEAN
      /\ st.raw = [w \in DOMAIN f.words |->
                     IF st.hdr.big THEN ReverseBytes(f.words[w]) ELSE f.words[w]]
  BY DEF Holds
<1>2. f.words \in [WordIndices(f) -> SUBSET (0 .. WordBits - 1)]
  BY DEF BuiltFilter, BitArrays
<1>3. DOMAIN st.raw = DOMAIN f.words
  BY <1>1
<1>4. ASSUME NEW w \in DOMAIN f.words
      PROVE  (IF Native(p, st.hdr.big) THEN InMemory(p, st.raw[w])
                                       ELSE ReverseBytes(InMemory(p, st.raw[w]))) = f.words[w]
  <2>1. f.words[w] \in SUBSET (0 .. WordBits - 1)
    BY <1>2, <1>4
  <2>2. ReverseBytes(ReverseBytes(f.words[w])) = f.words[w]
    BY <2>1, ReverseTwice
  <2>3. st.raw[w] = IF st.hdr.big THEN ReverseBytes(f.words[w]) ELSE f.words[w]
    BY <1>1, <1>4
  <2>4. Native(p, st.hdr.big) <=> (p \in BigEndian <=> st.hdr.big)
    BY <1>1 DEF Native
  <2> HIDE DEF st, f
  <2> QED
    BY <2>2, <2>3, <2>4 DEF InMemory
<1>5. Loaded(p, s) = [w \in DOMAIN st.raw |->
                        IF Native(p, st.hdr.big) THEN InMemory(p, st.raw[w])
                                                 ELSE ReverseBytes(InMemory(p, st.raw[w]))]
  BY DEF Loaded
<1>6. f.words = [w \in DOMAIN f.words |-> f.words[w]]
  BY <1>2
<1> HIDE DEF st, f
<1>7. Loaded(p, s) = f.words
  BY <1>3, <1>4, <1>5, <1>6
<1> QED
  BY <1>7 DEF st, f

(***************************************************************************)
(* The filter that a ReadFrom leaves in its receiver.                      *)
(***************************************************************************)
Received(p, s) ==
  LET f == stream[s].snap IN
  [Emptied(f, registry[p][f.hash]) EXCEPT !.words = Loaded(p, s), !.members = StillMembers(p, s)]

LEMMA ReceivedFacts ==
  ASSUME NEW p, NEW s, Holds(stream[s]), BuiltFilter(stream[s].snap),
         registry[p][stream[s].snap.hash] \in Hashers
  PROVE  /\ Received(p, s) = [stream[s].snap EXCEPT !.hasher = registry[p][stream[s].snap.hash],
                                                    !.members = StillMembers(p, s)]
         /\ Sound(Received(p, s))
<1> DEFINE f == stream[s].snap
           M == StillMembers(p, s)
           e == Emptied(f, registry[p][f.hash])
<1>1. PICK hasher \in Hashers : hasher = registry[p][f.hash]
  OBVIOUS
<1>2. f = [numBlocks |-> f.numBlocks, k |-> f.k, fastrange |-> f.fastrange, seed |-> f.seed,
           hash |-> f.hash, hasher |-> f.hasher, words |-> f.words, members |-> f.members]
  BY DEF BuiltFilter
<1>3. /\ f.numBlocks \in Nat \ {0} /\ f.k \in Nat \ {0} /\ f.fastrange \in BOOLEAN
      /\ f.seed \in Seeds /\ f.hash \in Kinds /\ f.hasher \in Hashers
      /\ f.words \in BitArrays(f) /\ f.members \subseteq Entries
  BY DEF BuiltFilter
<1> DEFINE g == [numBlocks |-> f.numBlocks, k |-> f.k, fastrange |-> f.fastrange, seed |-> f.seed,
                 hash |-> f.hash, hasher |-> hasher, words |-> f.words, members |-> M]
<1>4. PICK ws, ms : e = [numBlocks |-> f.numBlocks, k |-> f.k, fastrange |-> f.fastrange,
                         seed |-> f.seed, hash |-> f.hash, hasher |-> hasher,
                         words |-> ws, members |-> ms]
  <2>1. AtLeastOne(f.numBlocks) = f.numBlocks /\ AtLeastOne(f.k) = f.k
    BY <1>3, AtLeastOneFact
  <2> QED
    BY <1>1, <2>1 DEF Emptied, AllocBlocked
<1>5. Received(p, s) = g
  <2>1. Received(p, s) = [e EXCEPT !.words = f.words, !.members = M]
    BY SameWords DEF Received
  <2> HIDE DEF f, M, e
  <2> QED
    BY <1>4, <2>1
<1>6. [f EXCEPT !.hasher = registry[p][f.hash], !.members = M] = g
  <2>1. registry[p][f.hash] = hasher
    BY <1>1
  <2> HIDE DEF f, M
  <2>2. [f EXCEPT !.hasher = hasher, !.members = M] = g
    <3> DEFINE r == [f EXCEPT !.hasher = hasher]
    <3>1. r = [numBlocks |-> f.numBlocks, k |-> f.k, fastrange |-> f.fastrange,
               seed |-> f.seed, hash |-> f.hash, hasher |-> hasher, words |-> f.words,
               members |-> f.members]
      BY <1>2
    <3>2. [f EXCEPT !.hasher = hasher, !.members = M] = [r EXCEPT !.members = M]
      BY <1>2
    <3> HIDE DEF r
    <3> QED
      BY <3>1, <3>2
  <2> QED
    BY <2>1, <2>2
<1>7. /\ g.numBlocks = f.numBlocks /\ g.k = f.k /\ g.fastrange = f.fastrange /\ g.seed = f.seed
      /\ g.hash = f.hash /\ g.hasher = hasher /\ g.words = f.words /\ g.members = M
  <2> HIDE DEF f, M
  <2> QED
    OBVIOUS
<1>8. g = [numBlocks |-> g.numBlocks, k |-> g.k, fastrange |-> g.fastrange, seed |-> g.seed,
           hash |-> g.hash, hasher |-> g.hasher, words |-> g.words, members |-> g.members]
  <2> HIDE DEF f, M
  <2> QED
    OBVIOUS
<1>9. /\ M \subseteq f.members
      /\ hasher = f.hasher \/ M \subseteq Hashed
  <2>1. hasher # NoHasher
    BY StreamAssumption
  <2> QED
    BY <1>1, <2>1 DEF StillMembers
<1>10. HoldsMembers(f)
  <2>1. Sound(f)
    BY DEF Holds
  <2>2. f # ZeroFilter
    BY <1>3 DEF ZeroFilter
  <2> QED
    BY <2>1, <2>2 DEF Sound
<1> HIDE DEF g, f, M
<1>11. BuiltFilter(g)
  <2>1. g.words \in BitArrays(g)
    BY <1>3, <1>7 DEF BitArrays, WordIndices
  <2>2. g.members \subseteq Entries
    BY <1>3, <1>7, <1>9
  <2> QED
    BY <1>1, <1>3, <1>7, <1>8, <2>1, <2>2, Zenon DEF BuiltFilter
<1>12. ASSUME NEW x \in M PROVE BitsOfEntry(g, x) = BitsOfEntry(f, x)
  <2>1. HashOfEntry(g, x) = HashOfEntry(f, x)
    BY <1>7, <1>9, <1>12 DEF HashOfEntry
  <2> QED
    BY <1>7, <2>1, SamePositions DEF BitsOfEntry
<1>13. HoldsMembers(g)
  BY <1>7, <1>9, <1>10, <1>12 DEF HoldsMembers, Test
<1> QED
  BY <1>5, <1>6, <1>11, <1>13 DEF Sound, f, M

-----------------------------------------------------------------------------
(***************************************************************************)
(* The calls.                                                              *)
(***************************************************************************)
LEMMA NoCallIs ==
  NoCall = [pc |-> "idle", s |-> "none", nf |-> ZeroFilter, n |-> 0, used |-> 0, err |-> FALSE]
BY DEF NoCall

LEMMA EndedFacts ==
  ASSUME NEW n \in Nat, NEW used \in Nat, NEW err \in BOOLEAN
  PROVE  LET c == Ended(n, used, err) IN
         /\ Returns(c) /\ c.pc = "return" /\ c.nf = ZeroFilter
         /\ c.n = n /\ c.used = used /\ c.err = err
<1>1. Returns(Ended(n, used, err))
  BY DEF Returns
<1> QED
  BY <1>1 DEF Ended, NoCall

LEMMA StartedFacts ==
  ASSUME NEW pc, NEW s
  PROVE  LET c == Started(pc, s) IN
         c.pc = pc /\ c.s = s /\ c.nf = ZeroFilter /\ c.n = 0 /\ c.used = 0
BY DEF Started, NoCall

LEMMA LoadingFacts ==
  ASSUME NEW s, NEW nf
  PROVE  LET c == Loading(s, nf) IN
         c.pc = "payload" /\ c.s = s /\ c.nf = nf /\ c.n = 0 /\ c.used = 0
BY DEF Loading, Started, NoCall

\* Which of the five a call is, is read off its pc.
LEMMA CallCases ==
  ASSUME NEW c, NEW p, CallState(c, p)
  PROVE  /\ c.pc \in {"idle", "write", "rest", "payload", "return"}
         /\ c.pc = "idle" => c = NoCall
         /\ c.pc = "write" => \E s \in Streams : Writes(c, s)
         /\ c.pc = "rest" => \E s \in Streams : Reads(c, s)
         /\ c.pc = "payload" => \E s \in Streams : Loads(c, p, s)
<1>1. CASE Idle(c)
  BY <1>1, NoCallIs DEF Idle
<1>2. CASE \E s \in Streams : Writes(c, s)
  BY <1>2, StartedFacts DEF Writes
<1>3. CASE \E s \in Streams : Reads(c, s)
  BY <1>3, StartedFacts DEF Reads
<1>4. CASE \E s \in Streams : Loads(c, p, s)
  <2>1. PICK s \in Streams : Loads(c, p, s)
    BY <1>4
  <2>2. c.pc = "payload"
    BY <2>1, LoadingFacts DEF Loads
  <2> QED
    BY <1>4, <2>2
<1>5. CASE Returns(c)
  <2>1. PICK n \in Nat, used \in Nat, err \in BOOLEAN : c = Ended(n, used, err)
    BY <1>5 DEF Returns
  <2>2. c.pc = "return"
    BY <2>1, EndedFacts
  <2> QED
    BY <2>2
<1> QED
  BY <1>1, <1>2, <1>3, <1>4, <1>5 DEF CallState

\* What was written stays; a writer adds to it.
Keeps ==
  \A s \in Streams : stream[s].open =>
    stream'[s].open /\ stream'[s].hdr = stream[s].hdr /\ stream'[s].snap = stream[s].snap

LEMMA CallKept ==
  ASSUME NEW p, NEW c, CallState(c, p), Keeps, registry'[p] = registry[p]
  PROVE  CallState(c, p)'
<1>1. CASE Idle(c)
  BY <1>1 DEF CallState, Idle
<1>2. ASSUME NEW s \in Streams, Writes(c, s) PROVE Writes(c, s)'
  BY <1>2 DEF Writes, Keeps
<1>3. ASSUME NEW s \in Streams, Reads(c, s) PROVE Reads(c, s)'
  BY <1>3 DEF Reads, Keeps
<1>4. ASSUME NEW s \in Streams, Loads(c, p, s) PROVE Loads(c, p, s)'
  BY <1>4 DEF Loads, Keeps
<1>5. CASE Returns(c)
  BY <1>5 DEF CallState, Returns
<1> QED
  BY <1>1, <1>2, <1>3, <1>4, <1>5 DEF CallState

LEMMA CallsStep ==
  ASSUME Calls, NEW p \in Procs, NEW d, io' = [io EXCEPT ![p] = d], CallState(d, p)',
         Keeps, \A q \in Procs \ {p} : registry'[q] = registry[q]
  PROVE  Calls'
<1>1. io' = [q \in Procs |-> io'[q]]
  BY DEF Calls
<1>2. ASSUME NEW q \in Procs PROVE CallState(io[q], q)'
  <2>1. PICK c : c = io'[q]
    OBVIOUS
  <2>2. CallState(c, q)'
    <3>1. CASE q = p
      <4>1. c = d
        BY <2>1, <3>1 DEF Calls
      <4> QED
        BY <3>1, <4>1
    <3>2. CASE q # p
      <4>1. c = io[q] /\ registry'[q] = registry[q]
        BY <2>1, <3>2 DEF Calls
      <4>2. CallState(c, q)
        BY <4>1 DEF Calls
      <4> QED
        BY <4>1, <4>2, CallKept
    <3> QED
      BY <3>1, <3>2
  <2> QED
    BY <2>1, <2>2 DEF CallState, Idle, Writes, Reads, Loads, Returns
<1> QED
  BY <1>1, <1>2 DEF Calls

LEMMA CallsSame ==
  ASSUME Calls, UNCHANGED <<stream, io>>,
         \A q \in Procs : io[q] = NoCall \/ registry'[q] = registry[q]
  PROVE  Calls'
<1>1. Keeps
  BY DEF Keeps
<1>2. ASSUME NEW q \in Procs PROVE CallState(io[q], q)'
  <2>1. PICK c : c = io'[q]
    OBVIOUS
  <2>2. CallState(c, q)'
    <3>1. CASE c = NoCall
      BY <3>1 DEF CallState, Idle
    <3>2. CASE c # NoCall
      <4>1. CallState(c, q) /\ registry'[q] = registry[q]
        BY <2>1, <3>2 DEF Calls
      <4> QED
        BY <1>1, <4>1, CallKept
    <3> QED
      BY <3>1, <3>2
  <2> QED
    BY <2>1, <2>2 DEF CallState, Idle, Writes, Reads, Loads, Returns
<1> QED
  BY <1>2 DEF Calls

\* A stream that is opened, or gets longer.
LEMMA ContainedStep ==
  ASSUME Contained, NEW s \in Streams, NEW st, stream' = [stream EXCEPT ![s] = st],
         WrittenStream(st), st.open,
         stream[s].open => st.hdr = stream[s].hdr /\ st.snap = stream[s].snap
  PROVE  Contained' /\ Keeps
<1>1. stream' = [t \in Streams |-> stream'[t]]
  BY DEF Contained
<1>2. \A t \in Streams : stream'[t] = IF t = s THEN st ELSE stream[t]
  BY DEF Contained
<1>3. ASSUME NEW t \in Streams PROVE StreamState(stream'[t])
  BY <1>2 DEF Contained, StreamState
<1>4. Contained'
  BY <1>1, <1>3 DEF Contained, StreamState
<1>5. Keeps
  BY <1>2 DEF Keeps
<1> QED
  BY <1>4, <1>5

LEMMA WrittenIsOpen ==
  ASSUME NEW st, WrittenStream(st)
  PROVE  st.open = TRUE
<1>1. PICK n, o, h, r, f :
        st = [len |-> n, open |-> o, hdr |-> h, raw |-> r, snap |-> f] /\ o = TRUE
  BY DEF WrittenStream
<1>2. st.open = o
  BY <1>1
<1> QED
  BY <1>1, <1>2

LEMMA OpenStream ==
  ASSUME Contained, NEW s \in Streams, stream[s].open
  PROVE  /\ WrittenStream(stream[s])
         /\ Readable(stream[s].hdr) => Holds(stream[s])
<1>1. stream[s] # NoStream
  BY DEF NoStream
<1> QED
  BY <1>1 DEF Contained, StreamState, WrittenStream

LEMMA SoundZero == Sound(ZeroFilter) /\ ZeroFilter.numBlocks = 0
BY DEF Sound, ZeroFilter

LEMMA BuiltIsNotZero ==
  ASSUME NEW f, BuiltFilter(f)
  PROVE  f # ZeroFilter
BY SoundZero DEF BuiltFilter

LEMMA PayloadNat ==
  ASSUME NEW f, Sound(f)
  PROVE  PayloadBytes(f) \in Nat
<1>1. f.numBlocks \in Nat
  BY SoundZero DEF Sound, BuiltFilter
<1>2. BlockWords \in Nat /\ WordBytes \in Nat
  BY BlockWordsFact, ByteFacts
<1> QED
  BY <1>1, <1>2 DEF PayloadBytes

LEMMA PayloadPositive ==
  ASSUME NEW f, BuiltFilter(f)
  PROVE  PayloadBytes(f) \in Nat \ {0}
<1>1. f.numBlocks \in Nat \ {0} /\ BlockWords \in Nat \ {0}
  BY BlockWordsFact DEF BuiltFilter
<1>2. WordBytes \in Nat \ {0}
  BY ByteFacts, WidthAssumption
<1>3. f.numBlocks * BlockWords \in Nat \ {0}
  BY <1>1
<1> QED
  BY <1>2, <1>3 DEF PayloadBytes

LEMMA GotNat ==
  ASSUME Contained, NEW s \in Streams, NEW offset \in Nat, NEW n \in Nat
  PROVE  Got(s, offset, n) \in Nat /\ Got(s, offset, n) <= n
<1>1. stream[s].len \in Nat
  BY DEF Contained, StreamState, WrittenStream, NoStream
<1> QED
  BY <1>1 DEF Got

LEMMA LoadsSound ==
  ASSUME Contained, NEW p, NEW c, NEW s \in Streams, Loads(c, p, s)
  PROVE  /\ Holds(stream[s]) /\ BuiltFilter(stream[s].snap)
         /\ registry[p][stream[s].snap.hash] \in Hashers
         /\ BuiltFilter(c.nf) /\ Sound(c.nf)
<1> DEFINE f == stream[s].snap
<1>1. Holds(stream[s]) /\ BuiltFilter(f) /\ registry[p][f.hash] \in Hashers
  BY OpenStream DEF Loads
<1>2. c.nf = Emptied(f, registry[p][f.hash])
  BY LoadingFacts DEF Loads
<1>3. /\ f.numBlocks \in Nat /\ f.k \in Nat /\ f.seed \in Seeds /\ f.hash \in Kinds
      /\ f.fastrange \in BOOLEAN
  BY <1>1 DEF BuiltFilter
<1> HIDE DEF f
<1>4. BuiltFilter(Emptied(f, registry[p][f.hash])) /\ Sound(Emptied(f, registry[p][f.hash]))
  BY <1>1, <1>3, Allocated DEF Emptied
<1> QED
  BY <1>1, <1>2, <1>4 DEF f

-----------------------------------------------------------------------------
(***************************************************************************)
(* Every action keeps the invariant.                                       *)
(***************************************************************************)
LEMMA FreshRegistry == Fresh \in [Kinds -> Hashers \cup {NoHasher}]
BY StreamAssumption DEF Fresh, Kinds

LEMMA InitInv == Init => IInv
<1> SUFFICES ASSUME Init PROVE IInv
  OBVIOUS
<1>1. Filters
  BY SoundZero DEF Init, Filters
<1>2. Registries
  BY FreshRegistry DEF Init, Registries
<1>3. Contained
  <2>1. \A s \in Streams : StreamState(stream[s])
    BY ArchiveAssumption DEF Init, StreamState
  <2> QED
    BY <2>1 DEF Init, Contained
<1>4. Calls
  BY DEF Init, Calls, CallState, Idle
<1> QED
  BY <1>1, <1>2, <1>3, <1>4 DEF IInv

LEMMA FiltersStep ==
  ASSUME Filters, NEW p \in Procs, NEW f, filter' = [filter EXCEPT ![p] = f], Sound(f)
  PROVE  Filters'
<1>1. filter' = [q \in Procs |-> filter'[q]]
  BY DEF Filters
<1>2. \A q \in Procs : filter'[q] = IF q = p THEN f ELSE filter[q]
  BY DEF Filters
<1>3. ASSUME NEW q \in Procs PROVE Sound(filter[q])'
  <2>1. PICK g : g = filter'[q]
    OBVIOUS
  <2>2. Sound(g)
    BY <1>2, <2>1 DEF Filters
  <2> QED
    BY <2>1, <2>2
<1> QED
  BY <1>1, <1>3 DEF Filters

LEMMA NewBlockedInv ==
  ASSUME IInv, NEW p \in Procs, NEW size \in Sizes, NEW kind \in Kinds, NEW seed \in Seeds,
         NewBlocked(p, size, kind, seed)
  PROVE  IInv'
<1>1. UNCHANGED <<registry, stream, io>>
  BY DEF NewBlocked
<1>2. PICK hasher \in Hashers : hasher = ResolveHasher(p, kind)
  BY DEF NewBlocked, ResolveHasher, IInv, Registries
<1>3. size.numBlocks \in Nat /\ size.k \in Nat
  BY StreamAssumption
<1>4. PICK f : f = AllocBlocked(size.numBlocks, size.k, seed, kind, hasher, TRUE)
  OBVIOUS
<1>5. Sound(f)
  BY <1>3, <1>4, Allocated
<1>6. filter' = [filter EXCEPT ![p] = f]
  BY <1>2, <1>4 DEF NewBlocked
<1>7. Filters'
  BY <1>5, <1>6, FiltersStep DEF IInv
<1>8. Registries' /\ Contained'
  BY <1>1 DEF IInv, Registries, Contained
<1>9. Calls'
  BY <1>1, CallsSame DEF IInv
<1> QED
  BY <1>7, <1>8, <1>9 DEF IInv

LEMMA AddInv ==
  ASSUME IInv, NEW p \in Procs, NEW x \in Entries, Add(p, x)
  PROVE  IInv'
<1>1. UNCHANGED <<registry, stream, io>>
  BY DEF Add
<1>2. BuiltFilter(filter[p]) /\ HoldsMembers(filter[p])
  BY DEF Add, IInv, Filters, Sound
<1>3. PICK f : f = Insert(filter[p], x)
  OBVIOUS
<1>4. Sound(f)
  BY <1>2, <1>3, Inserted
<1>5. filter' = [filter EXCEPT ![p] = f]
  BY <1>3 DEF Add
<1>6. Filters'
  BY <1>4, <1>5, FiltersStep DEF IInv
<1>7. Registries' /\ Contained'
  BY <1>1 DEF IInv, Registries, Contained
<1>8. Calls'
  BY <1>1, CallsSame DEF IInv
<1> QED
  BY <1>6, <1>7, <1>8 DEF IInv

LEMMA RegisterInv ==
  ASSUME IInv, NEW p \in Procs, NEW kind \in Custom, NEW hasher \in MayRegister[kind],
         RegisterHash(p, kind, hasher)
  PROVE  IInv'
<1>1. UNCHANGED <<filter, stream, io>>
  BY DEF RegisterHash
<1>2. io[p] = NoCall
  BY CallCases DEF RegisterHash, IInv, Calls
<1>3. hasher \in Hashers /\ kind \in Kinds
  BY StreamAssumption DEF Kinds
<1>4. Registries'
  BY <1>3 DEF RegisterHash, IInv, Registries
<1>5. \A q \in Procs : q # p => registry'[q] = registry[q]
  BY DEF RegisterHash, IInv, Registries
<1>6. Calls'
  BY <1>1, <1>2, <1>5, CallsSame DEF IInv
<1>7. Filters' /\ Contained'
  BY <1>1 DEF IInv, Filters, Contained
<1> QED
  BY <1>4, <1>6, <1>7 DEF IInv

LEMMA RestartInv ==
  ASSUME IInv, NEW p \in Procs, Restart(p)
  PROVE  IInv'
<1>1. Filters'
  BY SoundZero, FiltersStep DEF Restart, IInv
<1>2. Registries'
  BY FreshRegistry DEF Restart, IInv, Registries
<1>3. Contained' /\ Keeps
  BY DEF Restart, IInv, Contained, Keeps
<1>4. Calls'
  <2>1. PICK d : d = NoCall
    OBVIOUS
  <2>2. CallState(d, p)'
    BY <2>1 DEF CallState, Idle
  <2>3. io' = [io EXCEPT ![p] = d]
    BY <2>1 DEF Restart
  <2>4. \A q \in Procs \ {p} : registry'[q] = registry[q]
    BY DEF Restart, IInv, Registries
  <2> QED
    BY <1>3, <2>2, <2>3, <2>4, CallsStep DEF IInv
<1> QED
  BY <1>1, <1>2, <1>3, <1>4 DEF IInv

\* A step of a call that leaves filter, registry and streams as they are.
LEMMA OwnStep ==
  ASSUME IInv, NEW p \in Procs, NEW d, io' = [io EXCEPT ![p] = d],
         UNCHANGED <<filter, registry, stream>>, CallState(d, p)
  PROVE  IInv'
<1>1. Keeps
  BY DEF Keeps
<1>2. CallState(d, p)'
  BY <1>1, CallKept
<1>3. Calls'
  BY <1>1, <1>2, CallsStep DEF IInv
<1>4. Filters' /\ Registries' /\ Contained'
  BY DEF IInv, Filters, Registries, Contained
<1> QED
  BY <1>3, <1>4 DEF IInv

LEMMA ReturnInv ==
  ASSUME IInv, NEW p \in Procs, Return(p)
  PROVE  IInv'
<1>1. PICK d : d = NoCall
  OBVIOUS
<1>2. CallState(d, p)
  BY <1>1 DEF CallState, Idle
<1> QED
  BY <1>1, <1>2, OwnStep DEF Return

LEMMA WriteHeaderInv ==
  ASSUME IInv, NEW p \in Procs, NEW s \in Streams, NEW n \in Cuts \cup {HeaderBytes},
         WriteHeader(p, s, n)
  PROVE  IInv'
<1>1. UNCHANGED <<filter, registry>> /\ ~stream[s].open
  BY DEF WriteHeader
<1>2. n \in Nat
  BY StreamAssumption
<1>3. PICK st : st = [Contents(p, filter[p]) EXCEPT !.len = n]
  OBVIOUS
<1>4. WrittenStream(st) /\ st.open
  BY <1>2, <1>3, ContentsFacts DEF IInv, Filters
<1>5. stream' = [stream EXCEPT ![s] = st]
  BY <1>3 DEF WriteHeader
<1>6. Contained' /\ Keeps
  BY <1>1, <1>4, <1>5, ContainedStep DEF IInv
<1>7. PICK d : d = IF n < HeaderBytes THEN Ended(n, n, TRUE)
                   ELSE [NoCall EXCEPT !.pc = "write", !.s = s]
  OBVIOUS
<1>8. CallState(d, p)'
  <2>1. CASE n < HeaderBytes
    <3>1. Returns(d)
      BY <1>2, <1>7, <2>1, EndedFacts
    <3> QED
      BY <3>1 DEF CallState, Returns
  <2>2. CASE ~(n < HeaderBytes)
    <3>1. d = Started("write", s)
      BY <1>7, <2>2 DEF Started
    <3>2. stream'[s].open
      BY <1>4, <1>5 DEF IInv, Contained
    <3> QED
      BY <3>1, <3>2 DEF CallState, Writes
  <2> QED
    BY <2>1, <2>2
<1>9. io' = [io EXCEPT ![p] = d]
  BY <1>7 DEF WriteHeader
<1>10. Calls'
  BY <1>1, <1>6, <1>8, <1>9, CallsStep DEF IInv
<1>11. Filters' /\ Registries'
  BY <1>1 DEF IInv, Filters, Registries
<1> QED
  BY <1>6, <1>10, <1>11 DEF IInv

LEMMA LessIsBoolean ==
  ASSUME NEW m, NEW n
  PROVE  \E b \in BOOLEAN : b = (m < n)
<1>1. CASE m < n
  <2>1. TRUE = (m < n)
    BY <1>1
  <2> QED
    BY <2>1
<1>2. CASE ~(m < n)
  <2>1. FALSE = (m < n)
    BY <1>2
  <2> QED
    BY <2>1
<1> QED
  BY <1>1, <1>2

LEMMA WritePayloadInv ==
  ASSUME IInv, NEW p \in Procs, NEW n \in Cuts \cup {PayloadBytes(filter[p])},
         WritePayload(p, n)
  PROVE  IInv'
<1>1. UNCHANGED <<filter, registry>>
  BY DEF WritePayload
<1>2. PICK s \in Streams : Writes(io[p], s)
  BY CallCases DEF WritePayload, IInv, Calls
<1>3. io[p].s = s /\ stream[s].open /\ WrittenStream(stream[s])
  BY <1>2, StartedFacts, OpenStream DEF Writes, IInv
<1>4. PICK m \in Nat : m = HeaderBytes + n
  <2>1. n \in Nat
    BY StreamAssumption, PayloadNat DEF IInv, Filters
  <2> QED
    BY <2>1, StreamAssumption
<1>5. PICK st : st = [stream[s] EXCEPT !.len = m]
  OBVIOUS
<1>6. WrittenStream(st) /\ st.open /\ st.hdr = stream[s].hdr /\ st.snap = stream[s].snap
  BY <1>3, <1>5, Lengthened
<1>7. stream' = [stream EXCEPT ![s] = st]
  BY <1>3, <1>4, <1>5 DEF WritePayload
<1>8. Contained' /\ Keeps
  BY <1>6, <1>7, ContainedStep DEF IInv
<1>9. PICK err \in BOOLEAN : err = (n < PayloadBytes(filter[p]))
  BY LessIsBoolean
<1>10. PICK d : d = Ended(m, m, err)
  OBVIOUS
<1>11. io' = [io EXCEPT ![p] = d]
  BY <1>4, <1>9, <1>10 DEF WritePayload
<1>12. CallState(d, p)'
  BY <1>10, EndedFacts DEF CallState, Returns
<1>13. Calls'
  BY <1>1, <1>8, <1>11, <1>12, CallsStep DEF IInv
<1>14. Filters' /\ Registries'
  BY <1>1 DEF IInv, Filters, Registries
<1> QED
  BY <1>8, <1>13, <1>14 DEF IInv

LEMMA ReadMagicInv ==
  ASSUME IInv, NEW p \in Procs, NEW s \in Streams, ReadMagic(p, s)
  PROVE  IInv'
<1>1. PICK got \in Nat : got = Got(s, 0, MagicBytes)
  BY StreamAssumption, GotNat DEF IInv
<1>2. stream[s].open
  BY DEF ReadMagic
<1>3. PICK d : d = IF got < MagicBytes THEN Ended(0, got, TRUE)
                   ELSE IF ~Readable(stream[s].hdr) THEN Ended(MagicBytes, MagicBytes, TRUE)
                   ELSE [NoCall EXCEPT !.pc = "rest", !.s = s]
  OBVIOUS
<1>4. io' = [io EXCEPT ![p] = d]
  BY <1>1, <1>3 DEF ReadMagic
<1>5. CallState(d, p)
  <2>1. CASE got < MagicBytes
    <3>1. Returns(d)
      BY <1>3, <2>1, EndedFacts
    <3> QED
      BY <3>1 DEF CallState
  <2>2. CASE ~(got < MagicBytes) /\ ~Readable(stream[s].hdr)
    <3>1. Returns(d)
      BY <1>3, <2>2, EndedFacts, StreamAssumption
    <3> QED
      BY <3>1 DEF CallState
  <2>3. CASE ~(got < MagicBytes) /\ Readable(stream[s].hdr)
    <3>1. d = Started("rest", s)
      BY <1>3, <2>3 DEF Started
    <3> QED
      BY <1>2, <2>3, <3>1 DEF CallState, Reads
  <2> QED
    BY <2>1, <2>2, <2>3
<1> QED
  BY <1>4, <1>5, OwnStep DEF ReadMagic

LEMMA ReadRestInv ==
  ASSUME IInv, NEW p \in Procs, ReadRest(p)
  PROVE  IInv'
<1>1. PICK s \in Streams : Reads(io[p], s)
  BY CallCases DEF ReadRest, IInv, Calls
<1>2. io[p].s = s /\ stream[s].open /\ Readable(stream[s].hdr) /\ Holds(stream[s])
  BY <1>1, StartedFacts, OpenStream DEF Reads, IInv
<1> DEFINE hdr == stream[s].hdr
           f == stream[s].snap
<1>3. PICK got \in Nat : got = Got(s, MagicBytes, HeaderBytes - MagicBytes)
  BY StreamAssumption, GotNat DEF IInv
<1>4. PICK hasher : hasher = ResolveHasher(p, hdr.hash)
  OBVIOUS
<1>5. PICK nf : nf = AllocBlocked(hdr.numBlocks, hdr.k, hdr.seed, hdr.hash, hasher, RangeMode(hdr))
  OBVIOUS
<1>6. PICK d : d = IF got < HeaderBytes - MagicBytes
                     THEN Ended(MagicBytes, MagicBytes + got, TRUE)
                   ELSE IF hasher = NoHasher THEN Ended(HeaderBytes, HeaderBytes, TRUE)
                   ELSE Loading(s, nf)
  OBVIOUS
<1>7. io' = [io EXCEPT ![p] = d]
  <2>1. [io[p] EXCEPT !.pc = "payload", !.nf = nf] = Loading(s, nf)
    BY <1>1 DEF Reads, Loading
  <2>2. io' = [io EXCEPT ![p] =
          IF got < HeaderBytes - MagicBytes THEN Ended(MagicBytes, MagicBytes + got, TRUE)
          ELSE IF hasher = NoHasher THEN Ended(HeaderBytes, HeaderBytes, TRUE)
          ELSE [io[p] EXCEPT !.pc = "payload", !.nf = nf]]
    BY <1>2, <1>3, <1>4, <1>5 DEF ReadRest, IInv, Calls
  <2> QED
    BY <1>6, <2>1, <2>2
<1>8. CallState(d, p)
  <2>1. CASE got < HeaderBytes - MagicBytes
    <3>1. MagicBytes \in Nat /\ MagicBytes + got \in Nat
      BY StreamAssumption
    <3>2. Returns(d)
      BY <1>6, <2>1, <3>1, EndedFacts
    <3> QED
      BY <3>2 DEF CallState
  <2>2. CASE ~(got < HeaderBytes - MagicBytes) /\ hasher = NoHasher
    <3>1. Returns(d)
      BY <1>6, <2>2, EndedFacts, StreamAssumption
    <3> QED
      BY <3>1 DEF CallState
  <2>3. CASE ~(got < HeaderBytes - MagicBytes) /\ hasher # NoHasher
    <3>1. hdr.hash \in Kinds /\ hasher = registry[p][hdr.hash] /\ hasher \in Hashers
      BY <1>4, <2>3 DEF ResolveHasher, IInv, Registries
    <3>2. /\ hdr.numBlocks = f.numBlocks /\ hdr.k = f.k /\ hdr.seed = f.seed
          /\ hdr.hash = f.hash /\ RangeMode(hdr) = f.fastrange
      BY <1>2 DEF Holds, RangeMode
    <3>3. BuiltFilter(f)
      <4>1. f # ZeroFilter
        BY <3>1, <3>2, StreamAssumption DEF ZeroFilter, Kinds
      <4>2. Sound(f)
        BY <1>2 DEF Holds
      <4> QED
        BY <4>1, <4>2 DEF Sound
    <3>4. nf = Emptied(f, registry[p][f.hash])
      BY <1>5, <3>1, <3>2 DEF Emptied
    <3>5. d = Loading(s, nf)
      BY <1>6, <2>3
    <3>6. Loads(d, p, s)
      BY <1>2, <3>1, <3>2, <3>3, <3>4, <3>5 DEF Loads
    <3> QED
      BY <3>6 DEF CallState
  <2> QED
    BY <2>1, <2>2, <2>3
<1> QED
  BY <1>7, <1>8, OwnStep DEF ReadRest

(***************************************************************************)
(* What a ReadPayload does: it leaves the receiver alone, or puts there    *)
(* the filter that was written.                                            *)
(***************************************************************************)
LEMMA ReadPayloadStep ==
  ASSUME IInv, NEW p \in Procs, ReadPayload(p)
  PROVE  \E s \in Streams, n \in Nat, short \in BOOLEAN :
           /\ Loads(io[p], p, s) /\ io[p].s = s
           /\ io' = [io EXCEPT ![p] = Ended(n, n, short)]
           /\ filter' = IF short THEN filter ELSE [filter EXCEPT ![p] = Received(p, s)]
           /\ ~short => stream[s].len >= HeaderBytes + PayloadBytes(stream[s].snap)
           /\ UNCHANGED <<registry, stream>>
<1>1. PICK s \in Streams : Loads(io[p], p, s)
  BY CallCases DEF ReadPayload, IInv, Calls
<1>2. io[p].s = s /\ io[p].nf = Emptied(stream[s].snap, registry[p][stream[s].snap.hash])
  BY <1>1, LoadingFacts DEF Loads
<1>3. PayloadBytes(io[p].nf) \in Nat
  BY <1>1, LoadsSound, PayloadNat DEF IInv
<1>4. PICK got \in Nat : got = Got(s, HeaderBytes, PayloadBytes(io[p].nf))
  BY <1>3, StreamAssumption, GotNat DEF IInv
<1>5. PICK n \in Nat : n = HeaderBytes + got
  BY <1>4, StreamAssumption
<1>6. PICK short \in BOOLEAN : short = (got < PayloadBytes(io[p].nf))
  BY LessIsBoolean
<1>7. io' = [io EXCEPT ![p] = Ended(n, n, short)]
  BY <1>2, <1>4, <1>5, <1>6 DEF ReadPayload
<1>8. filter' = IF short THEN filter ELSE [filter EXCEPT ![p] = Received(p, s)]
  BY <1>2, <1>4, <1>6 DEF ReadPayload, Received
<1>9. UNCHANGED <<registry, stream>>
  BY DEF ReadPayload
<1>10. ~short => stream[s].len >= HeaderBytes + PayloadBytes(stream[s].snap)
  <2>1. PICK len \in Nat : len = stream[s].len
    BY <1>1, OpenStream DEF Loads, IInv, WrittenStream
  <2>2. io[p].nf.numBlocks = stream[s].snap.numBlocks
    <3>1. BuiltFilter(stream[s].snap)
      BY <1>1, LoadsSound DEF IInv
    <3>2. AtLeastOne(stream[s].snap.numBlocks) = stream[s].snap.numBlocks
      BY <3>1, AtLeastOneFact DEF BuiltFilter
    <3> QED
      BY <1>2, <3>2 DEF Emptied, AllocBlocked
  <2>3. PICK m : m = PayloadBytes(io[p].nf) /\ m = PayloadBytes(stream[s].snap)
    BY <2>2 DEF PayloadBytes
  <2>4. m \in Nat \ {0}
    BY <1>1, <2>3, LoadsSound, PayloadPositive DEF IInv
  <2>5. HeaderBytes \in Nat
    BY StreamAssumption
  <2>6. ASSUME ~short PROVE len >= HeaderBytes + m
    <3>1. ~(got < m)
      BY <1>6, <2>3, <2>6
    <3>2. got = Got(s, HeaderBytes, m)
      BY <1>4, <2>3
    <3> QED
      BY <2>1, <2>4, <2>5, <3>1, <3>2 DEF Got
  <2> QED
    BY <2>1, <2>3, <2>6
<1> QED
  BY <1>1, <1>2, <1>7, <1>8, <1>9, <1>10

LEMMA ReadPayloadInv ==
  ASSUME IInv, NEW p \in Procs, ReadPayload(p)
  PROVE  IInv'
<1>1. PICK s \in Streams, n \in Nat, short \in BOOLEAN :
        /\ Loads(io[p], p, s)
        /\ io' = [io EXCEPT ![p] = Ended(n, n, short)]
        /\ filter' = IF short THEN filter ELSE [filter EXCEPT ![p] = Received(p, s)]
        /\ UNCHANGED <<registry, stream>>
  BY ReadPayloadStep
<1>2. Filters'
  <2>1. CASE short
    BY <1>1, <2>1 DEF IInv, Filters
  <2>2. CASE ~short
    <3>1. PICK f : f = Received(p, s)
      OBVIOUS
    <3>2. Sound(f)
      BY <1>1, <3>1, LoadsSound, ReceivedFacts DEF IInv
    <3> QED
      BY <1>1, <2>2, <3>1, <3>2, FiltersStep DEF IInv
  <2> QED
    BY <2>1, <2>2
<1>3. Registries' /\ Contained' /\ Keeps
  BY <1>1 DEF IInv, Registries, Contained, Keeps
<1>4. PICK d : d = Ended(n, n, short)
  OBVIOUS
<1>5. CallState(d, p)'
  BY <1>4, EndedFacts DEF CallState, Returns
<1>6. Calls'
  BY <1>1, <1>3, <1>4, <1>5, CallsStep DEF IInv
<1> QED
  BY <1>2, <1>3, <1>6 DEF IInv

LEMMA NextInv == IInv /\ [Next]_vars => IInv'
<1> SUFFICES ASSUME IInv, [Next]_vars PROVE IInv'
  OBVIOUS
<1>1. CASE Next
  <2>1. PICK p \in Procs :
    \/ \E size \in Sizes, kind \in Kinds, seed \in Seeds : NewBlocked(p, size, kind, seed)
    \/ \E x \in Entries : Add(p, x)
    \/ \E kind \in Custom : \E hasher \in MayRegister[kind] : RegisterHash(p, kind, hasher)
    \/ Restart(p)
    \/ \E s \in Streams, n \in Cuts \cup {HeaderBytes} : WriteHeader(p, s, n)
    \/ \E n \in Cuts \cup {PayloadBytes(filter[p])} : WritePayload(p, n)
    \/ \E s \in Streams : ReadMagic(p, s)
    \/ ReadRest(p)
    \/ ReadPayload(p)
    \/ Return(p)
    BY <1>1 DEF Next
  <2> QED
    BY <2>1, NewBlockedInv, AddInv, RegisterInv, RestartInv, WriteHeaderInv, WritePayloadInv,
       ReadMagicInv, ReadRestInv, ReadPayloadInv, ReturnInv
<1>2. CASE UNCHANGED vars
  <2>1. UNCHANGED <<filter, registry, stream, io>>
    BY <1>2 DEF vars
  <2>2. Filters' /\ Registries' /\ Contained'
    BY <2>1 DEF IInv, Filters, Registries, Contained
  <2>3. Calls'
    BY <2>1, CallsSame DEF IInv
  <2> QED
    BY <2>2, <2>3 DEF IInv
<1> QED
  BY <1>1, <1>2

(***************************************************************************)
(* THEOREM: the invariant holds in every behaviour of every instance.      *)
(***************************************************************************)
THEOREM Invariance == Spec => []IInv
<1> QED
  BY InitInv, NextInv, PTL DEF Spec

-----------------------------------------------------------------------------
(***************************************************************************)
(* What the invariant implies.                                             *)
(***************************************************************************)
LEMMA InvType == IInv => TypeOK
<1> SUFFICES ASSUME IInv PROVE TypeOK
  OBVIOUS
<1>1. \A p \in Procs : filter[p] = ZeroFilter \/ BuiltFilter(filter[p])
  BY DEF IInv, Filters, Sound
<1>2. registry \in [Procs -> [Kinds -> Hashers \cup {NoHasher}]]
  BY DEF IInv, Registries
<1>3. ASSUME NEW s \in Streams PROVE stream[s].len \in Nat /\ stream[s].open \in BOOLEAN
  <2>1. CASE stream[s] = NoStream
    BY <2>1 DEF NoStream
  <2>2. CASE WrittenStream(stream[s])
    <3>1. stream[s].len \in Nat
      BY <2>2 DEF WrittenStream
    <3>2. stream[s].open = TRUE
      BY <2>2, WrittenIsOpen
    <3> QED
      BY <3>1, <3>2
  <2> QED
    BY <2>1, <2>2 DEF IInv, Contained, StreamState
<1>4. ASSUME NEW p \in Procs
      PROVE  /\ io[p].pc \in {"idle", "write", "rest", "payload", "return"}
             /\ io[p].n \in Nat /\ io[p].used \in Nat
             /\ io[p].nf = ZeroFilter \/ BuiltFilter(io[p].nf)
  <2> DEFINE c == io[p]
  <2>1. c.pc \in {"idle", "write", "rest", "payload", "return"}
    BY CallCases DEF IInv, Calls
  <2>2. c.n \in Nat /\ c.used \in Nat /\ (c.nf = ZeroFilter \/ BuiltFilter(c.nf))
    <3>0. CallState(c, p)
      BY DEF IInv, Calls
    <3> HIDE DEF c
    <3>1. CASE Idle(c)
      BY <3>1, NoCallIs DEF Idle
    <3>2. ASSUME NEW s \in Streams, Writes(c, s)
          PROVE  c.n = 0 /\ c.used = 0 /\ c.nf = ZeroFilter
      BY <3>2, StartedFacts DEF Writes
    <3>3. ASSUME NEW s \in Streams, Reads(c, s)
          PROVE  c.n = 0 /\ c.used = 0 /\ c.nf = ZeroFilter
      BY <3>3, StartedFacts DEF Reads
    <3>4. ASSUME NEW s \in Streams, Loads(c, p, s)
          PROVE  c.n = 0 /\ c.used = 0 /\ BuiltFilter(c.nf)
      <4>1. c.n = 0 /\ c.used = 0
        BY <3>4, LoadingFacts DEF Loads
      <4> QED
        BY <3>4, <4>1, LoadsSound DEF IInv
    <3>5. CASE Returns(c)
      <4>1. PICK n \in Nat, used \in Nat, err \in BOOLEAN : c = Ended(n, used, err)
        BY <3>5 DEF Returns
      <4> QED
        BY <4>1, EndedFacts
    <3> QED
      BY <3>0, <3>1, <3>2, <3>3, <3>4, <3>5 DEF CallState
  <2> QED
    BY <2>1, <2>2
<1> QED
  BY <1>1, <1>2, <1>3, <1>4 DEF TypeOK

(***************************************************************************)
(* THEOREM: TypeOK.  Filters are the zero value or fully built, whatever   *)
(* was read and wherever a call stopped.                                   *)
(***************************************************************************)
THEOREM TypeCorrect == Spec => []TypeOK
<1> QED
  BY Invariance, InvType, PTL

LEMMA InvMembers == IInv => NoFalseNegatives
<1> SUFFICES ASSUME IInv, NEW p \in Procs PROVE HoldsMembers(filter[p])
  BY DEF NoFalseNegatives
<1>1. CASE filter[p] = ZeroFilter
  <2>1. filter[p].members = {}
    BY <1>1 DEF ZeroFilter
  <2> QED
    BY <2>1 DEF HoldsMembers
<1>2. CASE HoldsMembers(filter[p])
  BY <1>2
<1> QED
  BY <1>1, <1>2 DEF IInv, Filters, Sound

(***************************************************************************)
(* THEOREM: what was inserted tests positive, through streams, hosts,      *)
(* versions, restarts and registrations: no bit is lost on the way, and    *)
(* none is looked for elsewhere.                                           *)
(***************************************************************************)
THEOREM NeverFalseNegative == Spec => []NoFalseNegatives
<1> QED
  BY Invariance, InvMembers, PTL

LEMMA InvAlike == IInv => EqualAnswersAlike
<1> SUFFICES ASSUME IInv, NEW p \in Procs, NEW q \in Procs, NEW x \in Entries,
                    Equal(filter[p], filter[q]), filter[p].hasher = filter[q].hasher
             PROVE  Test(filter[p], x) = Test(filter[q], x)
  BY DEF EqualAnswersAlike
<1>1. HashOfEntry(filter[p], x) = HashOfEntry(filter[q], x)
  BY DEF HashOfEntry, Equal
<1>2. BitsOfEntry(filter[p], x) = BitsOfEntry(filter[q], x)
  BY <1>1, SamePositions DEF BitsOfEntry, Equal
<1> QED
  BY <1>2 DEF Test, Equal

(***************************************************************************)
(* THEOREM: Equal compares every field that decides an answer.             *)
(***************************************************************************)
THEOREM EqualMeansAlike == Spec => []EqualAnswersAlike
<1> QED
  BY Invariance, InvAlike, PTL

-----------------------------------------------------------------------------
(***************************************************************************)
(* What a step does to the receiver of a ReadFrom.                         *)
(***************************************************************************)
LEMMA StepOfCall ==
  ASSUME IInv, Next, NEW p \in Procs
  PROVE  \/ io'[p] = io[p] /\ filter'[p] = filter[p]
         \/ io'[p] = io[p] /\ io[p].pc = "idle"
         \/ io'[p] = NoCall
         \/ filter' = filter
            /\ (io[p].pc \in {"rest", "payload"} /\ io'[p].pc = "return" => io'[p].err)
         \/ ReadPayload(p)
<1>1. PICK q \in Procs :
    \/ \E size \in Sizes, kind \in Kinds, seed \in Seeds : NewBlocked(q, size, kind, seed)
    \/ \E x \in Entries : Add(q, x)
    \/ \E kind \in Custom : \E hasher \in MayRegister[kind] : RegisterHash(q, kind, hasher)
    \/ Restart(q)
    \/ \E s \in Streams, n \in Cuts \cup {HeaderBytes} : WriteHeader(q, s, n)
    \/ \E n \in Cuts \cup {PayloadBytes(filter[q])} : WritePayload(q, n)
    \/ \E s \in Streams : ReadMagic(q, s)
    \/ ReadRest(q)
    \/ ReadPayload(q)
    \/ Return(q)
  BY DEF Next
<1>2. CASE q # p
  <2>1. io'[p] = io[p]
    BY <1>1, <1>2 DEF IInv, Calls, NewBlocked, Add, RegisterHash, Restart, WriteHeader,
      WritePayload, ReadMagic, ReadRest, ReadPayload, Return
  <2>2. filter'[p] = filter[p]
    BY <1>1, <1>2 DEF IInv, Filters, NewBlocked, Add, RegisterHash, Restart, WriteHeader,
      WritePayload, ReadMagic, ReadRest, ReadPayload, Return
  <2> QED
    BY <2>1, <2>2
<1>3. CASE q = p
  <2>1. ASSUME NEW size \in Sizes, NEW kind \in Kinds, NEW seed \in Seeds,
               NewBlocked(p, size, kind, seed)
        PROVE  io'[p] = io[p] /\ io[p].pc = "idle"
    BY <2>1 DEF NewBlocked
  <2>2. ASSUME NEW x \in Entries, Add(p, x) PROVE io'[p] = io[p] /\ io[p].pc = "idle"
    BY <2>2 DEF Add
  <2>3. ASSUME NEW kind \in Custom, NEW hasher \in MayRegister[kind],
               RegisterHash(p, kind, hasher)
        PROVE  io'[p] = io[p] /\ io[p].pc = "idle"
    BY <2>3 DEF RegisterHash
  <2>4. CASE Restart(p)
    BY <2>4 DEF Restart, IInv, Calls
  <2>5. ASSUME NEW s \in Streams, NEW n \in Cuts \cup {HeaderBytes}, WriteHeader(p, s, n)
        PROVE  filter' = filter /\ io[p].pc = "idle"
    BY <2>5 DEF WriteHeader
  <2>6. ASSUME NEW n \in Cuts \cup {PayloadBytes(filter[p])}, WritePayload(p, n)
        PROVE  filter' = filter /\ io[p].pc = "write"
    BY <2>6 DEF WritePayload
  <2>7. ASSUME NEW s \in Streams, ReadMagic(p, s)
        PROVE  filter' = filter /\ io[p].pc = "idle"
    BY <2>7 DEF ReadMagic
  <2>8. CASE ReadRest(p)
    <3>1. filter' = filter
      BY <2>8 DEF ReadRest
    <3>2. io'[p].pc = "return" => io'[p].err
      <4>1. PICK a, b, d, e :
              /\ io' = [io EXCEPT ![p] = IF a THEN Ended(MagicBytes, b, TRUE)
                                         ELSE IF d THEN Ended(HeaderBytes, HeaderBytes, TRUE)
                                         ELSE [io[p] EXCEPT !.pc = "payload", !.nf = e]]
        BY <2>8 DEF ReadRest, IInv, Calls
      <4>2. \/ \E n, used : io'[p] = Ended(n, used, TRUE)
            \/ io'[p] = [io[p] EXCEPT !.pc = "payload", !.nf = e]
        BY <4>1 DEF IInv, Calls
      <4>3. CASE \E n, used : io'[p] = Ended(n, used, TRUE)
        BY <4>3 DEF Ended, NoCall
      <4>4. CASE io'[p] = [io[p] EXCEPT !.pc = "payload", !.nf = e]
        <5>1. PICK s \in Streams : Reads(io[p], s)
          BY <2>8, CallCases DEF ReadRest, IInv, Calls
        <5>2. io'[p] = Loading(s, e)
          BY <4>4, <5>1 DEF Reads, Loading
        <5> QED
          BY <5>2, LoadingFacts
      <4> QED
        BY <4>2, <4>3, <4>4
    <3> QED
      BY <3>1, <3>2
  <2>9. CASE ReadPayload(p)
    BY <2>9
  <2>10. CASE Return(p)
    BY <2>10 DEF Return, IInv, Calls
  <2> QED
    BY <1>1, <1>3, <2>1, <2>2, <2>3, <2>4, <2>5, <2>6, <2>7, <2>8, <2>9, <2>10
<1> QED
  BY <1>2, <1>3

\* What a ReadPayload leaves behind.
LEMMA Landing ==
  ASSUME IInv, NEW p \in Procs, ReadPayload(p)
  PROVE  \E s \in Streams :
           /\ io[p].s = s /\ io'[p].pc = "return"
           /\ io'[p].err => filter'[p] = filter[p]
           /\ ~io'[p].err => stream[s].len >= HeaderBytes + PayloadBytes(stream[s].snap)
           /\ ~io'[p].err =>
                filter'[p] = [stream[s].snap EXCEPT !.hasher = registry[p][stream[s].snap.hash],
                                                    !.members = StillMembers(p, s)]
<1>1. PICK s \in Streams, n \in Nat, short \in BOOLEAN :
        /\ Loads(io[p], p, s) /\ io[p].s = s
        /\ io' = [io EXCEPT ![p] = Ended(n, n, short)]
        /\ filter' = IF short THEN filter ELSE [filter EXCEPT ![p] = Received(p, s)]
        /\ ~short => stream[s].len >= HeaderBytes + PayloadBytes(stream[s].snap)
  BY ReadPayloadStep
<1>2. io'[p] = Ended(n, n, short)
  BY <1>1 DEF IInv, Calls
<1>3. io'[p].pc = "return" /\ (io'[p].err <=> short)
  BY <1>2, EndedFacts
<1>4. CASE short
  BY <1>1, <1>3, <1>4
<1>5. CASE ~short
  <2>1. filter'[p] = Received(p, s)
    BY <1>1, <1>5 DEF IInv, Filters
  <2>2. /\ Holds(stream[s]) /\ BuiltFilter(stream[s].snap)
        /\ registry[p][stream[s].snap.hash] \in Hashers
    BY <1>1, LoadsSound DEF IInv
  <2> QED
    BY <1>1, <1>3, <1>5, <2>1, <2>2, ReceivedFacts
<1> QED
  BY <1>4, <1>5

LEMMA StepKeepsReceiver ==
  ASSUME IInv, IInv', [Next]_vars
  PROVE  \A p \in Procs : (Reading(p) \/ Failed(p))' => filter'[p] = filter[p]
<1> SUFFICES ASSUME NEW p \in Procs, io'[p].pc \in {"rest", "payload"} \/ io'[p].err
             PROVE  filter'[p] = filter[p]
  BY DEF Reading, Failed
<1>1. CASE UNCHANGED vars
  BY <1>1 DEF vars
<1>2. CASE Next
  <2>1. CASE io'[p] = io[p] /\ filter'[p] = filter[p]
    BY <2>1
  <2>2. CASE io'[p] = io[p] /\ io[p].pc = "idle"
    <3>1. io[p] = NoCall
      BY <2>2, CallCases DEF IInv, Calls
    <3>2. io'[p].pc = "idle" /\ io'[p].err = FALSE
      BY <2>2, <3>1, NoCallIs
    <3> QED
      BY <3>2
  <2>3. CASE io'[p] = NoCall
    BY <2>3, NoCallIs
  <2>4. CASE filter' = filter
    BY <2>4
  <2>5. CASE ReadPayload(p)
    BY <2>5, Landing
  <2> QED
    BY <1>2, <2>1, <2>2, <2>3, <2>4, <2>5, StepOfCall
<1> QED
  BY <1>1, <1>2

(***************************************************************************)
(* THEOREM: a ReadFrom that fails, at whichever read, the first included,  *)
(* and for whichever reason, leaves its receiver as it was.                *)
(***************************************************************************)
THEOREM FailedReadHarmless == Spec => FailedReadLeavesReceiver
<1>1. IInv /\ IInv' /\ [Next]_vars =>
        [\A p \in Procs : (Reading(p) \/ Failed(p))' => filter'[p] = filter[p]]_vars
  BY StepKeepsReceiver
<1> QED
  BY <1>1, Invariance, PTL DEF Spec, FailedReadLeavesReceiver

LEMMA StepReloads ==
  ASSUME IInv, [Next]_vars
  PROVE  \A p \in Procs : ReadSucceeds(p) =>
           LET st   == stream[io[p].s]
               snap == st.snap
           IN  /\ st.len >= HeaderBytes + PayloadBytes(snap)
               /\ filter'[p] = [snap EXCEPT !.hasher = registry[p][snap.hash],
                                            !.members = StillMembers(p, io[p].s)]
<1> SUFFICES ASSUME NEW p \in Procs, ReadSucceeds(p)
             PROVE  LET st   == stream[io[p].s]
                        snap == st.snap
                    IN  /\ st.len >= HeaderBytes + PayloadBytes(snap)
                        /\ filter'[p] = [snap EXCEPT !.hasher = registry[p][snap.hash],
                                                     !.members = StillMembers(p, io[p].s)]
  OBVIOUS
<1>1. io[p].pc \in {"rest", "payload"} /\ io'[p].pc = "return" /\ ~io'[p].err
  BY DEF ReadSucceeds, Reading
<1>2. Next
  BY <1>1 DEF vars
<1>3. ReadPayload(p)
  <2>1. io'[p] # io[p]
    BY <1>1
  <2>2. io'[p] # NoCall
    BY <1>1, NoCallIs
  <2> QED
    BY <1>1, <1>2, <2>1, <2>2, StepOfCall
<1> QED
  BY <1>1, <1>3, Landing

(***************************************************************************)
(* THEOREM: a ReadFrom that succeeds yields the filter that was written,   *)
(* bit for bit whatever the two byte orders, under the function that is    *)
(* registered here.                                                        *)
(***************************************************************************)
THEOREM ReloadIsWhatWasWritten == Spec => ReloadsWhatWasWritten
<1>1. IInv /\ [Next]_vars =>
        [\A p \in Procs : ReadSucceeds(p) =>
           LET st   == stream[io[p].s]
               snap == st.snap
           IN  /\ st.len >= HeaderBytes + PayloadBytes(snap)
               /\ filter'[p] = [snap EXCEPT !.hasher = registry[p][snap.hash],
                                            !.members = StillMembers(p, io[p].s)]]_vars
  BY StepReloads
<1> QED
  BY <1>1, Invariance, PTL DEF Spec, ReloadsWhatWasWritten
=============================================================================
