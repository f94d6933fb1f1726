---------------------------- MODULE FilterStream ----------------------------
(***************************************************************************)
(* Saving and loading blocked filters (filter_blocked.go, hash.go):        *)
(* processes on little- and big-endian hosts write filters to byte         *)
(* streams, read them back, crash and restart.                             *)
(*                                                                         *)
(* A process runs one operation at a time.  WriteTo is two Write calls     *)
(* (header, payload), ReadFrom three ReadFull calls (magic, rest of the    *)
(* header, payload); between them other processes run, and the process may *)
(* die.  A write may stop short; a read meets the end of a stream wherever *)
(* its writer stopped, or where it is now.                                 *)
(*                                                                         *)
(* A payload word is what the writer's memory holds, byte for byte; it is  *)
(* represented by the value that a little-endian host reads in it.         *)
(***************************************************************************)
EXTENDS BlockProbe

CONSTANTS Procs,
          BigEndian,     \* the processes on big-endian hosts
          Keys,
          Hashed,        \* entries whose hash the caller computes (AddHash)
          Seeds,
          BuiltIn,       \* hash kinds every process knows
          Custom,        \* hash kinds a process may register (>= 128)
          Hashers,       \* hash functions
          HasherOf,      \* built-in kinds |-> their function
          MayRegister,   \* custom kinds |-> the functions registered under it
          HashOf,        \* <<hasher, seed, key>> |-> 128-bit hash
          RawHash,       \* the 128-bit hash of each member of Hashed
          Sizes,         \* [numBlocks, k] of the filters that are built
          Streams,
          Archive,       \* streams there from the start |-> their contents
          ByteBits,      \* bits of a byte
          MagicBytes, HeaderBytes,
          Cuts,          \* where a write may stop short
          NoKind, NoHasher

ASSUME StreamAssumption ==
  /\ BigEndian \subseteq Procs
  /\ HasherOf \in [BuiltIn -> Hashers]
  /\ MayRegister \in [Custom -> SUBSET Hashers]
  /\ BuiltIn \cap Custom = {} /\ NoKind \notin BuiltIn \cup Custom
  /\ NoHasher \notin Hashers
  /\ HashOf \in [Hashers \X Seeds \X Keys -> HashValue]
  /\ RawHash \in [Hashed -> HashValue] /\ Keys \cap Hashed = {}
  /\ ByteBits \in Nat \ {0} /\ WordBits % ByteBits = 0
  /\ MagicBytes \in Nat \ {0} /\ HeaderBytes \in Nat /\ MagicBytes < HeaderBytes
  /\ Cuts \subseteq Nat
  /\ Sizes \subseteq [numBlocks : Nat, k : Nat]

VARIABLES filter,    \* each process's *BlockedFilter
          registry,  \* each process's hashRegistry
          stream,    \* what has been written
          io         \* each process's call of WriteTo or ReadFrom
vars == <<filter, registry, stream, io>>

-----------------------------------------------------------------------------
(***************************************************************************)
(* Filters.  members (history) are what was inserted, in this process or   *)
(* in one that wrote the stream it was read from: keys, which the filter   *)
(* hashes with its own function and seed, and hashes given to AddHash.     *)
(***************************************************************************)
Entries == Keys \cup Hashed

Kinds == BuiltIn \cup Custom

\* var f BlockedFilter
ZeroFilter == [numBlocks |-> 0, k |-> 0, fastrange |-> FALSE, seed |-> 0,
               hash |-> NoKind, hasher |-> NoHasher, words |-> <<>>, members |-> {}]

AtLeastOne(n) == IF n < 1 THEN 1 ELSE n

AllocBlocked(numBlocks, k, seed, hash, hasher, fastrange) ==
  LET nb == AtLeastOne(numBlocks) IN
  [numBlocks |-> nb, k |-> AtLeastOne(k), fastrange |-> fastrange, seed |-> seed,
   hash |-> hash, hasher |-> hasher,
   words |-> [w \in 0 .. nb * BlockWords - 1 |-> {}], members |-> {}]

HashOfEntry(f, x) == IF x \in Hashed THEN RawHash[x] ELSE HashOf[<<f.hasher, f.seed, x>>]

BitsOfEntry(f, x) == Positions(f, HashOfEntry(f, x))

\* Test and TestHash; Add and AddHash.
Test(f, x) == \A p \in BitsOfEntry(f, x) : p[2] \in f.words[p[1]]

Insert(f, x) ==
  [f EXCEPT !.words = [w \in DOMAIN @ |->
                         @[w] \cup {p[2] : p \in {q \in BitsOfEntry(f, x) : q[1] = w}}],
            !.members = @ \cup {x}]

\* A filter that a constructor built: its fields, and what each may be.
BuiltFilter(f) ==
  /\ f = [numBlocks |-> f.numBlocks, k |-> f.k, fastrange |-> f.fastrange, seed |-> f.seed,
          hash |-> f.hash, hasher |-> f.hasher, words |-> f.words, members |-> f.members]
  /\ f.numBlocks \in Nat \ {0} /\ f.k \in Nat \ {0} /\ f.fastrange \in BOOLEAN
  /\ f.seed \in Seeds /\ f.hash \in Kinds /\ f.hasher \in Hashers
  /\ f.words \in BitArrays(f) /\ f.members \subseteq Entries

\* What was inserted tests positive.
HoldsMembers(f) == \A x \in f.members : Test(f, x)

Sound(f) == f = ZeroFilter \/ (BuiltFilter(f) /\ HoldsMembers(f))

\* Equal, mutated: the range mode is not compared.
EqualShapes(f, g) ==
  /\ f.numBlocks = g.numBlocks /\ f.k = g.k /\ f.seed = g.seed
  /\ f.hash = g.hash
  /\ f.words = g.words

Equal(f, g) ==
  /\ f.numBlocks = g.numBlocks /\ f.k = g.k /\ f.seed = g.seed
  /\ f.hash = g.hash /\ f.fastrange = g.fastrange
  /\ f.words = g.words

-----------------------------------------------------------------------------
(***************************************************************************)
(* Streams.  len is the number of bytes written, snap (history) the filter *)
(* that the stream holds.                                                  *)
(***************************************************************************)
WordBytes == WordBits \div ByteBits

\* bits.ReverseBytes64.
ReverseBytes(word) ==
  {(WordBytes - 1 - (b \div ByteBits)) * ByteBits + (b % ByteBits) : b \in word}

\* blocksAsBytes: a word's bytes in memory, or a word with these bytes in memory.
InMemory(p, word) == IF p \in BigEndian THEN ReverseBytes(word) ELSE word

PayloadBytes(f) == f.numBlocks * BlockWords * WordBytes

NoStream == [len |-> 0, open |-> FALSE]

Header(p, f) ==
  [ours |-> TRUE, version |-> 6, big |-> p \in BigEndian, hash |-> f.hash,
   fastrange |-> f.fastrange, numBlocks |-> f.numBlocks, k |-> f.k, seed |-> f.seed]

Contents(p, f) ==
  [len |-> HeaderBytes + PayloadBytes(f), open |-> TRUE, hdr |-> Header(p, f),
   raw |-> [w \in DOMAIN f.words |-> InMemory(p, f.words[w])], snap |-> f]

\* A stream that is not ours, v1 - v4 and a later version are refused.
Readable(hdr) == hdr.ours /\ hdr.version \in {5, 6}

(***************************************************************************)
(* What a readable stream is: a filter that was built and filled, or the   *)
(* zero value, as a host of either byte order writes it.                   *)
(***************************************************************************)
Holds(st) ==
  LET f == st.snap IN
  /\ st.hdr.big \in BOOLEAN
  /\ st.hdr.numBlocks = f.numBlocks /\ st.hdr.k = f.k /\ st.hdr.seed = f.seed
  /\ st.hdr.hash = f.hash /\ st.hdr.fastrange = f.fastrange
  /\ st.raw = [w \in DOMAIN f.words |->
                 IF st.hdr.big THEN ReverseBytes(f.words[w]) ELSE f.words[w]]
  /\ Sound(f)

WrittenStream(st) ==
  /\ st = [len |-> st.len, open |-> TRUE, hdr |-> st.hdr, raw |-> st.raw, snap |-> st.snap]
  /\ st.len \in Nat
  /\ Readable(st.hdr) => Holds(st)

\* The files there from the start were written by a filter, whole or not.
ASSUME ArchiveAssumption == \A s \in DOMAIN Archive : WrittenStream(Archive[s])

\* The range mode byte of a v5 file is zero: modulo.  Mutated, every file is
\* read as this version writes it.
RangeModeCurrent(hdr) == TRUE

RangeMode(hdr) == hdr.fastrange

\* Bytes a ReadFull of n bytes gets at an offset of a stream.
Got(s, offset, n) ==
  LET left == IF stream[s].len > offset THEN stream[s].len - offset ELSE 0
  IN  IF left < n THEN left ELSE n

(***************************************************************************)
(* A call in progress, and how it ends: n and err are what it returns,     *)
(* used (history) the bytes it took from the stream or put in it.          *)
(***************************************************************************)
NoCall == [pc |-> "idle", s |-> "none", nf |-> ZeroFilter, n |-> 0, used |-> 0,
           err |-> FALSE]

Ended(n, used, err) ==
  [NoCall EXCEPT !.pc = "return", !.n = n, !.used = used, !.err = err]

-----------------------------------------------------------------------------
Fresh == [kind \in Kinds |-> IF kind \in BuiltIn THEN HasherOf[kind] ELSE NoHasher]

Init ==
  /\ filter = [p \in Procs |-> ZeroFilter]
  /\ registry = [p \in Procs |-> Fresh]
  /\ stream = [s \in Streams |-> IF s \in DOMAIN Archive THEN Archive[s] ELSE NoStream]
  /\ io = [p \in Procs |-> NoCall]

\* resolveHasher, and mutated: an unknown kind is given the default function.
ResolveHasherOrDefault(p, kind) ==
  IF kind \in Kinds /\ registry[p][kind] # NoHasher THEN registry[p][kind]
  ELSE CHOOSE h \in Hashers : \E d \in BuiltIn : h = HasherOf[d]

ResolveHasher(p, kind) == IF kind \in Kinds THEN registry[p][kind] ELSE NoHasher

\* NewBlocked panics on an unknown hash: nothing is built.
NewBlocked(p, size, kind, seed) ==
  /\ io[p].pc = "idle"
  /\ ResolveHasher(p, kind) # NoHasher
  /\ filter' = [filter EXCEPT ![p] =
       AllocBlocked(size.numBlocks, size.k, seed, kind, ResolveHasher(p, kind), TRUE)]
  /\ UNCHANGED <<registry, stream, io>>

Add(p, x) ==
  /\ io[p].pc = "idle" /\ filter[p] # ZeroFilter
  /\ filter' = [filter EXCEPT ![p] = Insert(filter[p], x)]
  /\ UNCHANGED <<registry, stream, io>>

(***************************************************************************)
(* A function registered before under this kind is replaced; the filters   *)
(* that resolved it keep it.  And mutated, they take the new one.          *)
(***************************************************************************)
RegisterHashForAll(p, kind, hasher) ==
  /\ io[p].pc = "idle"
  /\ registry' = [registry EXCEPT ![p][kind] = hasher]
  /\ filter' = IF filter[p].hash = kind THEN [filter EXCEPT ![p].hasher = hasher] ELSE filter
  /\ UNCHANGED <<stream, io>>

RegisterHash(p, kind, hasher) ==
  /\ io[p].pc = "idle"
  /\ registry' = [registry EXCEPT ![p][kind] = hasher]
  /\ UNCHANGED <<filter, stream, io>>

\* The process dies, whatever it was doing, and starts again.
Restart(p) ==
  /\ filter' = [filter EXCEPT ![p] = ZeroFilter]
  /\ registry' = [registry EXCEPT ![p] = Fresh]
  /\ io' = [io EXCEPT ![p] = NoCall]
  /\ UNCHANGED stream

Return(p) ==
  /\ io[p].pc = "return"
  /\ io' = [io EXCEPT ![p] = NoCall]
  /\ UNCHANGED <<filter, registry, stream>>

(***************************************************************************)
(* WriteTo, MarshalBinary: the header, then the words.                     *)
(***************************************************************************)
WriteHeader(p, s, n) ==
  /\ io[p].pc = "idle" /\ ~stream[s].open
  /\ n <= HeaderBytes
  /\ stream' = [stream EXCEPT ![s] = [Contents(p, filter[p]) EXCEPT !.len = n]]
  /\ io' = [io EXCEPT ![p] = IF n < HeaderBytes
                               THEN Ended(n, n, TRUE)
                               ELSE [NoCall EXCEPT !.pc = "write", !.s = s]]
  /\ UNCHANGED <<filter, registry>>

WritePayload(p, n) ==
  /\ io[p].pc = "write"
  /\ n <= PayloadBytes(filter[p])
  /\ stream' = [stream EXCEPT ![io[p].s].len = HeaderBytes + n]
  /\ io' = [io EXCEPT ![p] =
       Ended(HeaderBytes + n, HeaderBytes + n, n < PayloadBytes(filter[p]))]
  /\ UNCHANGED <<filter, registry>>

(***************************************************************************)
(* ReadFrom, UnmarshalBinary.  What is not readable is refused after the   *)
(* magic; and mutated, the receiver has been cleared by then.              *)
(***************************************************************************)
ReadMagicCleared(p, s) ==
  LET got == Got(s, 0, MagicBytes) IN
  /\ io[p].pc = "idle" /\ stream[s].open
  /\ io' = [io EXCEPT ![p] =
       IF got < MagicBytes THEN Ended(0, got, TRUE)
       ELSE IF ~Readable(stream[s].hdr) THEN Ended(MagicBytes, MagicBytes, TRUE)
       ELSE [NoCall EXCEPT !.pc = "rest", !.s = s]]
  /\ filter' = IF io'[p].err THEN [filter EXCEPT ![p] = ZeroFilter] ELSE filter
  /\ UNCHANGED <<registry, stream>>

ReadMagic(p, s) ==
  LET got == Got(s, 0, MagicBytes) IN
  /\ io[p].pc = "idle" /\ stream[s].open
  /\ io' = [io EXCEPT ![p] =
       IF got < MagicBytes THEN Ended(0, got, TRUE)
       ELSE IF ~Readable(stream[s].hdr) THEN Ended(MagicBytes, MagicBytes, TRUE)
       ELSE [NoCall EXCEPT !.pc = "rest", !.s = s]]
  /\ UNCHANGED <<filter, registry, stream>>

ReadRest(p) ==
  LET s   == io[p].s
      hdr == stream[s].hdr
      got == Got(s, MagicBytes, HeaderBytes - MagicBytes)
      hasher == ResolveHasher(p, hdr.hash)
  IN
  /\ io[p].pc = "rest"
  /\ io' = [io EXCEPT ![p] =
       IF got < HeaderBytes - MagicBytes THEN Ended(MagicBytes, MagicBytes + got, TRUE)
       ELSE IF hasher = NoHasher THEN Ended(HeaderBytes, HeaderBytes, TRUE)
       ELSE [@ EXCEPT !.pc = "payload",
                      !.nf = AllocBlocked(hdr.numBlocks, hdr.k, hdr.seed, hdr.hash,
                                          hasher, RangeMode(hdr))]]
  /\ UNCHANGED <<filter, registry, stream>>

(***************************************************************************)
(* The words land in the new filter as the stream has them, and are turned *)
(* round when the writer's host had the other byte order.                  *)
(***************************************************************************)
Native(p, big) == (p \in BigEndian) = big

\* Loaded, mutated: the bytes are never turned round.
LoadedAsIs(p, s) == [w \in DOMAIN stream[s].raw |-> InMemory(p, stream[s].raw[w])]

Loaded(p, s) ==
  [w \in DOMAIN stream[s].raw |->
     IF Native(p, stream[s].hdr.big)
       THEN InMemory(p, stream[s].raw[w])
       ELSE ReverseBytes(InMemory(p, stream[s].raw[w]))]

(***************************************************************************)
(* What is still promised of a loaded filter (history): everything, unless *)
(* another function than the writer's was registered under the hash kind   *)
(* ("register the same kind with a compatible Hasher"), which only entries *)
(* hashed by the caller survive.                                           *)
(***************************************************************************)
StillMembers(p, s) ==
  LET snap == stream[s].snap IN
  IF registry[p][snap.hash] \in {snap.hasher, NoHasher} THEN snap.members
                                                         ELSE snap.members \cap Hashed

\* ReadPayload, mutated: the receiver is replaced before the error is looked at.
ReadPayloadAnyway(p) ==
  LET s   == io[p].s
      got == Got(s, HeaderBytes, PayloadBytes(io[p].nf))
      n   == HeaderBytes + got
  IN
  /\ io[p].pc = "payload"
  /\ io' = [io EXCEPT ![p] = Ended(n, n, got < PayloadBytes(io[p].nf))]
  /\ filter' = [filter EXCEPT ![p] = io[p].nf]
  /\ UNCHANGED <<registry, stream>>

ReadPayload(p) ==
  LET s   == io[p].s
      got == Got(s, HeaderBytes, PayloadBytes(io[p].nf))
      n   == HeaderBytes + got
      short == got < PayloadBytes(io[p].nf)
  IN
  /\ io[p].pc = "payload"
  /\ io' = [io EXCEPT ![p] = Ended(n, n, short)]
  /\ filter' = IF short THEN filter
               ELSE [filter EXCEPT ![p] =
                      [io[p].nf EXCEPT !.words = Loaded(p, s),
                                       !.members = StillMembers(p, s)]]
  /\ UNCHANGED <<registry, stream>>

Next ==
  \E p \in Procs :
    \/ \E size \in Sizes, kind \in Kinds, seed \in Seeds : NewBlocked(p, size, kind, seed)
    \/ \E x \in Entries : Add(p, x)
    \/ \E kind \in Custom : \E hasher \in MayRegister[kind] : RegisterHash(p, kind, hasher)
    \/ Restart(p)
    \/ \E s \in Streams, n \in Cuts \cup {HeaderBytes} : WriteHeader(p, s, n)
    \/ \E n \in Cuts \cup {PayloadBytes(filter[p])} : WritePayload(p, n)
    \/ \E s \in Streams : ReadMagic(p, s)
    \/ ReadRest(p)
    \/ ReadPayload(p)
    \/ Return(p)

Spec == Init /\ [][Next]_vars

-----------------------------------------------------------------------------
\* Every variable has its type; a filter is the zero value or fully built.
TypeOK ==
  /\ \A p \in Procs : filter[p] = ZeroFilter \/ BuiltFilter(filter[p])
  /\ registry \in [Procs -> [Kinds -> Hashers \cup {NoHasher}]]
  /\ \A s \in Streams : stream[s].len \in Nat /\ stream[s].open \in BOOLEAN
  /\ \A p \in Procs : /\ io[p].pc \in {"idle", "write", "rest", "payload", "return"}
                      /\ io[p].n \in Nat /\ io[p].used \in Nat
                      /\ io[p].nf = ZeroFilter \/ BuiltFilter(io[p].nf)

(***************************************************************************)
(* Every key ever inserted in a filter tests positive in it, also after    *)
(* the filter went through streams, through hosts of either byte order,    *)
(* through a v5 file and through restarts, and after another function was  *)
(* registered under its hash kind.  So does every hash given to AddHash,   *)
(* whatever seed and function the filter has, also when it was loaded with *)
(* another function.                                                       *)
(***************************************************************************)
NoFalseNegatives == \A p \in Procs : HoldsMembers(filter[p])

(***************************************************************************)
(* A ReadFrom that fails, at whichever of its reads (also the first: a     *)
(* short or bad magic, a version that is refused) and for whichever        *)
(* reason, leaves the receiver as it was, bit for bit: no step into or     *)
(* within the call, nor the one in which it fails, changes it.  Nor does a *)
(* WriteTo that fails.                                                     *)
(***************************************************************************)
Reading(p) == io[p].pc \in {"rest", "payload"}

Failed(p) == io[p].pc = "return" /\ io[p].err

FailedReadLeavesReceiver ==
  [][\A p \in Procs : (Reading(p) \/ Failed(p))' => filter'[p] = filter[p]]_vars

(***************************************************************************)
(* A ReadFrom that succeeds leaves in the receiver the filter that was     *)
(* written, with the function that is registered here under its hash kind: *)
(* it never succeeds without one, nor on a stream whose writer stopped     *)
(* short.                                                                  *)
(***************************************************************************)
ReadSucceeds(p) == Reading(p) /\ io'[p].pc = "return" /\ ~io'[p].err

ReloadsWhatWasWritten ==
  [][\A p \in Procs : ReadSucceeds(p) =>
       LET st   == stream[io[p].s]
           snap == st.snap
       IN  /\ st.len >= HeaderBytes + PayloadBytes(snap)
           /\ filter'[p] = [snap EXCEPT !.hasher = registry[p][snap.hash],
                                        !.members = StillMembers(p, io[p].s)]]_vars

(***************************************************************************)
(* Equal filters with one hash function give equal answers, also when one  *)
(* of them was read from a v5 file and finds its blocks by modulo.         *)
(***************************************************************************)
EqualAnswersAlike ==
  \A p, q \in Procs :
    /\ Equal(filter[p], filter[q])
    /\ filter[p] # ZeroFilter /\ filter[p].hasher = filter[q].hasher
    => \A x \in Entries : Test(filter[p], x) = Test(filter[q], x)

(***************************************************************************)
(* "It returns the number of bytes read" (the comment on ReadFrom).        *)
(***************************************************************************)
CountsBytesRead == \A p \in Procs : io[p].pc = "return" => io[p].n = io[p].used
=============================================================================
