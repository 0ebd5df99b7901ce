----------------------------- MODULE BatchProofs -----------------------------
(***************************************************************************)
(* Proofs about BatchCalls for every set of threads, texts, lists, calls   *)
(* and patterns, every chunk size and every limit.  A call is told from    *)
(* the texts it was given alone: while it works, what it has put out is    *)
(* what they promise as far as it has come, and none of them raises        *)
(* (Going); the chunk in hand is the next of them (Chunked).  So it does   *)
(* not matter what becomes of the list, of the caches or of the shared     *)
(* object meanwhile, as long as what the caches hold is what would have    *)
(* been compiled or built (CachesSound).  What is left is which item       *)
(* raises when several would: a batch reads a whole chunk before it works  *)
(* on it, so an item that is no string wins over an untranslatable one of  *)
(* its own chunk and loses to one of an earlier chunk, and a chunk's start *)
(* is a multiple of the chunk size (OnBoundary).  By the same order a call *)
(* that meets a text its scan never leaves is one whose texts say that it  *)
(* never returns, and a call that returns is not.                          *)
(***************************************************************************)
EXTENDS BatchCalls, FiniteSetTheorems, SequenceTheorems, TLAPS

\* What a list may hold.
Items == Texts \cup {NotStr}

\* Where a call may be.
Stages == {"idle", "read", "work", "store", "scan", "refused", "done"}

\* The answers there are to a text.
Made(c) == {Treated(x, c) : x \in Texts}

\* A call has the fields it is created with, and is nothing but those.
ShapeOK(r) ==
  /\ DOMAIN r = DOMAIN Idle
  /\ r = [f \in DOMAIN Idle |-> r[f]]

\* Nothing refuses the call before it reads a text.
Accepted(c, s) ==
  ArgumentError(c, s, PatternError(c)) = "none"

\* The text is one that the call raises for.
Untold(r, i) == Strict(r.asked) /\ r.texts[i] \in Untranslatable

\* The batch reads its texts by BATCH_CHUNK_SIZE.
ByChunks(c) == c.op \in {"slugify_batch", "transliterate_batch"}

\* The place is the start of a chunk.
OnBoundary(n) == \E q \in 0..n : n = q * BATCH_CHUNK_SIZE

\* A call under way: what it has put out is what its first texts promise.
Going(r) ==
  /\ Accepted(r.asked, r.texts)
  /\ r.start <= Len(r.out)
  /\ Len(r.out) <= r.start + Len(r.chunk)
  /\ r.start + Len(r.chunk) <= Len(r.texts)
  /\ r.out \in Seq(Made(r.asked))
  /\ \A i \in 1..Len(r.out) :
       /\ r.texts[i] \in Texts /\ ~Untold(r, i) /\ ~Endless(r.texts[i], r.asked)
       /\ r.out[i] = Treated(r.texts[i], r.asked)
  /\ r.asked.op \notin Walks => r.settings = Settings(r.asked.pattern, r.asked.pairs)
  /\ ByChunks(r.asked) /\ r.start < Len(r.texts) => OnBoundary(r.start)

\* The chunk in hand is what the texts hold from start on.
Chunked(r) ==
  /\ \A i \in 1..Len(r.chunk) : r.chunk[i] = r.texts[r.start + i]
  /\ ~IsBatch(r.asked) => r.start = 0 /\ Len(r.chunk) = Len(r.texts)
  /\ ByChunks(r.asked) => Len(r.chunk) = AtMost(BATCH_CHUNK_SIZE, Len(r.texts) - r.start)

\* The types of a call's fields.
CallTypes(r) ==
  /\ ShapeOK(r) /\ r.stage \in Stages
  /\ r.texts \in Seq(Items) /\ r.start \in Nat /\ r.chunk \in Seq(Texts)

\* What is known of a call at each of its stages.
CallInv(r) ==
  /\ CallTypes(r)
  /\ r.stage = "done" =>
       ~NeverReturns(r.asked, r.texts) /\ r.answer = Promised(r.asked, r.texts)
  /\ r.stage = "scan" => NeverReturns(r.asked, r.texts)
  /\ r.stage \in {"read", "work", "store", "refused"} => Going(r)
  /\ r.stage = "read" => r.chunk = <<>> /\ IsBatch(r.asked)
  /\ r.stage \in {"work", "store", "refused"} => Chunked(r)
  /\ r.stage \in {"store", "refused"} => Len(r.out) < r.start + Len(r.chunk)
  /\ r.stage = "store" => /\ r.asked.op \notin Walks /\ Needs(r)
                          /\ r.built = Build(r.asked.pairs) /\ r.built # <<>>
  /\ r.stage = "refused" => Untold(r, Len(r.out) + 1)

\* Neither cache is infinite, so that their sizes are numbers.
CachesFinite == IsFiniteSet(DOMAIN regexes) /\ IsFiniteSet(DOMAIN automata)

\* The inductive invariant.
IInv ==
  /\ TypeOK /\ CachesFinite /\ CachesSound
  /\ slugifier = Settings(slugifier.regex, slugifier.pairs)
  /\ \A t \in Threads : CallInv(call[t])

\* A thread without a call keeps the invariant.
LEMMA IdleShape == ShapeOK(Idle) /\ CallInv(Idle)
BY DEF Idle, ShapeOK, CallInv, CallTypes, Stages

\* The fields of a call that has been accepted.
LEMMA StartedFacts ==
  ASSUME NEW c, NEW s, NEW z, NEW r, r = Started(c, s, z)
  PROVE  /\ ShapeOK(r) /\ r.stage = "read" /\ r.asked = c /\ r.texts = s /\ r.settings = z
         /\ r.start = 0 /\ r.chunk = <<>> /\ r.out = <<>> /\ r.built = <<>>
BY DEF Started, Idle, ShapeOK

\* The fields of a call that has come to its end.
LEMMA EndedFacts ==
  ASSUME NEW q, NEW a, NEW r, r = Ended(q, a)
  PROVE  /\ ShapeOK(r) /\ r.stage = "done" /\ r.asked = q.asked /\ r.texts = q.texts /\ r.answer = a
         /\ r.start = 0 /\ r.chunk = <<>>
BY DEF Ended, Idle, ShapeOK

\* The fields of a call that has put out one more answer.
LEMMA AnsweredFacts ==
  ASSUME NEW q, NEW x, ShapeOK(q), NEW r, r = Answered(q, x)
  PROVE  /\ ShapeOK(r) /\ r.stage = "work" /\ r.asked = q.asked /\ r.texts = q.texts
         /\ r.settings = q.settings /\ r.start = q.start /\ r.chunk = q.chunk
         /\ r.out = Append(q.out, x)
BY DEF Answered, Idle, ShapeOK

\* What integer division is.
LEMMA DivFacts ==
  ASSUME NEW a \in Nat, NEW n \in Nat \ {0}
  PROVE  /\ a \div n \in Nat
         /\ n * (a \div n) <= a /\ a < n * (a \div n) + n
<1>1. a \div n \in Int
  OBVIOUS
<1>2. a % n \in 0..(n - 1)
  OBVIOUS
<1>3. a = n * (a \div n) + (a % n)
  OBVIOUS
<1>4. n * (a \div n) <= a /\ a < n * (a \div n) + n
  <2>. DEFINE d == a \div n
  <2>1. n * d \in Int
    BY <1>1
  <2>. QED
    BY <1>1, <1>2, <1>3, <2>1
<1>5. a \div n >= 0
  <2>1. SUFFICES ASSUME a \div n <= -1 PROVE FALSE
    BY <1>1
  <2>2. PICK d \in Nat : a \div n = -1 - d
    <3>1. -1 - (a \div n) \in Nat
      BY <2>1, <1>1
    <3>. QED
      BY <3>1, <1>1
  <2>3. n * (-1 - d) = -n - n * d /\ n * d >= 0
    OBVIOUS
  <2>. QED
    BY <2>2, <2>3, <1>4
<1>. QED
  BY <1>1, <1>4, <1>5

\* A number below the start of chunk q + 1 is in a chunk up to q.
LEMMA DivBelow ==
  ASSUME NEW a \in Nat, NEW n \in Nat \ {0}, NEW q \in Nat, a < (q + 1) * n
  PROVE  a \div n <= q
<1>1. a \div n \in Nat /\ n * (a \div n) <= a
  BY DivFacts
<1>2. SUFFICES ASSUME q + 1 <= a \div n PROVE FALSE
  BY <1>1
<1>3. PICK d \in Nat : a \div n = q + 1 + d
  <2>1. (a \div n) - (q + 1) \in Nat
    BY <1>1, <1>2
  <2>. QED
    BY <2>1, <1>1
<1>4. n * (q + 1 + d) = (q + 1) * n + n * d /\ n * d >= 0
  OBVIOUS
<1>. QED
  BY <1>1, <1>3, <1>4

\* A number from the start of chunk q on is in a chunk from q on.
LEMMA DivAbove ==
  ASSUME NEW a \in Nat, NEW n \in Nat \ {0}, NEW q \in Nat, q * n <= a
  PROVE  q <= a \div n
<1>1. a \div n \in Nat /\ a < n * (a \div n) + n
  BY DivFacts
<1>2. SUFFICES ASSUME a \div n + 1 <= q PROVE FALSE
  BY <1>1
<1>3. PICK d \in Nat : q = a \div n + 1 + d
  <2>1. q - (a \div n + 1) \in Nat
    BY <1>1, <1>2
  <2>. QED
    BY <2>1, <1>1
<1>4. PICK e \in Nat : e = a \div n
  BY <1>1
<1>5. (e + 1 + d) * n = n * e + n + n * d /\ n * d >= 0
  OBVIOUS
<1>. QED
  BY <1>1, <1>3, <1>4, <1>5

\* A cache that is stored into stays within its limit, and holds the new entry
\* and none that it did not hold before.
LEMMA StoredFacts ==
  ASSUME NEW cache, NEW max \in Nat \ {0}, NEW key, NEW value, NEW after,
         IsFiniteSet(DOMAIN cache), Cardinality(DOMAIN cache) <= max,
         after = Stored(cache, max, key, value)
  PROVE  /\ IsFiniteSet(DOMAIN after) /\ Cardinality(DOMAIN after) <= max
         /\ \A k \in DOMAIN after :
              IF k = key THEN after[k] = value ELSE k \in DOMAIN cache /\ after[k] = cache[k]
<1>. DEFINE full == Cardinality(DOMAIN cache) >= max /\ key \notin DOMAIN cache
            kept == IF full THEN {} ELSE DOMAIN cache
<1>1. after = [k \in kept \cup {key} |-> IF k = key THEN value ELSE cache[k]]
  BY DEF Stored
<1>2. DOMAIN after = kept \cup {key}
  BY <1>1
<1>3. IsFiniteSet(kept) /\ Cardinality(kept) \in Nat
  BY FS_EmptySet, FS_CardinalityType
<1>4. /\ IsFiniteSet(kept \cup {key})
      /\ Cardinality(kept \cup {key}) =
           IF key \in kept THEN Cardinality(kept) ELSE Cardinality(kept) + 1
  BY <1>3, FS_AddElement
<1>5. Cardinality(DOMAIN cache) \in Nat
  BY FS_CardinalityType
<1>6. Cardinality(kept \cup {key}) <= max
  <2>1. CASE full
    BY <2>1, <1>4, FS_EmptySet
  <2>2. CASE key \in DOMAIN cache
    BY <2>2, <1>4
  <2>3. CASE ~full /\ key \notin DOMAIN cache
    BY <2>3, <1>4, <1>5
  <2>. QED
    BY <2>1, <2>2, <2>3
<1>7. ASSUME NEW k \in DOMAIN after
      PROVE  IF k = key THEN after[k] = value ELSE k \in DOMAIN cache /\ after[k] = cache[k]
  BY <1>7, <1>1, <1>2
<1>. QED
  BY <1>2, <1>4, <1>6, <1>7

\* A call that its arguments refuse ends as promised.
LEMMA RefusedCall ==
  ASSUME NEW c, NEW s \in Seq(Items), NEW z, NEW e,
         e = ArgumentError(c, s, PatternError(c)), e # "none"
  PROVE  CallInv(Ended(Started(c, s, z), Raised(e)))
<1>1. ~NeverReturns(c, s) /\ Promised(c, s) = Raised(e)
  BY DEF Promised, NeverReturns
<1>2. PICK q : q = Started(c, s, z)
  OBVIOUS
<1>3. q.asked = c /\ q.texts = s
  BY <1>2, StartedFacts
<1>4. PICK r : r = Ended(q, Raised(e))
  OBVIOUS
<1>5. /\ ShapeOK(r) /\ r.stage = "done" /\ r.asked = q.asked /\ r.texts = q.texts
      /\ r.answer = Raised(e) /\ r.start = 0 /\ r.chunk = <<>>
  BY <1>4, EndedFacts
<1>. QED
  BY <1>1, <1>2, <1>3, <1>4, <1>5 DEF CallInv, CallTypes, Stages

\* A batch that is accepted has everything to do, and nothing in hand.
LEMMA BatchStarts ==
  ASSUME NEW c, NEW s \in Seq(Items), NEW z, Accepted(c, s), IsBatch(c),
         c.op \notin Walks => z = Settings(c.pattern, c.pairs)
  PROVE  CallInv(Started(c, s, z))
<1>1. PICK r : r = Started(c, s, z)
  OBVIOUS
<1>2. /\ ShapeOK(r) /\ r.stage = "read" /\ r.asked = c /\ r.texts = s /\ r.settings = z
      /\ r.start = 0 /\ r.chunk = <<>> /\ r.out = <<>> /\ r.built = <<>>
  BY <1>1, StartedFacts
<1>3. Going(r)
  <2>1. OnBoundary(0)
    BY BatchCallsAssumption DEF OnBoundary
  <2>. QED
    BY <1>2, <2>1 DEF Going
<1>. QED
  BY <1>1, <1>2, <1>3 DEF CallInv, CallTypes, Stages

\* A single call that is accepted has its one text in hand.
LEMMA SingleStarts ==
  ASSUME NEW c, NEW x \in Texts, NEW z, Accepted(c, <<x>>), ~IsBatch(c),
         z = Settings(c.pattern, c.pairs)
  PROVE  CallInv([Started(c, <<x>>, z) EXCEPT !.stage = "work", !.chunk = <<x>>])
<1>1. PICK q : q = Started(c, <<x>>, z)
  OBVIOUS
<1>2. /\ ShapeOK(q) /\ q.asked = c /\ q.texts = <<x>> /\ q.settings = z
      /\ q.start = 0 /\ q.out = <<>>
  BY <1>1, StartedFacts
<1>3. PICK r : r = [q EXCEPT !.stage = "work", !.chunk = <<x>>]
  OBVIOUS
<1>4. /\ ShapeOK(r) /\ r.stage = "work" /\ r.asked = c /\ r.texts = <<x>> /\ r.settings = z
      /\ r.start = 0 /\ r.chunk = <<x>> /\ r.out = <<>>
  BY <1>2, <1>3 DEF ShapeOK, Idle
<1>5. ~ByChunks(c)
  BY DEF ByChunks, IsBatch, Walks
<1>6. Going(r)
  BY <1>4, <1>5 DEF Going
<1>7. Chunked(r)
  BY <1>4, <1>5 DEF Chunked
<1>8. CallTypes(r)
  BY <1>4 DEF CallTypes, Stages, Items
<1>. QED
  BY <1>1, <1>3, <1>4, <1>6, <1>7, <1>8 DEF CallInv

\* A call that ends with what it promised keeps the invariant.
LEMMA EndsAs ==
  ASSUME NEW r, CallTypes(r), NEW a, ~NeverReturns(r.asked, r.texts),
         Promised(r.asked, r.texts) = a
  PROVE  CallInv(Ended(r, a))
<1>1. PICK e : e = Ended(r, a)
  OBVIOUS
<1>2. /\ ShapeOK(e) /\ e.stage = "done" /\ e.asked = r.asked /\ e.texts = r.texts
      /\ e.answer = a /\ e.start = 0 /\ e.chunk = <<>>
  BY <1>1, EndedFacts
<1>. QED
  BY <1>1, <1>2 DEF CallInv, CallTypes, Stages

\* A call that has put out an answer to every text has kept its promise.
LEMMA FullEnds ==
  ASSUME NEW r, CallTypes(r), Going(r), Len(r.out) = Len(r.texts)
  PROVE  CallInv(Ended(r, Returned(r.out)))
<1>1. r.texts \in Seq(Items)
  BY DEF CallTypes
<1>2. /\ r.out \in Seq(Made(r.asked)) /\ Accepted(r.asked, r.texts)
      /\ \A i \in 1..Len(r.texts) :
           /\ r.texts[i] \in Texts /\ ~Untold(r, i) /\ ~Endless(r.texts[i], r.asked)
           /\ r.out[i] = Treated(r.texts[i], r.asked)
  BY <1>1 DEF Going
<1>3. DOMAIN r.texts = 1..Len(r.texts) /\ DOMAIN r.out = 1..Len(r.texts)
  BY <1>1, <1>2
<1>4. r.out = [i \in DOMAIN r.texts |-> Treated(r.texts[i], r.asked)]
  <2>1. r.out = [i \in 1..Len(r.texts) |-> r.out[i]]
    BY <1>2, <1>3
  <2>. QED
    BY <2>1, <1>2, <1>3
<1>5. Odd(r.texts) = {}
  BY <1>2, <1>3, BatchCallsAssumption DEF Odd
<1>6. {i \in DOMAIN r.texts : Strict(r.asked) /\ r.texts[i] \in Untranslatable} = {}
  BY <1>2, <1>3 DEF Untold
<1>7. Promised(r.asked, r.texts) = Returned(r.out)
  BY <1>2, <1>4, <1>5, <1>6 DEF Promised, Accepted
<1>8. ~NeverReturns(r.asked, r.texts)
  BY <1>2, <1>3 DEF NeverReturns
<1>. QED
  BY <1>7, <1>8, EndsAs

\* A batch that finds no further text has kept its promise.
LEMMA ReadEnds ==
  ASSUME NEW r, CallInv(r), r.stage = "read", r.start >= Len(r.texts)
  PROVE  CallInv(Ended(r, Returned(r.out)))
<1>1. CallTypes(r) /\ r.texts \in Seq(Items) /\ r.start \in Nat /\ r.chunk = <<>> /\ Going(r)
  BY DEF CallInv, CallTypes
<1>2. Len(r.out) = Len(r.texts)
  BY <1>1 DEF Going
<1>. QED
  BY <1>1, <1>2, FullEnds

\* The chunk that is read next is what the texts hold from start on.
LEMMA ChunkFacts ==
  ASSUME NEW r, r.texts \in Seq(Items), r.start \in Nat, r.start < Len(r.texts)
  PROVE  /\ ChunkAt(r) \in Seq(Items)
         /\ Len(ChunkAt(r)) = AtMost(r.start + ChunkSize(r.asked, r.texts), Len(r.texts)) - r.start
         /\ Len(ChunkAt(r)) \in Nat /\ r.start + Len(ChunkAt(r)) <= Len(r.texts)
         /\ \A i \in 1..Len(ChunkAt(r)) : ChunkAt(r)[i] = r.texts[r.start + i]
<1>. DEFINE size == ChunkSize(r.asked, r.texts)
            end == AtMost(r.start + size, Len(r.texts))
<1>1. size \in Nat
  BY BatchCallsAssumption DEF ChunkSize
<1>2. end \in Nat /\ end <= Len(r.texts) /\ r.start <= end
  <2>. HIDE DEF size
  <2>. QED
    BY <1>1 DEF AtMost
<1>3. ChunkAt(r) = SubSeq(r.texts, r.start + 1, end)
  BY DEF ChunkAt, Source
<1>. HIDE DEF end
<1>4. PICK d : d = SubSeq(r.texts, r.start + 1, end)
  OBVIOUS
<1>5. d \in Seq(Items) /\ Len(d) = end - r.start
  BY <1>2, <1>4
<1>6. ASSUME NEW i \in 1..Len(d)
      PROVE  d[i] = r.texts[r.start + i]
  <2>1. i \in 1..(end - r.start)
    BY <1>5
  <2>. QED
    BY <1>2, <1>4, <2>1
<1>. QED
  BY <1>2, <1>3, <1>4, <1>5, <1>6 DEF end, size

\* Such a batch reads by BATCH_CHUNK_SIZE.
LEMMA ChunksSize ==
  ASSUME NEW c, NEW s, ByChunks(c)
  PROVE  ChunkSize(c, s) = BATCH_CHUNK_SIZE /\ IsBatch(c)
BY DEF ByChunks, ChunkSize, IsBatch, Walks

\* A batch that may raise for a text, or never leave one, is such a batch.
LEMMA RaisersByChunks ==
  ASSUME NEW c
  PROVE  /\ Strict(c) => ByChunks(c) /\ c.op \in Walks
         /\ IsBatch(c) /\ c.op \notin Walks => ByChunks(c)
BY DEF Strict, ByChunks, IsBatch, Walks

\* No item of the chunk that is read next is in a later chunk than one that
\* has no answer yet.
LEMMA ReadFirst ==
  ASSUME NEW r, CallTypes(r), Going(r), r.start < Len(r.texts), ByChunks(r.asked),
         NEW k \in 1..Len(ChunkAt(r)), NEW j \in 1..Len(r.texts), j > r.start
  PROVE  ChunkOf(r.start + k, r.asked, r.texts) <= ChunkOf(j, r.asked, r.texts)
<1>1. r.texts \in Seq(Items) /\ r.start \in Nat
  BY DEF CallTypes
<1>2. PICK q \in Nat : r.start = q * BATCH_CHUNK_SIZE
  <2>1. OnBoundary(r.start)
    BY DEF Going
  <2>. QED
    BY <2>1 DEF OnBoundary
<1>3. PICK n \in Nat \ {0} : n = BATCH_CHUNK_SIZE /\ ChunkSize(r.asked, r.texts) = n
  BY ChunksSize, BatchCallsAssumption
<1>4. k <= n /\ k \in Nat \ {0}
  BY <1>1, <1>3, ChunkFacts DEF AtMost
<1>5. (r.start + k - 1) \div n <= q
  <2>1. r.start + k - 1 \in Nat /\ r.start + k - 1 < (q + 1) * n
    BY <1>1, <1>2, <1>3, <1>4
  <2>. QED
    BY <2>1, DivBelow
<1>6. q <= (j - 1) \div n
  <2>1. j - 1 \in Nat /\ q * n <= j - 1
    BY <1>1, <1>2, <1>3
  <2>. QED
    BY <2>1, DivAbove
<1>7. (r.start + k - 1) \div n \in Nat /\ (j - 1) \div n \in Nat
  <2>1. r.start + k - 1 \in Nat /\ j - 1 \in Nat
    BY <1>1, <1>4
  <2>. QED
    BY <2>1, DivFacts
<1>8. (r.start + k - 1) \div n <= (j - 1) \div n
  BY <1>5, <1>6, <1>7
<1>9. PICK e, d : e = r.start + k - 1 /\ d = j - 1
  OBVIOUS
<1>10. e \div ChunkSize(r.asked, r.texts) <= d \div ChunkSize(r.asked, r.texts)
  BY <1>3, <1>8, <1>9
<1>. QED
  BY <1>1, <1>4, <1>9, <1>10 DEF ChunkOf

\* A batch that finds an item that is no string in its next chunk raises for it
\* rightly: no text of an earlier chunk raises or keeps its scan, as all of
\* those are answered.
LEMMA ReadRaises ==
  ASSUME NEW r, CallInv(r), r.stage = "read", r.start < Len(r.texts), NotAllStr(ChunkAt(r))
  PROVE  CallInv(Ended(r, Raised("type_error")))
<1>1. /\ CallTypes(r) /\ r.texts \in Seq(Items) /\ r.start \in Nat /\ r.chunk = <<>> /\ Going(r)
      /\ IsBatch(r.asked)
  BY DEF CallInv, CallTypes
<1>2. /\ Len(r.out) = r.start /\ Accepted(r.asked, r.texts)
      /\ \A i \in 1..r.start : ~Untold(r, i) /\ ~Endless(r.texts[i], r.asked)
  BY <1>1 DEF Going
<1>3. PICK k \in 1..Len(ChunkAt(r)) : ChunkAt(r)[k] = NotStr
  BY <1>1, ChunkFacts DEF NotAllStr
<1>. DEFINE untold == {i \in DOMAIN r.texts : Strict(r.asked) /\ r.texts[i] \in Untranslatable}
            chunk(i) == ChunkOf(i, r.asked, r.texts)
<1>4. r.start + k \in Odd(r.texts)
  BY <1>1, <1>3, ChunkFacts DEF Odd
<1>5. ASSUME NEW j \in untold
      PROVE  chunk(r.start + k) <= chunk(j)
  <2>1. ByChunks(r.asked) /\ j \in 1..Len(r.texts) /\ Untold(r, j)
    BY <1>1, RaisersByChunks DEF Untold
  <2>2. j > r.start
    BY <1>1, <1>2, <2>1
  <2>. QED
    BY <1>1, <2>1, <2>2, ReadFirst
<1>6. \E i \in Odd(r.texts) : \A j \in untold : chunk(i) <= chunk(j)
  BY <1>4, <1>5
<1>7. Promised(r.asked, r.texts) = Raised("type_error")
  BY <1>2, <1>6 DEF Promised, Accepted
<1>8. ASSUME NEW j \in DOMAIN r.texts, Endless(r.texts[j], r.asked)
      PROVE  chunk(r.start + k) <= chunk(j)
  <2>1. ByChunks(r.asked) /\ j \in 1..Len(r.texts)
    BY <1>1, <1>8, RaisersByChunks DEF Endless
  <2>2. j > r.start
    BY <1>1, <1>2, <1>8, <2>1
  <2>. QED
    BY <1>1, <2>1, <2>2, ReadFirst
<1>9. ~NeverReturns(r.asked, r.texts)
  BY <1>4, <1>8 DEF NeverReturns
<1>. QED
  BY <1>1, <1>7, <1>9, EndsAs

\* A chunk of strings is taken in hand.
LEMMA ReadGoes ==
  ASSUME NEW r, CallInv(r), r.stage = "read", r.start < Len(r.texts), ~NotAllStr(ChunkAt(r))
  PROVE  CallInv([r EXCEPT !.stage = "work", !.chunk = ChunkAt(r)])
<1>1. /\ CallTypes(r) /\ ShapeOK(r) /\ r.texts \in Seq(Items) /\ r.start \in Nat /\ r.chunk = <<>>
      /\ Going(r) /\ IsBatch(r.asked)
  BY DEF CallInv, CallTypes
<1>2. PICK d : d = ChunkAt(r)
  OBVIOUS
<1>3. /\ d \in Seq(Items)
      /\ Len(d) = AtMost(r.start + ChunkSize(r.asked, r.texts), Len(r.texts)) - r.start
      /\ Len(d) \in Nat /\ r.start + Len(d) <= Len(r.texts)
      /\ \A i \in 1..Len(d) : d[i] = r.texts[r.start + i]
  BY <1>1, <1>2, ChunkFacts
<1>4. d \in Seq(Texts)
  BY <1>2, <1>3 DEF NotAllStr, Items
<1>5. PICK w : w = [r EXCEPT !.stage = "work", !.chunk = d]
  OBVIOUS
<1>6. /\ ShapeOK(w) /\ w.stage = "work" /\ w.asked = r.asked /\ w.texts = r.texts
      /\ w.settings = r.settings /\ w.start = r.start /\ w.chunk = d /\ w.out = r.out
  BY <1>1, <1>5 DEF ShapeOK, Idle
<1>7. Going(w)
  BY <1>1, <1>3, <1>6 DEF Going, Untold
<1>8. ByChunks(r.asked) => Len(d) = AtMost(BATCH_CHUNK_SIZE, Len(r.texts) - r.start)
  BY <1>1, <1>3, ChunksSize, BatchCallsAssumption DEF AtMost
<1>9. Chunked(w)
  BY <1>1, <1>3, <1>6, <1>8 DEF Chunked
<1>. QED
  BY <1>1, <1>2, <1>4, <1>5, <1>6, <1>7, <1>9 DEF CallInv, CallTypes, Stages

\* When a chunk is done the next one begins where it ended, on a multiple of
\* the chunk size unless it was the last.
LEMMA AttachGoes ==
  ASSUME NEW r, CallInv(r), r.stage = "work", ~Pending(r), IsBatch(r.asked)
  PROVE  CallInv([r EXCEPT !.stage = "read", !.start = @ + Len(r.chunk), !.chunk = <<>>])
<1>1. /\ CallTypes(r) /\ ShapeOK(r) /\ r.texts \in Seq(Items) /\ r.start \in Nat
      /\ r.chunk \in Seq(Texts) /\ Len(r.chunk) \in Nat /\ Going(r) /\ Chunked(r)
  BY DEF CallInv, CallTypes
<1>2. Len(r.out) = r.start + Len(r.chunk)
  <2>1. /\ r.out \in Seq(Made(r.asked)) /\ r.start <= Len(r.out)
        /\ Len(r.out) <= r.start + Len(r.chunk)
    BY <1>1 DEF Going
  <2>2. /\ Len(r.out) \in Nat /\ r.start \in Nat /\ Len(r.chunk) \in Nat
        /\ Len(r.out) <= r.start + Len(r.chunk)
    BY <1>1, <2>1
  <2>3. ~(Len(r.out) - r.start < Len(r.chunk))
    BY DEF Pending
  <2>. QED
    BY <2>2, <2>3
<1>3. PICK w : w = [r EXCEPT !.stage = "read", !.start = @ + Len(r.chunk), !.chunk = <<>>]
  OBVIOUS
<1>4. /\ ShapeOK(w) /\ w.stage = "read" /\ w.asked = r.asked /\ w.texts = r.texts
      /\ w.settings = r.settings /\ w.start = r.start + Len(r.chunk) /\ w.chunk = <<>>
      /\ w.out = r.out
  BY <1>1, <1>3 DEF ShapeOK, Idle
<1>5. ASSUME ByChunks(r.asked), w.start < Len(r.texts)
      PROVE  OnBoundary(w.start)
  <2>1. PICK n \in Nat \ {0} : n = BATCH_CHUNK_SIZE
    BY BatchCallsAssumption
  <2>2. Len(r.chunk) = n /\ r.start < Len(r.texts)
    BY <1>1, <1>4, <1>5, <2>1 DEF Chunked, AtMost
  <2>3. PICK q \in Nat : r.start = q * n
    <3>1. OnBoundary(r.start)
      BY <1>1, <1>5, <2>2 DEF Going
    <3>. QED
      BY <2>1, <3>1 DEF OnBoundary
  <2>4. w.start = (q + 1) * n
    BY <1>4, <2>2, <2>3
  <2>5. q + 1 <= (q + 1) * n
    <3>1. PICK m \in Nat : n = m + 1
      <4>1. n - 1 \in Nat
        OBVIOUS
      <4>. QED
        BY <4>1
    <3>2. (q + 1) * (m + 1) = (q + 1) * m + (q + 1) /\ (q + 1) * m >= 0
      OBVIOUS
    <3>. QED
      BY <3>1, <3>2
  <2>6. q + 1 \in 0..w.start
    BY <2>4, <2>5
  <2>. QED
    BY <2>1, <2>4, <2>6 DEF OnBoundary
<1>6. Going(w)
  BY <1>1, <1>2, <1>4, <1>5 DEF Going, Untold
<1>. QED
  BY <1>1, <1>3, <1>4, <1>6 DEF CallInv, CallTypes, Stages

\* An item that is no string is beyond the chunk in hand.
LEMMA OddBeyond ==
  ASSUME NEW r, CallTypes(r), Going(r), Chunked(r), NEW i \in Odd(r.texts)
  PROVE  i \in Nat /\ i > r.start + Len(r.chunk) /\ i <= Len(r.texts)
<1>1. /\ r.texts \in Seq(Items) /\ r.start \in Nat /\ r.chunk \in Seq(Texts) /\ Len(r.chunk) \in Nat
  BY DEF CallTypes
<1>2. i \in 1..Len(r.texts) /\ r.texts[i] = NotStr /\ r.texts[i] \notin Texts
  BY <1>1, BatchCallsAssumption DEF Odd
<1>3. Len(r.out) \in Nat /\ r.start <= Len(r.out)
  BY DEF Going
<1>4. ASSUME i <= Len(r.out) PROVE FALSE
  BY <1>2, <1>3, <1>4 DEF Going
<1>5. ASSUME i > Len(r.out), i <= r.start + Len(r.chunk) PROVE FALSE
  <2>1. i - r.start \in 1..Len(r.chunk)
    BY <1>1, <1>2, <1>3, <1>5
  <2>2. r.chunk[i - r.start] = r.texts[r.start + (i - r.start)]
    BY <2>1 DEF Chunked
  <2>3. r.start + (i - r.start) = i
    BY <1>1, <1>2
  <2>. QED
    BY <1>1, <1>2, <2>1, <2>2, <2>3
<1>. QED
  BY <1>1, <1>2, <1>3, <1>4, <1>5

\* So it is in a later chunk than the text that is next to be answered.
LEMMA OddLater ==
  ASSUME NEW r, CallTypes(r), Going(r), Chunked(r), Len(r.out) < r.start + Len(r.chunk),
         ByChunks(r.asked), NEW i \in Odd(r.texts)
  PROVE  ~(ChunkOf(i, r.asked, r.texts) <= ChunkOf(Len(r.out) + 1, r.asked, r.texts))
<1>. DEFINE told == Len(r.out)
<1>1. /\ r.texts \in Seq(Items) /\ r.start \in Nat /\ r.chunk \in Seq(Texts) /\ Len(r.chunk) \in Nat
      /\ told \in Nat /\ r.start <= told
  BY DEF CallTypes, Going
<1>2. i \in Nat /\ i > r.start + Len(r.chunk) /\ i <= Len(r.texts)
  BY OddBeyond
<1>3. PICK n \in Nat \ {0} : n = BATCH_CHUNK_SIZE /\ ChunkSize(r.asked, r.texts) = n
  BY ChunksSize, BatchCallsAssumption
<1>4. Len(r.chunk) = n
  BY <1>1, <1>2, <1>3 DEF Chunked, AtMost
<1>5. PICK q \in Nat : r.start = q * n
  <2>1. OnBoundary(r.start)
    BY <1>1, <1>2 DEF Going
  <2>. QED
    BY <1>3, <2>1 DEF OnBoundary
<1>6. q + 1 <= (i - 1) \div n
  <2>1. PICK m \in Nat : m = i - 1 /\ (q + 1) * n <= m
    <3>1. i - 1 \in Nat /\ (q + 1) * n <= i - 1
      BY <1>1, <1>2, <1>4, <1>5
    <3>. QED
      BY <3>1
  <2>2. q + 1 \in Nat
    OBVIOUS
  <2>3. q + 1 <= m \div n
    BY <2>1, <2>2, DivAbove
  <2>. QED
    BY <2>1, <2>3
<1>7. told \div n <= q
  <2>1. told < (q + 1) * n
    BY <1>1, <1>4, <1>5
  <2>. QED
    BY <1>1, <2>1, DivBelow
<1>8. told \div n \in Nat /\ (i - 1) \div n \in Nat
  <2>1. i - 1 \in Nat
    BY <1>1, <1>2
  <2>. QED
    BY <1>1, <2>1, DivFacts
<1>9. ~((i - 1) \div n <= told \div n)
  <2>1. PICK e \in Nat, d \in Nat : e = told \div n /\ d = (i - 1) \div n
    BY <1>8
  <2>2. q + 1 <= d /\ e <= q
    BY <1>6, <1>7, <2>1
  <2>3. ~(d <= e)
    BY <2>2
  <2>. QED
    BY <2>1, <2>3
<1>10. (told + 1) - 1 = told
  BY <1>1
<1>. HIDE DEF told
<1>11. ~(ChunkOf(i, r.asked, r.texts) <= ChunkOf(told + 1, r.asked, r.texts))
  BY <1>3, <1>9, <1>10 DEF ChunkOf
<1>. QED
  BY <1>11 DEF told

\* A batch that meets an untranslatable text raises for it rightly: its chunk
\* holds strings only, as does every chunk before.
LEMMA AttachRaises ==
  ASSUME NEW r, CallInv(r), r.stage = "refused"
  PROVE  CallInv(Ended(r, Raised("untranslatable")))
<1>. DEFINE untold == {i \in DOMAIN r.texts : Strict(r.asked) /\ r.texts[i] \in Untranslatable}
            told == Len(r.out)
<1>1. /\ CallTypes(r) /\ r.texts \in Seq(Items) /\ r.start \in Nat
      /\ r.chunk \in Seq(Texts) /\ Len(r.chunk) \in Nat /\ Going(r) /\ Chunked(r)
      /\ told < r.start + Len(r.chunk) /\ Untold(r, told + 1)
  BY DEF CallInv, CallTypes
<1>2. /\ r.out \in Seq(Made(r.asked)) /\ told \in Nat /\ r.start <= told
      /\ r.start + Len(r.chunk) <= Len(r.texts) /\ Accepted(r.asked, r.texts)
  BY <1>1 DEF Going
<1>3. /\ ByChunks(r.asked) /\ r.asked.op \in Walks /\ told + 1 \in untold
  BY <1>1, <1>2, RaisersByChunks DEF Untold
<1>4. ASSUME NEW i \in Odd(r.texts)
      PROVE  ~(ChunkOf(i, r.asked, r.texts) <= ChunkOf(told + 1, r.asked, r.texts))
  BY <1>1, <1>3, OddLater
<1>5. ~(\E i \in Odd(r.texts) : \A j \in untold :
          ChunkOf(i, r.asked, r.texts) <= ChunkOf(j, r.asked, r.texts))
  BY <1>3, <1>4
<1>6. untold # {}
  BY <1>3
<1>7. Promised(r.asked, r.texts) = Raised("untranslatable")
  BY <1>2, <1>5, <1>6 DEF Promised, Accepted
<1>8. ~NeverReturns(r.asked, r.texts)
  BY <1>3 DEF NeverReturns, Endless
<1>. QED
  BY <1>1, <1>7, <1>8, EndsAs

\* A single call that has answered its one text has kept its promise.
LEMMA ReturnEnds ==
  ASSUME NEW r, CallInv(r), r.stage = "work", ~Pending(r), ~IsBatch(r.asked)
  PROVE  CallInv(Ended(r, Returned(r.out)))
<1>1. /\ CallTypes(r) /\ r.texts \in Seq(Items) /\ r.chunk \in Seq(Texts) /\ Len(r.chunk) \in Nat
      /\ Going(r) /\ Chunked(r)
  BY DEF CallInv, CallTypes
<1>2. r.start = 0 /\ Len(r.chunk) = Len(r.texts) /\ Len(r.out) = Len(r.texts)
  BY <1>1 DEF Chunked, Pending, Going
<1>. QED
  BY <1>1, <1>2, FullEnds

\* The text in hand is the next one without an answer.
LEMMA WorkFacts ==
  ASSUME NEW r, CallInv(r), r.stage \in {"work", "store"}, Len(r.out) - r.start < Len(r.chunk)
  PROVE  /\ InHand(r) = r.texts[Len(r.out) + 1] /\ InHand(r) \in Texts
         /\ Len(r.out) \in Nat /\ Len(r.out) < r.start + Len(r.chunk)
<1>1. /\ r.start \in Nat /\ r.chunk \in Seq(Texts) /\ Len(r.chunk) \in Nat /\ Going(r) /\ Chunked(r)
  BY DEF CallInv, CallTypes
<1>2. Len(r.out) \in Nat /\ r.start <= Len(r.out)
  BY <1>1 DEF Going
<1>3. PICK k : k = Len(r.out) - r.start + 1
  OBVIOUS
<1>4. k \in 1..Len(r.chunk) /\ r.start + k = Len(r.out) + 1 /\ Len(r.out) < r.start + Len(r.chunk)
  BY <1>1, <1>2, <1>3
<1>5. r.chunk[k] = r.texts[r.start + k]
  BY <1>1, <1>4 DEF Chunked
<1>. QED
  BY <1>1, <1>2, <1>3, <1>4, <1>5 DEF InHand

\* One more answer, if it is the promised one, keeps the invariant.
LEMMA AnsweredKeeps ==
  ASSUME NEW r, CallInv(r), r.stage \in {"work", "store"}, Len(r.out) - r.start < Len(r.chunk),
         ~Untold(r, Len(r.out) + 1), ~Endless(InHand(r), r.asked),
         NEW x, x = Treated(InHand(r), r.asked)
  PROVE  CallInv(Answered(r, x))
<1>1. /\ CallTypes(r) /\ ShapeOK(r) /\ r.texts \in Seq(Items) /\ r.start \in Nat
      /\ r.chunk \in Seq(Texts) /\ Len(r.chunk) \in Nat /\ Going(r) /\ Chunked(r)
  BY DEF CallInv, CallTypes
<1>2. /\ InHand(r) = r.texts[Len(r.out) + 1] /\ InHand(r) \in Texts
      /\ Len(r.out) \in Nat /\ Len(r.out) < r.start + Len(r.chunk)
  BY WorkFacts
<1>3. PICK w : w = Answered(r, x)
  OBVIOUS
<1>4. /\ ShapeOK(w) /\ w.stage = "work" /\ w.asked = r.asked /\ w.texts = r.texts
      /\ w.settings = r.settings /\ w.start = r.start /\ w.chunk = r.chunk
      /\ w.out = Append(r.out, x)
  BY <1>1, <1>3, AnsweredFacts
<1>5. r.out \in Seq(Made(r.asked)) /\ x \in Made(r.asked)
  BY <1>1, <1>2 DEF Going, Made
<1>6. /\ w.out \in Seq(Made(r.asked)) /\ Len(w.out) = Len(r.out) + 1
      /\ w.out[Len(r.out) + 1] = x /\ \A i \in 1..Len(r.out) : w.out[i] = r.out[i]
  BY <1>4, <1>5
<1>7. ASSUME NEW i \in 1..Len(w.out)
      PROVE  /\ w.texts[i] \in Texts /\ ~Untold(w, i) /\ ~Endless(w.texts[i], w.asked)
             /\ w.out[i] = Treated(w.texts[i], w.asked)
  <2>1. CASE i = Len(r.out) + 1
    BY <1>2, <1>4, <1>6, <2>1 DEF Untold
  <2>2. CASE i \in 1..Len(r.out)
    BY <1>1, <1>4, <1>6, <2>2 DEF Going, Untold
  <2>. QED
    BY <1>2, <1>6, <2>1, <2>2
<1>8. Going(w)
  <2>1. /\ Accepted(w.asked, w.texts) /\ w.start + Len(w.chunk) <= Len(w.texts)
        /\ w.asked.op \notin Walks => w.settings = Settings(w.asked.pattern, w.asked.pairs)
        /\ ByChunks(w.asked) /\ w.start < Len(w.texts) => OnBoundary(w.start)
    BY <1>1, <1>4 DEF Going
  <2>2. r.start <= Len(r.out)
    BY <1>1 DEF Going
  <2>3. w.start <= Len(w.out) /\ Len(w.out) <= w.start + Len(w.chunk)
    BY <1>1, <1>2, <1>4, <1>6, <2>2
  <2>4. w.out \in Seq(Made(w.asked))
    BY <1>4, <1>6
  <2>. QED
    BY <1>7, <2>1, <2>3, <2>4 DEF Going
<1>9. Chunked(w)
  BY <1>1, <1>4 DEF Chunked
<1>. QED
  BY <1>1, <1>3, <1>4, <1>8, <1>9 DEF CallInv, CallTypes, Stages

\* A call that its scan keeps is one that its texts say never returns.
LEMMA ScanKeeps ==
  ASSUME NEW r, CallInv(r), r.stage = "work", Len(r.out) - r.start < Len(r.chunk),
         Endless(InHand(r), r.asked)
  PROVE  CallInv([r EXCEPT !.stage = "scan"])
<1>1. /\ CallTypes(r) /\ ShapeOK(r) /\ r.texts \in Seq(Items) /\ r.start \in Nat
      /\ r.chunk \in Seq(Texts) /\ Len(r.chunk) \in Nat /\ Going(r) /\ Chunked(r)
  BY DEF CallInv, CallTypes
<1>2. /\ InHand(r) = r.texts[Len(r.out) + 1] /\ InHand(r) \in Texts
      /\ Len(r.out) \in Nat /\ Len(r.out) < r.start + Len(r.chunk)
  BY WorkFacts
<1>3. Accepted(r.asked, r.texts) /\ r.start + Len(r.chunk) <= Len(r.texts)
  BY <1>1 DEF Going
<1>4. ASSUME NEW j \in Odd(r.texts)
      PROVE  ~(ChunkOf(j, r.asked, r.texts) <= ChunkOf(Len(r.out) + 1, r.asked, r.texts))
  <2>1. CASE ByChunks(r.asked)
    BY <1>1, <1>2, <2>1, OddLater
  <2>2. CASE ~ByChunks(r.asked)
    <3>1. ~IsBatch(r.asked)
      BY <2>2, RaisersByChunks DEF Endless
    <3>2. r.start = 0 /\ Len(r.chunk) = Len(r.texts)
      BY <1>1, <3>1 DEF Chunked
    <3>3. j \in Nat /\ j > r.start + Len(r.chunk) /\ j <= Len(r.texts)
      BY <1>1, OddBeyond
    <3>. QED
      BY <1>1, <3>2, <3>3
  <2>. QED
    BY <2>1, <2>2
<1>5. Len(r.out) + 1 \in DOMAIN r.texts /\ InHand(r) # NotStr
  <2>1. DOMAIN r.texts = 1..Len(r.texts) /\ Len(r.texts) \in Nat
    BY <1>1
  <2>2. PICK m \in Nat : m = Len(r.out)
    BY <1>2
  <2>3. m + 1 \in 1..Len(r.texts)
    BY <1>1, <1>2, <1>3, <2>1, <2>2
  <2>. QED
    BY <1>2, <2>1, <2>2, <2>3, BatchCallsAssumption
<1>6. NeverReturns(r.asked, r.texts)
  BY <1>2, <1>3, <1>4, <1>5 DEF NeverReturns, Accepted
<1>7. PICK w : w = [r EXCEPT !.stage = "scan"]
  OBVIOUS
<1>8. /\ ShapeOK(w) /\ w.stage = "scan" /\ w.asked = r.asked /\ w.texts = r.texts
      /\ w.start = r.start /\ w.chunk = r.chunk
  BY <1>1, <1>7 DEF ShapeOK, Idle
<1>. QED
  BY <1>1, <1>6, <1>7, <1>8 DEF CallInv, CallTypes, Stages

\* Where no error is first there is none.
LEMMA FirstErrorFacts ==
  ASSUME NEW errors, NEW n \in {3, 4}, DOMAIN errors = 1..n, FirstError(errors) = "none"
  PROVE  \A i \in 1..n : errors[i] = "none"
<1>1. SUFFICES ASSUME NEW k \in 1..n, errors[k] # "none" PROVE FALSE
  OBVIOUS
<1>. DEFINE raised == {i \in DOMAIN errors : errors[i] # "none"}
<1>2. raised \subseteq {1, 2, 3, 4} /\ k \in raised
  BY <1>1
<1>3. \E i \in raised : \A j \in raised : i <= j
  <2>. HIDE DEF raised
  <2>0. \A j \in raised : j = 1 \/ j = 2 \/ j = 3 \/ j = 4
    BY <1>2
  <2>1. CASE 1 \in raised
    BY <2>0, <2>1
  <2>2. CASE 1 \notin raised /\ 2 \in raised
    BY <2>0, <2>2
  <2>3. CASE 1 \notin raised /\ 2 \notin raised /\ 3 \in raised
    BY <2>0, <2>3
  <2>4. CASE 1 \notin raised /\ 2 \notin raised /\ 3 \notin raised
    BY <1>2, <2>0, <2>4
  <2>. QED
    BY <2>1, <2>2, <2>3, <2>4
<1>4. PICK m \in raised : m = CHOOSE i \in raised : \A j \in raised : i <= j
  BY <1>3
<1>5. FirstError(errors) = errors[m]
  BY <1>2, <1>4 DEF FirstError
<1>. QED
  BY <1>4, <1>5

\* A call that is accepted compiles its pattern.
LEMMA PatternTold ==
  ASSUME NEW c, NEW s, NEW e, c.op \in {"slugify", "Slugifier", "slugify_batch"},
         ArgumentError(c, s, e) = "none"
  PROVE  e = "none"
<1>1. CASE c.op \in {"slugify", "Slugifier"}
  <2>. DEFINE errors == SlugErrors(c, e)
  <2>1. FirstError(errors) = "none"
    BY <1>1 DEF ArgumentError
  <2>2. DOMAIN errors = 1..3 /\ errors[3] = e
    BY DEF SlugErrors
  <2>. HIDE DEF errors
  <2>. QED
    BY <2>1, <2>2, FirstErrorFacts
<1>2. CASE c.op = "slugify_batch"
  <2>. DEFINE errors == <<TooLarge(s)>> \o SlugErrors(c, e)
  <2>1. FirstError(errors) = "none"
    BY <1>2 DEF ArgumentError
  <2>2. DOMAIN errors = 1..4 /\ errors[4] = e
    <3>. DEFINE all == {TooLarge(s), UnknownLang(c), SlugErrors(c, e)[2], e}
    <3>1. PICK one, more : one = <<TooLarge(s)>> /\ more = SlugErrors(c, e)
      OBVIOUS
    <3>2. one \in Seq(all) /\ Len(one) = 1
      BY <3>1
    <3>3. more \in Seq(all) /\ Len(more) = 3 /\ more[3] = e
      BY <3>1 DEF SlugErrors
    <3>. HIDE DEF all
    <3>4. /\ one \o more \in Seq(all) /\ Len(one \o more) = Len(one) + Len(more)
          /\ \A i \in 1 .. Len(one) + Len(more) :
               (one \o more)[i] = IF i <= Len(one) THEN one[i] ELSE more[i - Len(one)]
      BY <3>2, <3>3, ConcatProperties, Zenon
    <3>5. Len(one \o more) = 4 /\ (one \o more)[4] = e
      BY <3>2, <3>3, <3>4
    <3>6. DOMAIN (one \o more) = 1..4
      BY <3>4, <3>5
    <3>. QED
      BY <3>1, <3>5, <3>6
  <2>. HIDE DEF errors
  <2>. QED
    BY <2>1, <2>2, FirstErrorFacts
<1>. QED
  BY <1>1, <1>2

\* What the cache of regexes says of a pattern is what compiling it would.
LEMMA RegexFacts ==
  ASSUME CachesSound, NEW c, c.op \in {"slugify", "Slugifier", "slugify_batch"}
  PROVE  CachedError(c.pattern) = PatternError(c) /\ CachedRegex(c.pattern) = c.pattern
<1>1. CompileError(NoPattern) = "none"
  BY BatchCallsAssumption DEF CompileError
<1>2. PatternError(c) = CompileError(c.pattern)
  BY DEF PatternError
<1>. QED
  BY <1>1, <1>2 DEF CachedError, CachedRegex, Compiled, CachesSound

\* A pattern that compiles leaves the cache sound.
LEMMA RegexCached ==
  ASSUME CachesFinite, CachesSound, NEW p, CompileError(p) = "none", CacheRegex(p),
         automata' = automata
  PROVE  CachesFinite' /\ CachesSound'
<1>1. CASE regexes' = regexes
  BY <1>1 DEF CachesFinite, CachesSound
<1>2. CASE regexes' = Stored(regexes, REGEX_CACHE_MAX, p, p)
  <2>1. /\ IsFiniteSet(DOMAIN regexes') /\ Cardinality(DOMAIN regexes') <= REGEX_CACHE_MAX
        /\ \A k \in DOMAIN regexes' :
             IF k = p THEN regexes'[k] = p ELSE k \in DOMAIN regexes /\ regexes'[k] = regexes[k]
    BY <1>2, StoredFacts, BatchCallsAssumption DEF CachesFinite, CachesSound
  <2>. QED
    BY <2>1 DEF CachesFinite, CachesSound
<1>. QED
  BY <1>1, <1>2 DEF CacheRegex

\* A step that changes one call keeps the invariant if that call has it.
LEMMA NowKeeps ==
  ASSUME IInv, NEW t \in Threads, NEW r, CallInv(r), Now(t, r), list' \in Lists,
         gil' \in Threads \cup {NoThread}, CachesFinite', CachesSound',
         (slugifier = Settings(slugifier.regex, slugifier.pairs))'
  PROVE  IInv'
<1>1. DOMAIN call = Threads /\ \A u \in Threads : CallInv(call[u])
  BY DEF IInv, TypeOK
<1>2. DOMAIN call' = Threads /\ \A u \in Threads : call'[u] = IF u = t THEN r ELSE call[u]
  BY <1>1 DEF Now
<1>3. \A u \in Threads : CallInv(call'[u])
  BY <1>1, <1>2
<1>4. TypeOK'
  BY <1>2, <1>3 DEF TypeOK, CallInv, CallTypes, ShapeOK, Stages, Items
<1>. QED
  BY <1>3, <1>4 DEF IInv

\* The same where list, caches and shared object stay as they are.
LEMMA StillKeeps ==
  ASSUME IInv, NEW t \in Threads, NEW r, CallInv(r), Now(t, r),
         gil' \in Threads \cup {NoThread}, UNCHANGED <<list, caches, slugifier>>
  PROVE  IInv'
<1>1. CachesFinite' /\ CachesSound'
  BY DEF IInv, CachesFinite, CachesSound, caches
<1>2. list' \in Lists /\ (slugifier = Settings(slugifier.regex, slugifier.pairs))'
  BY DEF IInv, TypeOK
<1>. QED
  BY <1>1, <1>2, NowKeeps

\* Refusing a call keeps the invariant.
LEMMA RefusedStep ==
  ASSUME IInv, NEW t \in Threads, NEW c, NEW s \in Seq(Items), NEW e,
         e = ArgumentError(c, s, PatternError(c)), e # "none", Refuse(t, c, s, e)
  PROVE  IInv'
<1>1. CallInv(Ended(Started(c, s, DefaultSettings), Raised(e)))
  BY RefusedCall
<1>2. /\ Now(t, Ended(Started(c, s, DefaultSettings), Raised(e)))
      /\ UNCHANGED <<list, gil, caches, slugifier>>
  BY DEF Refuse
<1>3. gil' \in Threads \cup {NoThread}
  BY <1>2 DEF IInv, TypeOK
<1>. QED
  BY <1>1, <1>2, <1>3, StillKeeps

\* Accepting a call that compiles a pattern keeps the invariant.
LEMMA CachingStep ==
  ASSUME IInv, NEW t \in Threads, NEW c, NEW s \in Seq(Items), NEW r, CallInv(r), Now(t, r),
         c.op \in {"slugify", "Slugifier", "slugify_batch"}, Accepted(c, s),
         CacheRegex(c.pattern), UNCHANGED <<list, automata>>, gil' \in Threads \cup {NoThread},
         (slugifier = Settings(slugifier.regex, slugifier.pairs))'
  PROVE  IInv'
<1>1. PatternError(c) = "none"
  BY PatternTold DEF Accepted
<1>2. CompileError(c.pattern) = "none"
  BY <1>1 DEF PatternError
<1>3. CachesFinite' /\ CachesSound'
  BY <1>2, RegexCached DEF IInv
<1>4. list' \in Lists
  BY DEF IInv, TypeOK
<1>. QED
  BY <1>3, <1>4, NowKeeps

\* _slugify keeps the invariant.
LEMMA SlugStep ==
  ASSUME IInv, NEW t \in Threads, NEW c \in Calls, Slug(t, c)
  PROVE  IInv'
<1>1. c.op = "slugify" /\ c.text \in Texts /\ <<c.text>> \in Seq(Items)
  BY BatchCallsAssumption DEF Slug, Items
<1>2. CachedError(c.pattern) = PatternError(c) /\ CachedRegex(c.pattern) = c.pattern
  BY <1>1, RegexFacts DEF IInv
<1>3. PICK e : e = ArgumentError(c, <<c.text>>, PatternError(c))
  OBVIOUS
<1>4. CASE e # "none" /\ Refuse(t, c, <<c.text>>, e)
  BY <1>1, <1>3, <1>4, RefusedStep
<1>5. CASE /\ e = "none" /\ CacheRegex(c.pattern) /\ gil' = t
           /\ UNCHANGED <<list, automata, slugifier>>
           /\ Now(t, [Started(c, <<c.text>>, Settings(c.pattern, c.pairs)) EXCEPT
                        !.stage = "work", !.chunk = <<c.text>>])
  <2>1. PICK r : r = [Started(c, <<c.text>>, Settings(c.pattern, c.pairs)) EXCEPT
                        !.stage = "work", !.chunk = <<c.text>>]
    OBVIOUS
  <2>2. Accepted(c, <<c.text>>)
    BY <1>3, <1>5 DEF Accepted
  <2>3. ~IsBatch(c)
    BY <1>1 DEF IsBatch, Walks
  <2>4. CallInv(r)
    BY <1>1, <2>1, <2>2, <2>3, SingleStarts
  <2>5. (slugifier = Settings(slugifier.regex, slugifier.pairs))'
    BY <1>5 DEF IInv
  <2>. QED
    BY <1>1, <1>5, <2>1, <2>2, <2>4, <2>5, CachingStep
<1>. QED
  BY <1>2, <1>3, <1>4, <1>5 DEF Slug

\* _slugify_batch keeps the invariant as it begins.
LEMMA SlugBatchStep ==
  ASSUME IInv, NEW t \in Threads, NEW c \in Calls, SlugBatch(t, c)
  PROVE  IInv'
<1>1. c.op = "slugify_batch" /\ list \in Seq(Items)
  BY BatchCallsAssumption DEF SlugBatch, Items, IInv, TypeOK
<1>2. CachedError(c.pattern) = PatternError(c) /\ CachedRegex(c.pattern) = c.pattern
  BY <1>1, RegexFacts DEF IInv
<1>3. PICK e : e = ArgumentError(c, list, PatternError(c))
  OBVIOUS
<1>4. CASE e # "none" /\ Refuse(t, c, list, e)
  BY <1>1, <1>3, <1>4, RefusedStep
<1>5. CASE /\ e = "none" /\ CacheRegex(c.pattern) /\ gil' = t
           /\ UNCHANGED <<list, automata, slugifier>>
           /\ Now(t, Started(c, list, Settings(c.pattern, c.pairs)))
  <2>1. Accepted(c, list)
    BY <1>3, <1>5 DEF Accepted
  <2>2. IsBatch(c)
    BY <1>1 DEF IsBatch
  <2>3. CallInv(Started(c, list, Settings(c.pattern, c.pairs)))
    BY <1>1, <2>1, <2>2, BatchStarts
  <2>4. (slugifier = Settings(slugifier.regex, slugifier.pairs))'
    BY <1>5 DEF IInv
  <2>. QED
    BY <1>1, <1>5, <2>1, <2>3, <2>4, CachingStep
<1>. QED
  BY <1>2, <1>3, <1>4, <1>5 DEF SlugBatch

\* Making a _Slugifier keeps the invariant.
LEMMA NewSlugifierStep ==
  ASSUME IInv, NEW t \in Threads, NEW c \in Calls, NewSlugifier(t, c)
  PROVE  IInv'
<1>1. c.op = "Slugifier" /\ <<>> \in Seq(Items) /\ gil \in Threads \cup {NoThread}
  BY DEF NewSlugifier, IInv, TypeOK
<1>2. CachedError(c.pattern) = PatternError(c) /\ CachedRegex(c.pattern) = c.pattern
  BY <1>1, RegexFacts DEF IInv
<1>3. PICK e : e = ArgumentError(c, <<>>, PatternError(c))
  OBVIOUS
<1>4. CASE e # "none" /\ Refuse(t, c, <<>>, e)
  BY <1>1, <1>3, <1>4, RefusedStep
<1>5. CASE /\ e = "none" /\ CacheRegex(c.pattern)
           /\ UNCHANGED <<list, gil, automata>>
           /\ slugifier' = Settings(c.pattern, c.pairs)
           /\ Now(t, Ended(Started(c, <<>>, DefaultSettings), Returned(<<>>)))
  <2>1. Accepted(c, <<>>)
    BY <1>3, <1>5 DEF Accepted
  <2>2. PICK q : q = Started(c, <<>>, DefaultSettings)
    OBVIOUS
  <2>3. /\ ShapeOK(q) /\ q.stage = "read" /\ q.asked = c /\ q.texts = <<>> /\ q.start = 0
        /\ q.chunk = <<>> /\ q.out = <<>>
    BY <2>2, StartedFacts
  <2>4. CallTypes(q)
    BY <2>3 DEF CallTypes, Stages
  <2>5. ~NeverReturns(c, <<>>) /\ Promised(c, <<>>) = Returned(<<>>)
    BY <2>1 DEF Promised, Accepted, NeverReturns, Odd
  <2>6. CallInv(Ended(q, Returned(<<>>)))
    BY <2>3, <2>4, <2>5, EndsAs
  <2>7. (slugifier = Settings(slugifier.regex, slugifier.pairs))'
    BY <1>5 DEF Settings
  <2>. QED
    BY <1>1, <1>5, <2>1, <2>2, <2>6, <2>7, CachingStep
<1>. QED
  BY <1>2, <1>3, <1>4, <1>5 DEF NewSlugifier

\* _Slugifier.slugify keeps the invariant as it begins.
LEMMA SlugifierSlugStep ==
  ASSUME IInv, NEW t \in Threads, NEW c \in Calls, SlugifierSlug(t, c)
  PROVE  IInv'
<1>1. /\ c.op = "Slugifier.slugify" /\ c.text \in Texts /\ gil' = t
      /\ UNCHANGED <<list, caches, slugifier>>
  BY BatchCallsAssumption DEF SlugifierSlug
<1>2. PICK q : q = OnObject(c)
  OBVIOUS
<1>3. /\ q.op = "Slugifier.slugify" /\ q.pattern = slugifier.regex /\ q.pairs = slugifier.pairs
  BY <1>1, <1>2 DEF OnObject
<1>4. slugifier = Settings(q.pattern, q.pairs)
  BY <1>3 DEF IInv
<1>5. Accepted(q, <<c.text>>)
  BY <1>3 DEF Accepted, ArgumentError, FirstError
<1>6. ~IsBatch(q)
  BY <1>3 DEF IsBatch, Walks
<1>7. PICK r : r = [Started(q, <<c.text>>, slugifier) EXCEPT !.stage = "work", !.chunk = <<c.text>>]
  OBVIOUS
<1>8. CallInv(r)
  BY <1>1, <1>4, <1>5, <1>6, <1>7, SingleStarts
<1>9. Now(t, r)
  BY <1>2, <1>7 DEF SlugifierSlug
<1>. QED
  BY <1>1, <1>8, <1>9, StillKeeps

\* The other batches keep the invariant as they begin.
LEMMA WalkBatchStep ==
  ASSUME IInv, NEW t \in Threads, NEW c \in Calls, WalkBatch(t, c)
  PROVE  IInv'
<1>1. c.op \in Walks /\ list \in Seq(Items) /\ PatternError(c) = "none"
  BY BatchCallsAssumption DEF WalkBatch, Walks, PatternError, Items, IInv, TypeOK
<1>2. PICK e : e = ArgumentError(c, list, PatternError(c))
  OBVIOUS
<1>3. CASE e # "none" /\ Refuse(t, c, list, e)
  BY <1>1, <1>2, <1>3, RefusedStep
<1>4. CASE /\ e = "none" /\ Now(t, Started(c, list, DefaultSettings)) /\ gil' = t
           /\ UNCHANGED <<list, caches, slugifier>>
  <2>1. Accepted(c, list) /\ IsBatch(c)
    BY <1>1, <1>2, <1>4 DEF Accepted, IsBatch
  <2>2. CallInv(Started(c, list, DefaultSettings))
    BY <1>1, <2>1, BatchStarts
  <2>. QED
    BY <1>4, <2>2, StillKeeps
<1>. QED
  BY <1>1, <1>2, <1>3, <1>4 DEF WalkBatch

\* Reading a chunk keeps the invariant.
LEMMA ReadStep ==
  ASSUME IInv, NEW t \in Threads, Read(t)
  PROVE  IInv'
<1>1. PICK r : r = call[t]
  OBVIOUS
<1>2. /\ CallInv(r) /\ r.stage = "read" /\ gil' = NoThread /\ UNCHANGED <<list, caches, slugifier>>
  BY <1>1 DEF Read, IInv
<1>3. CASE r.start >= Len(r.texts) /\ Now(t, Ended(r, Returned(r.out)))
  BY <1>2, <1>3, ReadEnds, StillKeeps
<1>4. CASE r.start < Len(r.texts) /\ NotAllStr(ChunkAt(r)) /\ Now(t, Ended(r, Raised("type_error")))
  BY <1>2, <1>4, ReadRaises, StillKeeps
<1>5. CASE /\ r.start < Len(r.texts) /\ ~NotAllStr(ChunkAt(r))
           /\ Now(t, [r EXCEPT !.stage = "work", !.chunk = ChunkAt(r)])
  BY <1>2, <1>5, ReadGoes, StillKeeps
<1>. QED
  BY <1>1, <1>3, <1>4, <1>5 DEF Read

\* Taking the GIL back keeps the invariant.
LEMMA AttachStep ==
  ASSUME IInv, NEW t \in Threads, Attach(t)
  PROVE  IInv'
<1>1. PICK r : r = call[t]
  OBVIOUS
<1>2. CallInv(r) /\ gil \in Threads \cup {NoThread} /\ UNCHANGED <<list, caches, slugifier>>
  BY <1>1 DEF Attach, IInv, TypeOK
<1>3. CASE /\ r.stage = "work" /\ ~Pending(r) /\ IsBatch(r.asked) /\ gil' = t
           /\ Now(t, [r EXCEPT !.stage = "read", !.start = @ + Len(r.chunk), !.chunk = <<>>])
  BY <1>2, <1>3, AttachGoes, StillKeeps
<1>4. CASE r.stage = "refused" /\ Now(t, Ended(r, Raised("untranslatable"))) /\ gil' = gil
  BY <1>2, <1>4, AttachRaises, StillKeeps
<1>. QED
  BY <1>1, <1>3, <1>4 DEF Attach

\* Returning from a single call keeps the invariant.
LEMMA ReturnStep ==
  ASSUME IInv, NEW t \in Threads, Return(t)
  PROVE  IInv'
<1>1. PICK r : r = call[t]
  OBVIOUS
<1>2. /\ CallInv(r) /\ r.stage = "work" /\ ~Pending(r) /\ ~IsBatch(r.asked)
      /\ gil' = NoThread /\ UNCHANGED <<list, caches, slugifier>>
      /\ Now(t, Ended(r, Returned(r.out)))
  BY <1>1 DEF Return, IInv
<1>. QED
  BY <1>2, ReturnEnds, StillKeeps

\* A caller that takes its answer keeps the invariant.
LEMMA LeaveStep ==
  ASSUME IInv, NEW t \in Threads, Leave(t)
  PROVE  IInv'
<1>1. Now(t, Idle) /\ UNCHANGED <<list, gil, caches, slugifier>> /\ gil' \in Threads \cup {NoThread}
  BY DEF Leave, Now, IInv, TypeOK
<1>. QED
  BY <1>1, IdleShape, StillKeeps

\* Working on a text of a walk keeps the invariant.
LEMMA WalkStep ==
  ASSUME IInv, NEW t \in Threads, Walk(t)
  PROVE  IInv'
<1>1. PICK r : r = call[t]
  OBVIOUS
<1>2. /\ CallInv(r) /\ Pending(r) /\ r.asked.op \in Walks
      /\ UNCHANGED <<list, gil, caches, slugifier>> /\ gil' \in Threads \cup {NoThread}
  BY <1>1 DEF Walk, IInv, TypeOK
<1>3. r.stage = "work" /\ Len(r.out) - r.start < Len(r.chunk)
  BY <1>2 DEF Pending
<1>4. /\ InHand(r) = r.texts[Len(r.out) + 1] /\ Len(r.out) < r.start + Len(r.chunk)
  BY <1>2, <1>3, WorkFacts
<1>5. CASE Untold(r, Len(r.out) + 1)
  <2>1. PICK w : w = [r EXCEPT !.stage = "refused"]
    OBVIOUS
  <2>2. Now(t, w)
    BY <1>1, <1>4, <1>5, <2>1 DEF Walk, Untold, Strict
  <2>3. CallTypes(r) /\ ShapeOK(r) /\ Going(r) /\ Chunked(r)
    BY <1>2, <1>3 DEF CallInv, CallTypes
  <2>4. /\ ShapeOK(w) /\ w.stage = "refused" /\ w.asked = r.asked /\ w.texts = r.texts
        /\ w.settings = r.settings /\ w.start = r.start /\ w.chunk = r.chunk /\ w.out = r.out
    BY <2>1, <2>3 DEF ShapeOK, Idle
  <2>5. CallTypes(w) /\ Going(w) /\ Chunked(w) /\ Untold(w, Len(w.out) + 1)
    BY <1>5, <2>3, <2>4 DEF CallTypes, Stages, Going, Chunked, Untold
  <2>6. CallInv(w)
    BY <1>4, <2>4, <2>5 DEF CallInv
  <2>. QED
    BY <1>2, <2>2, <2>6, StillKeeps
<1>6. CASE ~Untold(r, Len(r.out) + 1)
  <2>1. Now(t, Answered(r, Walked(InHand(r), r.asked)))
    BY <1>1, <1>4, <1>6 DEF Walk, Untold, Strict
  <2>2. Walked(InHand(r), r.asked) = Treated(InHand(r), r.asked) /\ ~Endless(InHand(r), r.asked)
    BY <1>2 DEF Treated, Endless
  <2>3. CallInv(Answered(r, Walked(InHand(r), r.asked)))
    BY <1>2, <1>3, <1>6, <2>2, AnsweredKeeps
  <2>. QED
    BY <1>2, <2>1, <2>3, StillKeeps
<1>. QED
  BY <1>5, <1>6

\* A call that slugs has the settings it was asked with.
LEMMA SlugWork ==
  ASSUME IInv, NEW t \in Threads, NEW r, r = call[t], r.asked.op \notin Walks,
         r.stage \in {"work", "store"}, Len(r.out) - r.start < Len(r.chunk)
  PROVE  /\ CallInv(r) /\ r.settings.regex = r.asked.pattern /\ r.settings.pairs = r.asked.pairs
         /\ ~Untold(r, Len(r.out) + 1)
         /\ Treated(InHand(r), r.asked) = Slugified(InHand(r), r.asked)
         /\ gil \in Threads \cup {NoThread}
<1>1. CallInv(r) /\ gil \in Threads \cup {NoThread}
  BY DEF IInv, TypeOK
<1>2. r.settings = Settings(r.asked.pattern, r.asked.pairs)
  BY <1>1 DEF CallInv, Going
<1>3. ~Strict(r.asked)
  BY DEF Strict, Walks
<1>. QED
  BY <1>1, <1>2, <1>3 DEF Settings, Untold, Treated

\* A slug that is the promised one keeps the invariant of its call.
LEMMA SluggedKeeps ==
  ASSUME IInv, NEW t \in Threads, NEW r, r = call[t], r.asked.op \notin Walks,
         r.stage \in {"work", "store"}, Len(r.out) - r.start < Len(r.chunk),
         ~Endless(InHand(r), r.asked), NEW way, NEW pairs, SlugNow(t, way, pairs),
         SlugOf(InHand(r), r.asked.pattern, way, pairs) = Slugified(InHand(r), r.asked)
  PROVE  \E w : CallInv(w) /\ Now(t, w)
<1>1. /\ CallInv(r) /\ r.settings.regex = r.asked.pattern /\ ~Untold(r, Len(r.out) + 1)
      /\ Treated(InHand(r), r.asked) = Slugified(InHand(r), r.asked)
  BY SlugWork
<1>2. PICK x : x = SlugOf(InHand(r), r.asked.pattern, way, pairs)
  OBVIOUS
<1>3. CallInv(Answered(r, x))
  BY <1>1, <1>2, AnsweredKeeps
<1>4. Now(t, Answered(r, x))
  BY <1>1, <1>2 DEF SlugNow
<1>. QED
  BY <1>3, <1>4

\* Slugging without an automaton keeps the invariant.
LEMMA PlainStep ==
  ASSUME IInv, NEW t \in Threads, Plain(t)
  PROVE  IInv'
<1>1. PICK r : r = call[t]
  OBVIOUS
<1>2. /\ r.asked.op \notin Walks /\ r.stage = "work" /\ Len(r.out) - r.start < Len(r.chunk)
      /\ ~Needs(r) /\ SlugNow(t, "replace", r.settings.pairs)
      /\ UNCHANGED <<list, gil, caches, slugifier>>
  BY <1>1 DEF Plain, Slugging, Pending
<1>3. gil \in Threads \cup {NoThread} /\ r.settings.pairs = r.asked.pairs
  BY <1>1, <1>2, SlugWork
<1>4. /\ SlugOf(InHand(r), r.asked.pattern, "replace", r.asked.pairs) = Slugified(InHand(r), r.asked)
      /\ ~Endless(InHand(r), r.asked)
  BY <1>2, <1>3 DEF Needs, Slugified, SlugOf, Endless
<1>5. PICK w : CallInv(w) /\ Now(t, w)
  BY <1>1, <1>2, <1>3, <1>4, SluggedKeeps
<1>. QED
  BY <1>2, <1>3, <1>5, StillKeeps

\* Looking for an automaton keeps the invariant: one that is found is the one
\* that would have been built, and a scan that does not end is one that never
\* would.
LEMMA LookUpStep ==
  ASSUME IInv, NEW t \in Threads, LookUp(t)
  PROVE  IInv'
<1>1. PICK r, pairs : r = call[t] /\ pairs = r.settings.pairs
  OBVIOUS
<1>2. /\ r.asked.op \notin Walks /\ r.stage = "work" /\ Len(r.out) - r.start < Len(r.chunk)
      /\ Needs(r) /\ UNCHANGED <<list, gil, caches, slugifier>>
  BY <1>1 DEF LookUp, Slugging, Pending
<1>3. /\ gil' \in Threads \cup {NoThread} /\ pairs = r.asked.pairs /\ CallInv(r)
  BY <1>1, <1>2, SlugWork
<1>4. /\ ~(Len(r.asked.pairs) < 2) /\ InHand(r) # EmptyText
  BY <1>1, <1>3, <1>2 DEF Needs
<1>5. CASE pairs \in DOMAIN automata /\ SlugNow(t, "automaton", automata[pairs])
  <2>1. automata[pairs] = Build(r.asked.pairs) /\ Build(r.asked.pairs) # <<>>
    BY <1>3, <1>5 DEF IInv, CachesSound
  <2>2. /\ SlugOf(InHand(r), r.asked.pattern, "automaton", automata[pairs])
             = Slugified(InHand(r), r.asked)
        /\ ~Endless(InHand(r), r.asked)
    BY <1>4, <2>1 DEF Slugified, Endless
  <2>3. PICK w : CallInv(w) /\ Now(t, w)
    BY <1>1, <1>2, <1>5, <2>2, SluggedKeeps
  <2>. QED
    BY <1>2, <1>3, <2>3, StillKeeps
<1>6. CASE Build(pairs) = <<>> /\ ScanEnds(InHand(r), pairs) /\ SlugNow(t, "scan", pairs)
  <2>1. /\ SlugOf(InHand(r), r.asked.pattern, "scan", pairs) = Slugified(InHand(r), r.asked)
        /\ ~Endless(InHand(r), r.asked)
    BY <1>3, <1>4, <1>6 DEF Slugified, Endless
  <2>2. PICK w : CallInv(w) /\ Now(t, w)
    BY <1>1, <1>2, <1>6, <2>1, SluggedKeeps
  <2>. QED
    BY <1>2, <1>3, <2>2, StillKeeps
<1>7. CASE Build(pairs) # <<>> /\ Now(t, [r EXCEPT !.stage = "store", !.built = Build(pairs)])
  <2>1. PICK w : w = [r EXCEPT !.stage = "store", !.built = Build(pairs)]
    OBVIOUS
  <2>2. CallTypes(r) /\ ShapeOK(r) /\ Going(r) /\ Chunked(r)
    BY <1>2, <1>3 DEF CallInv, CallTypes
  <2>3. /\ ShapeOK(w) /\ w.stage = "store" /\ w.asked = r.asked /\ w.texts = r.texts
        /\ w.settings = r.settings /\ w.start = r.start /\ w.chunk = r.chunk /\ w.out = r.out
        /\ w.built = Build(pairs)
    BY <2>1, <2>2 DEF ShapeOK, Idle
  <2>4. CallTypes(w) /\ Going(w) /\ Chunked(w)
    BY <2>2, <2>3 DEF CallTypes, Stages, Going, Chunked, Untold
  <2>5. Len(w.out) < w.start + Len(w.chunk)
    BY <1>2, <1>3, <2>3, WorkFacts
  <2>6. Needs(w)
    BY <1>2, <2>3 DEF Needs, InHand
  <2>7. CallInv(w)
    BY <1>2, <1>3, <1>7, <2>3, <2>4, <2>5, <2>6 DEF CallInv
  <2>. QED
    BY <1>2, <1>3, <1>7, <2>1, <2>7, StillKeeps
<1>8. CASE /\ Build(pairs) = <<>> /\ ~ScanEnds(InHand(r), pairs)
           /\ Now(t, [r EXCEPT !.stage = "scan"])
  <2>1. Endless(InHand(r), r.asked)
    BY <1>2, <1>3, <1>4, <1>8 DEF Endless
  <2>2. CallInv([r EXCEPT !.stage = "scan"])
    BY <1>2, <1>3, <2>1, ScanKeeps
  <2>. QED
    BY <1>2, <1>3, <1>8, <2>2, StillKeeps
<1>. QED
  BY <1>1, <1>5, <1>6, <1>7, <1>8 DEF LookUp

\* Storing an automaton keeps the invariant, whatever the cache has come to
\* hold since the automaton was looked for.
LEMMA StoreStep ==
  ASSUME IInv, NEW t \in Threads, Store(t)
  PROVE  IInv'
<1>1. PICK r, pairs : r = call[t] /\ pairs = r.settings.pairs
  OBVIOUS
<1>2. r.stage = "store" /\ CallInv(r) /\ UNCHANGED <<list, gil, regexes, slugifier>>
  BY <1>1 DEF Store, IInv
<1>3. /\ r.asked.op \notin Walks /\ Len(r.out) < r.start + Len(r.chunk) /\ Needs(r)
      /\ r.built = Build(r.asked.pairs) /\ r.built # <<>>
      /\ r.start \in Nat /\ Len(r.chunk) \in Nat /\ r.out \in Seq(Made(r.asked))
  BY <1>2 DEF CallInv, CallTypes, Going
<1>4. Len(r.out) - r.start < Len(r.chunk)
  BY <1>3
<1>5. pairs = r.asked.pairs /\ gil' \in Threads \cup {NoThread}
  BY <1>1, <1>2, <1>3, <1>4, SlugWork
<1>6. SlugNow(t, "automaton", r.built)
  BY <1>1 DEF Store
<1>7. /\ SlugOf(InHand(r), r.asked.pattern, "automaton", r.built) = Slugified(InHand(r), r.asked)
      /\ ~Endless(InHand(r), r.asked)
  BY <1>1, <1>3, <1>5 DEF Slugified, Needs, Endless
<1>8. PICK w : CallInv(w) /\ Now(t, w)
  BY <1>1, <1>2, <1>3, <1>4, <1>6, <1>7, SluggedKeeps
<1>9. CachesFinite' /\ CachesSound'
  <2>1. automata' = Stored(automata, REPLACEMENT_AUTOMATON_CACHE_MAX, pairs, r.built)
    BY <1>1 DEF Store
  <2>2. /\ IsFiniteSet(DOMAIN automata')
        /\ Cardinality(DOMAIN automata') <= REPLACEMENT_AUTOMATON_CACHE_MAX
        /\ \A k \in DOMAIN automata' :
             IF k = pairs THEN automata'[k] = r.built
             ELSE k \in DOMAIN automata /\ automata'[k] = automata[k]
    BY <2>1, StoredFacts, BatchCallsAssumption DEF IInv, CachesFinite, CachesSound
  <2>. QED
    BY <1>2, <1>3, <1>5, <2>2 DEF IInv, CachesFinite, CachesSound
<1>10. list' \in Lists /\ (slugifier = Settings(slugifier.regex, slugifier.pairs))'
  BY <1>2 DEF IInv, TypeOK
<1>. QED
  BY <1>5, <1>8, <1>9, <1>10, NowKeeps

\* A list that other code changes, or nothing, keeps the invariant.
LEMMA Stutters ==
  ASSUME IInv, UNCHANGED <<gil, caches, slugifier, call>>, list' \in Lists
  PROVE  IInv'
<1>1. CachesFinite' /\ CachesSound'
  BY DEF IInv, CachesFinite, CachesSound, caches
<1>2. TypeOK'
  BY DEF IInv, TypeOK
<1>. QED
  BY <1>1, <1>2 DEF IInv

\* The invariant holds: a case for each action.
THEOREM Invariant == Spec => []IInv
<1>1. Init => IInv
  <2>1. SUFFICES ASSUME Init PROVE IInv
    OBVIOUS
  <2>2. TypeOK
    <3>1. /\ list \in Lists /\ gil = NoThread /\ DOMAIN call = Threads
          /\ \A t \in Threads : call[t] = Idle
      BY <2>1 DEF Init
    <3>. QED
      BY <3>1, IdleShape DEF TypeOK, CallInv, CallTypes, ShapeOK, Stages, Items
  <2>3. CachesFinite /\ CachesSound
    <3>1. DOMAIN regexes = {} /\ DOMAIN automata = {}
      BY <2>1 DEF Init, NoEntries
    <3>. QED
      BY <3>1, FS_EmptySet, BatchCallsAssumption DEF CachesFinite, CachesSound
  <2>4. slugifier = Settings(slugifier.regex, slugifier.pairs)
    BY <2>1 DEF Init, DefaultSettings, Settings
  <2>. QED
    BY <2>1, <2>2, <2>3, <2>4, IdleShape DEF IInv, Init
<1>2. IInv /\ [Next]_vars => IInv'
  <2>1. SUFFICES ASSUME IInv, [Next]_vars PROVE IInv'
    OBVIOUS
  <2>2. CASE UNCHANGED vars
    BY <2>1, <2>2, Stutters DEF vars, IInv, TypeOK
  <2>3. CASE Mutate
    BY <2>1, <2>3, Stutters DEF Mutate
  <2>4. ASSUME NEW t \in Threads, NEW c \in Calls,
               \/ Slug(t, c) \/ SlugBatch(t, c) \/ NewSlugifier(t, c)
               \/ SlugifierSlug(t, c) \/ WalkBatch(t, c)
        PROVE  IInv'
    BY <2>1, <2>4, SlugStep, SlugBatchStep, NewSlugifierStep, SlugifierSlugStep, WalkBatchStep
  <2>5. ASSUME NEW t \in Threads, Read(t) \/ Attach(t) \/ Return(t) \/ Leave(t)
        PROVE  IInv'
    BY <2>1, <2>5, ReadStep, AttachStep, ReturnStep, LeaveStep
  <2>6. ASSUME NEW t \in Threads, Walk(t) \/ Plain(t) \/ LookUp(t) \/ Store(t)
        PROVE  IInv'
    BY <2>1, <2>6, WalkStep, PlainStep, LookUpStep, StoreStep
  <2>7. ASSUME NEW t \in Threads, Spin(t)
        PROVE  IInv'
    BY <2>1, <2>2, <2>7 DEF Spin
  <2>. QED
    BY <2>1, <2>2, <2>3, <2>4, <2>5, <2>6, <2>7 DEF Next
<1>. QED
  BY <1>1, <1>2, PTL DEF Spec

\* Every call that ends gives what the texts it was given promise: every item
\* as a call of its own would, or one error and nothing (py/slugify.rs,
\* py/transliterate.rs and py/normalize.rs), whatever other threads do to the
\* list, the caches and the shared object while a chunk is computed.  And the
\* scan of slugify.rs keeps a call just where those texts and its pairs say so:
\* no call that they let end goes round in it, none that they keep ends.
THEOREM AnswersAreKept == Spec => []AnswersKept
<1>1. IInv => AnswersKept
  BY DEF IInv, CallInv, AnswersKept
<1>. QED
  BY <1>1, Invariant, PTL

\* Neither cache of slugify.rs outgrows its limit, and no key is answered with
\* what was built for another, though a batch looks an automaton up and stores
\* it without the GIL.
THEOREM CachesAreSound == Spec => []CachesSound
<1>1. IInv => CachesSound
  BY DEF IInv
<1>. QED
  BY <1>1, Invariant, PTL
=============================================================================
