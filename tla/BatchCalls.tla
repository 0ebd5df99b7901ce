------------------------------ MODULE BatchCalls -----------------------------
(***************************************************************************)
(* Python's slugs and batches (py/slugify.rs, py/transliterate.rs,         *)
(* py/normalize.rs) over the two caches of slugify.rs.  A call holds the   *)
(* GIL but for the time a batch computes a chunk.  Then every other thread *)
(* may run: change the caller's list, or meet the batch in the cache of    *)
(* replacement automata, which is looked up, built for and written in      *)
(* steps of their own.                                                     *)
(*                                                                         *)
(*   list               the list the callers share                         *)
(*   gil                the thread that holds the GIL                      *)
(*   regexes, automata  REGEX_CACHE and REPLACEMENT_AUTOMATON_CACHE        *)
(*   slugifier          the configuration of the shared _Slugifier         *)
(*   call               each thread's call: what was asked, the texts as   *)
(*                      they were then, the chunk in hand, its start, the  *)
(*                      answers so far and the automaton just built        *)
(*                                                                         *)
(* A regex is written as the pattern it was compiled from, an automaton as *)
(* the pairs it matches, a slug as the text and what it is made with.      *)
(***************************************************************************)
EXTENDS Integers, Sequences, FiniteSets

CONSTANTS
  Threads, NoThread,
  Texts, EmptyText,
  NotStr,                          \* an object in a list that is no string
  Lists,                           \* the lists callers hand over
  Langs,                           \* the languages validate_lang knows
  NoPattern, LongPatterns, RefusedPatterns,
  EmptyKey,                        \* the replacement key ""
  Repetitions,                     \* <<text, key>>: the text is that key, again and again
  Untranslatable,                  \* the texts errors="strict" refuses
  Calls,                           \* what a thread may ask
  MAX_BATCH_SIZE, BATCH_CHUNK_SIZE,
  REGEX_CACHE_MAX, REPLACEMENT_AUTOMATON_CACHE_MAX

ASSUME BatchCallsAssumption ==
  /\ NoThread \notin Threads /\ NotStr \notin Texts
  /\ Lists \subseteq Seq(Texts \cup {NotStr})
  /\ NoPattern \notin LongPatterns \cup RefusedPatterns
  /\ {MAX_BATCH_SIZE, BATCH_CHUNK_SIZE, REGEX_CACHE_MAX, REPLACEMENT_AUTOMATON_CACHE_MAX}
       \subseteq Nat \ {0}
  /\ \A c \in Calls : c.op \in {"slugify", "Slugifier.slugify"} => c.text \in Texts

VARIABLES list, gil, regexes, automata, slugifier, call

caches == <<regexes, automata>>
vars == <<list, gil, caches, slugifier, call>>

AtMost(m, n) == IF m <= n THEN m ELSE n

-----------------------------------------------------------------------------
(***************************************************************************)
(* The caches.                                                             *)
(***************************************************************************)
\* Mutant: a cache is cleared one entry late.
StoredLate(cache, max, key, value) ==
  LET kept == IF Cardinality(DOMAIN cache) > max THEN {} ELSE DOMAIN cache
  IN [k \in kept \cup {key} |-> IF k = key THEN value ELSE cache[k]]
\* A full cache is cleared for a key it does not hold.
Stored(cache, max, key, value) ==
  LET kept == IF Cardinality(DOMAIN cache) >= max /\ key \notin DOMAIN cache THEN {}
              ELSE DOMAIN cache
  IN [k \in kept \cup {key} |-> IF k = key THEN value ELSE cache[k]]

NoEntries == [k \in {} |-> k]

\* What a pattern is refused for; "none" when it compiles.
CompileError(p) ==
  IF p \in LongPatterns THEN "regex_too_long"
  ELSE IF p \in RefusedPatterns THEN "regex_compile" ELSE "none"

\* compile_regex_cached: the error, the regex and the cache it leaves.
Compiled(p) == p = NoPattern \/ p \in DOMAIN regexes
CachedError(p) == IF Compiled(p) THEN "none" ELSE CompileError(p)
CachedRegex(p) == IF p \in DOMAIN regexes THEN regexes[p] ELSE p
CacheRegex(p) ==
  regexes' = IF Compiled(p) THEN regexes ELSE Stored(regexes, REGEX_CACHE_MAX, p, p)

\* The automaton of some pairs, <<>> where the builder declines.
Build(pairs) ==
  LET keyed == SelectSeq(pairs, LAMBDA pair : pair[1] # EmptyKey)
  IN IF Len(keyed) < 2 THEN <<>> ELSE keyed

-----------------------------------------------------------------------------
(***************************************************************************)
(* What a call is refused for before it reads a text, if for anything.     *)
(***************************************************************************)
Settings(regex, pairs) == [regex |-> regex, pairs |-> pairs]
DefaultSettings == Settings(NoPattern, <<>>)

NotAllStr(s) == \E i \in DOMAIN s : s[i] = NotStr

FirstError(errors) ==
  LET raised == {i \in DOMAIN errors : errors[i] # "none"}
  IN IF raised = {} THEN "none" ELSE errors[CHOOSE i \in raised : \A j \in raised : i <= j]

When(refused, error) == IF refused THEN error ELSE "none"

TooLarge(s) == When(Len(s) > MAX_BATCH_SIZE, "batch_too_large")
UnknownLang(c) == When(c.lang \notin Langs, "unknown_lang")
\* The strings are taken out of the list before the function is entered.
Extracted(s) == When(NotAllStr(s), "type_error")

SlugErrors(c, compileError) ==
  <<UnknownLang(c), When(c.max_length < 0, "negative_max_length"), compileError>>

ArgumentError(c, s, compileError) ==
  FirstError(
    CASE c.op \in {"slugify", "Slugifier"} -> SlugErrors(c, compileError)
      [] c.op = "slugify_batch" -> <<TooLarge(s)>> \o SlugErrors(c, compileError)
      [] c.op = "transliterate_batch" ->
           <<When(c.exclusive, "mutually_exclusive"), TooLarge(s), UnknownLang(c),
             When(c.errors = "unknown", "invalid_error_mode")>>
      [] c.op = "normalize_batch" ->
           <<Extracted(s), When(c.form = "unknown", "invalid_form"), TooLarge(s)>>
      [] c.op = "strip_accents_batch" -> <<Extracted(s), TooLarge(s)>>
      [] OTHER -> <<>>)

\* What the pattern of a call is refused for, where the call compiles one.
PatternError(c) ==
  IF c.op \in {"slugify", "slugify_batch", "Slugifier"} THEN CompileError(c.pattern) ELSE "none"

Returned(answers) == [raised |-> "none", answers |-> answers]
Raised(error) == [raised |-> error, answers |-> <<>>]

-----------------------------------------------------------------------------
Idle ==
  [stage |-> "idle", asked |-> [op |-> "none"], texts |-> <<>>, settings |-> DefaultSettings,
   start |-> 0, chunk |-> <<>>, out |-> <<>>, built |-> <<>>, answer |-> Returned(<<>>)]

TypeOK ==
  /\ list \in Lists /\ gil \in Threads \cup {NoThread}
  /\ DOMAIN call = Threads
  /\ \A t \in Threads :
       /\ DOMAIN call[t] = DOMAIN Idle
       /\ call[t].stage \in {"idle", "read", "work", "store", "scan", "refused", "done"}
       /\ call[t].texts \in Seq(Texts \cup {NotStr}) /\ call[t].start \in Nat
       /\ call[t].chunk \in Seq(Texts)

Init ==
  /\ list \in Lists
  /\ gil = NoThread
  /\ regexes = NoEntries /\ automata = NoEntries
  /\ slugifier = DefaultSettings
  /\ call = [t \in Threads |-> Idle]

\* Python code of any thread does what it likes to the list.
Mutate ==
  /\ gil = NoThread
  /\ list' \in Lists \ {list}
  /\ UNCHANGED <<gil, caches, slugifier, call>>

\* The caller has its answer.
Leave(t) ==
  /\ call[t].stage = "done"
  /\ call' = [call EXCEPT ![t] = Idle]
  /\ UNCHANGED <<list, gil, caches, slugifier>>

\* A call under way, and one that has come to its end.
Started(c, s, settings) ==
  [Idle EXCEPT !.stage = "read", !.asked = c, !.texts = s, !.settings = settings]
Ended(r, answer) ==
  [Idle EXCEPT !.stage = "done", !.asked = r.asked, !.texts = r.texts, !.answer = answer]

Free(t) == gil = NoThread /\ call[t].stage = "idle"
Now(t, r) == call' = [call EXCEPT ![t] = r]
Refuse(t, c, s, error) ==
  /\ Now(t, Ended(Started(c, s, DefaultSettings), Raised(error)))
  /\ UNCHANGED <<list, gil, caches, slugifier>>

\* REGEX_CACHE is met by holders of the GIL only.
Slug(t, c) ==
  /\ Free(t) /\ c.op = "slugify"
  /\ \E error \in {ArgumentError(c, <<c.text>>, CachedError(c.pattern))} :
       \/ error # "none" /\ Refuse(t, c, <<c.text>>, error)
       \/ /\ error = "none"
          /\ CacheRegex(c.pattern)
          /\ Now(t, [Started(c, <<c.text>>, Settings(CachedRegex(c.pattern), c.pairs)) EXCEPT
                       !.stage = "work", !.chunk = <<c.text>>])
          /\ gil' = t
          /\ UNCHANGED <<list, automata, slugifier>>

SlugBatch(t, c) ==
  /\ Free(t) /\ c.op = "slugify_batch"
  /\ \E error \in {ArgumentError(c, list, CachedError(c.pattern))} :
       \/ error # "none" /\ Refuse(t, c, list, error)
       \/ /\ error = "none"
          /\ CacheRegex(c.pattern)
          /\ Now(t, Started(c, list, Settings(CachedRegex(c.pattern), c.pairs)))
          /\ gil' = t
          /\ UNCHANGED <<list, automata, slugifier>>

NewSlugifier(t, c) ==
  /\ Free(t) /\ c.op = "Slugifier"
  /\ \E error \in {ArgumentError(c, <<>>, CachedError(c.pattern))} :
       \/ error # "none" /\ Refuse(t, c, <<>>, error)
       \/ /\ error = "none"
          /\ CacheRegex(c.pattern)
          /\ slugifier' = Settings(CachedRegex(c.pattern), c.pairs)
          /\ Now(t, Ended(Started(c, <<>>, DefaultSettings), Returned(<<>>)))
          /\ UNCHANGED <<list, gil, automata>>

\* The settings of the object are those of the call; no regex is looked up.
OnObject(c) == [op |-> c.op, pattern |-> slugifier.regex, pairs |-> slugifier.pairs]

SlugifierSlug(t, c) ==
  /\ Free(t) /\ c.op = "Slugifier.slugify"
  /\ Now(t, [Started(OnObject(c), <<c.text>>, slugifier) EXCEPT
               !.stage = "work", !.chunk = <<c.text>>])
  /\ gil' = t
  /\ UNCHANGED <<list, caches, slugifier>>

Walks == {"transliterate_batch", "normalize_batch", "strip_accents_batch"}

WalkBatch(t, c) ==
  /\ Free(t) /\ c.op \in Walks
  /\ \E error \in {ArgumentError(c, list, "none")} :
       \/ error # "none" /\ Refuse(t, c, list, error)
       \/ /\ error = "none"
          /\ Now(t, Started(c, list, DefaultSettings))
          /\ gil' = t
          /\ UNCHANGED <<list, caches, slugifier>>

-----------------------------------------------------------------------------
(***************************************************************************)
(* The chunks of a batch.  The two batches that were given strings have    *)
(* one chunk.                                                              *)
(***************************************************************************)
ChunkSize(c, s) ==
  IF c.op \in {"slugify_batch", "transliterate_batch"} THEN BATCH_CHUNK_SIZE ELSE Len(s)

\* Mutant: a chunk is read from the list as it is by then.
SourceLive(r) == list
\* What the chunks are read from: the tuple made of the list at the call.
Source(r) == r.texts

ChunkAt(r) ==
  SubSeq(Source(r), r.start + 1, AtMost(r.start + ChunkSize(r.asked, r.texts), Len(Source(r))))

Read(t) ==
  /\ call[t].stage = "read" /\ gil = t
  /\ gil' = NoThread
  /\ \E r \in {call[t]} :
       \/ r.start >= Len(r.texts) /\ Now(t, Ended(r, Returned(r.out)))
       \/ r.start < Len(r.texts) /\ NotAllStr(ChunkAt(r)) /\ Now(t, Ended(r, Raised("type_error")))
       \/ /\ r.start < Len(r.texts) /\ ~NotAllStr(ChunkAt(r))
          /\ Now(t, [r EXCEPT !.stage = "work", !.chunk = ChunkAt(r)])
  /\ UNCHANGED <<list, caches, slugifier>>

Pending(r) == r.stage = "work" /\ Len(r.out) - r.start < Len(r.chunk)
InHand(r) == r.chunk[Len(r.out) - r.start + 1]
Answered(r, x) == [r EXCEPT !.stage = "work", !.out = Append(@, x), !.built = <<>>]

IsBatch(c) == c.op \in Walks \cup {"slugify_batch"}

\* The GIL is taken back for the next chunk, or to raise.
Attach(t) ==
  /\ gil = NoThread
  /\ \E r \in {call[t]} :
       \/ /\ r.stage = "work" /\ ~Pending(r) /\ IsBatch(r.asked)
          /\ Now(t, [r EXCEPT !.stage = "read", !.start = @ + Len(r.chunk), !.chunk = <<>>])
          /\ gil' = t
       \/ /\ r.stage = "refused"
          /\ Now(t, Ended(r, Raised("untranslatable")))
          /\ UNCHANGED gil
  /\ UNCHANGED <<list, caches, slugifier>>

\* A single call, which has kept the GIL, answers.
Return(t) ==
  /\ call[t].stage = "work" /\ ~Pending(call[t]) /\ ~IsBatch(call[t].asked)
  /\ gil' = NoThread
  /\ Now(t, Ended(call[t], Returned(call[t].out)))
  /\ UNCHANGED <<list, caches, slugifier>>

-----------------------------------------------------------------------------
(***************************************************************************)
(* One text.  A batch does this without the GIL.                           *)
(***************************************************************************)
\* What the walk of an operation makes of a text with the arguments of the call.
Walked(text, c) == <<text, c>>

Walk(t) ==
  /\ Pending(call[t]) /\ call[t].asked.op \in Walks
  /\ \E r \in {call[t]} :
       IF r.asked.op = "transliterate_batch" /\ r.asked.errors = "strict" /\ InHand(r) \in Untranslatable
       THEN Now(t, [r EXCEPT !.stage = "refused"])
       ELSE Now(t, Answered(r, Walked(InHand(r), r.asked)))
  /\ UNCHANGED <<list, gil, caches, slugifier>>

\* What is made of a text: with which regex, and which way its pairs are applied.
SlugOf(text, regex, way, pairs) ==
  IF text = EmptyText THEN <<EmptyText>> ELSE <<text, regex, way, pairs>>

Slugging(t) == Pending(call[t]) /\ call[t].asked.op \notin Walks
Needs(r) == InHand(r) # EmptyText /\ ~(Len(r.settings.pairs) < 2)
SlugNow(t, way, pairs) ==
  Now(t, Answered(call[t], SlugOf(InHand(call[t]), call[t].settings.regex, way, pairs)))

\* No automaton is asked for: one pair is replaced as it is.
Plain(t) ==
  /\ Slugging(t) /\ ~Needs(call[t])
  /\ SlugNow(t, "replace", call[t].settings.pairs)
  /\ UNCHANGED <<list, gil, caches, slugifier>>

\* The scan where no automaton is built, so that a key is empty: it matches
\* everywhere and takes the scan no further, unless the one key that is not
\* empty comes first and takes all of the text.
ScanEnds(text, pairs) ==
  \E i \in DOMAIN pairs :
    <<text, pairs[i][1]>> \in Repetitions /\ \A j \in 1..i : pairs[j][1] # EmptyKey

LookUp(t) ==
  /\ Slugging(t) /\ Needs(call[t])
  /\ \E pairs \in {call[t].settings.pairs} :
       \/ pairs \in DOMAIN automata /\ SlugNow(t, "automaton", automata[pairs])
       \/ /\ pairs \notin DOMAIN automata /\ Build(pairs) = <<>>
          /\ IF ScanEnds(InHand(call[t]), pairs) THEN SlugNow(t, "scan", pairs)
             ELSE Now(t, [call[t] EXCEPT !.stage = "scan"])
       \/ /\ pairs \notin DOMAIN automata /\ Build(pairs) # <<>>
          /\ Now(t, [call[t] EXCEPT !.stage = "store", !.built = Build(pairs)])
  /\ UNCHANGED <<list, gil, caches, slugifier>>

\* Another thread may have stored the same pairs, or filled the cache, since.
Store(t) ==
  /\ call[t].stage = "store"
  /\ automata' = Stored(automata, REPLACEMENT_AUTOMATON_CACHE_MAX, call[t].settings.pairs, call[t].built)
  /\ SlugNow(t, "automaton", call[t].built)
  /\ UNCHANGED <<list, gil, regexes, slugifier>>

\* A scan that does not end goes round: its result grows, and nothing else.
Spin(t) == call[t].stage = "scan" /\ UNCHANGED vars

Next ==
  \/ Mutate
  \/ \E t \in Threads :
       \/ \E c \in Calls :
            Slug(t, c) \/ SlugBatch(t, c) \/ NewSlugifier(t, c) \/ SlugifierSlug(t, c) \/ WalkBatch(t, c)
       \/ Read(t) \/ Attach(t) \/ Return(t) \/ Leave(t)
       \/ Walk(t) \/ Plain(t) \/ LookUp(t) \/ Store(t) \/ Spin(t)

Spec == Init /\ [][Next]_vars

-----------------------------------------------------------------------------
(***************************************************************************)
(* What a call promises, told without caches, chunks or other threads.     *)
(***************************************************************************)
Slugified(text, c) ==
  LET way == IF Len(c.pairs) < 2 THEN "replace" ELSE IF Build(c.pairs) = <<>> THEN "scan" ELSE "automaton"
  IN SlugOf(text, c.pattern, way, IF way = "automaton" THEN Build(c.pairs) ELSE c.pairs)

Treated(text, c) == IF c.op \in Walks THEN Walked(text, c) ELSE Slugified(text, c)

Strict(c) == c.op = "transliterate_batch" /\ c.errors = "strict"

\* A text that the scan never leaves.
Endless(text, c) ==
  /\ c.op \notin Walks /\ text # EmptyText
  /\ ~(Len(c.pairs) < 2) /\ Build(c.pairs) = <<>> /\ ~ScanEnds(text, c.pairs)

\* The chunk a text is in, and the texts that are no strings.
ChunkOf(i, c, s) == (i - 1) \div ChunkSize(c, s)
Odd(s) == {i \in DOMAIN s : s[i] = NotStr}

\* The call comes to an endless text: no chunk up to that text's own raises.
NeverReturns(c, s) ==
  /\ ArgumentError(c, s, PatternError(c)) = "none"
  /\ \E i \in DOMAIN s :
       /\ s[i] # NotStr /\ Endless(s[i], c)
       /\ \A j \in Odd(s) : ~(ChunkOf(j, c, s) <= ChunkOf(i, c, s))

\* What a call that returns answers.  Every item of a chunk is read before one
\* is worked on.
Promised(c, s) ==
  LET error == ArgumentError(c, s, PatternError(c))
      untold == {i \in DOMAIN s : Strict(c) /\ s[i] \in Untranslatable}
  IN IF error # "none" THEN Raised(error)
     ELSE IF \E i \in Odd(s) : \A j \in untold : ChunkOf(i, c, s) <= ChunkOf(j, c, s)
          THEN Raised("type_error")
     ELSE IF untold # {} THEN Raised("untranslatable")
     ELSE Returned([i \in DOMAIN s |-> Treated(s[i], c)])

\* A call answers for the texts it was given, as they were then: every item as
\* a call of its own without a cache would, or one error and nothing, whatever
\* other threads do to the list, the caches and the shared object meanwhile.
\* It never returns just where those texts and its pairs make it so: it comes
\* to a text that an empty key keeps the scan in.
AnswersKept ==
  \A t \in Threads :
    LET c == call[t].asked
        s == call[t].texts
    IN /\ call[t].stage = "done" => ~NeverReturns(c, s) /\ call[t].answer = Promised(c, s)
       /\ call[t].stage = "scan" => NeverReturns(c, s)

\* "Empty `from` keys are skipped (the former scan would have spun on them)": no
\* call is left in a scan that does not end.
NoScanSpins == \A t \in Threads : call[t].stage # "scan"

\* No cache outgrows its limit, holds what did not compile, or answers one key
\* with what was built for another.
CachesSound ==
  /\ Cardinality(DOMAIN regexes) <= REGEX_CACHE_MAX
  /\ Cardinality(DOMAIN automata) <= REPLACEMENT_AUTOMATON_CACHE_MAX
  /\ \A p \in DOMAIN regexes : regexes[p] = p /\ CompileError(p) = "none"
  /\ \A k \in DOMAIN automata : automata[k] = Build(k) /\ Build(k) # <<>>
=============================================================================
