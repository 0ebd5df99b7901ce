# Verification of disarm

disarm turns untrusted Unicode text into canonical, ASCII, slug or filename form. The core is a
Rust crate (`src/src/`), mostly pure functions over one string, called through a PyO3 extension, a
Python package (`src/python/disarm/`) and bindings for C, Java, Node and Ruby. Three kinds of thing are
hard about it:

- **what is shared**: process-global tables that calls read while others change them, a seal, a gate,
  Python objects kept in global slots, callbacks into Python while locks or borrows are held, a cache
  over the tables, batches that give up the GIL between chunks of a list others may change, objects that
  remember what they have given, handles that a garbage collector frees;
- **what repeats**: texts rewritten by steps that undo each other's work (fold, compose, strip, cap,
  trim), run to a fixed point under a cap, with shortcuts (a guard that answers without running a
  step, spans settled apart, cycles skipped) that must not change the answer;
- **what is written twice**: two attempts at one text, two scanners, a detector and the cleaner it goes
  with, a walk and the cache of it, an encoder and whoever reads what it wrote. They must agree.

The modules below model all three. Paths in this file are relative to the repository.

## 1. Inventory

Status: **M** modelled, **P** partly, **–** not modelled (the reasons are in section 8). Everything
that is hard about the modelled parts is in `PROJECT.json` under `hazards`, at its line, with the
properties that would catch it.

| Component | Sources | State | Operations | Right when | |
|---|---|---|---|---|---|
| registration tables | `src/transliterate.rs`, `src/tables/mod.rs`, `src/lib.rs` | language table, replacement table, its compiled automaton, two fast-path flags, the gate, the seal | `register_lang`, `register_replacements`, `remove_replacement`, `clear_replacements`, `seal_registrations` | limits hold under races; automaton and flags agree with the tables; nothing moves once sealed; each call is atomic | M |
| transliterate calls over the tables | the same | none of its own | validate the language, pre-pass, lookup per character | a call never sees a table nobody wrote, and a validated language answers | M |
| transliteration engine | `src/transliterate.rs` | – | the walk by language, fast and composed attempt, error modes, `find_untranslatable`, strict | the two attempts agree; the report is the text's own; no character eats another's piece | M |
| reverse transliteration | `src/reverse.rs` | – | greedy longest match | capitals are read as the capitals of what the small letters are read as | M |
| context dictionaries | `src/context.rs` | dictionaries read once in the life of a process | token loop with a bigram context | context ends where a sentence ends; a call has one answer for the life of the process | M |
| presets engine | `src/presets/`, `src/deletions.rs` | the text in hand, the guard's table | the guard, the runner, the steps of ten presets | guard sound; answers idempotent; growth bounded; spelling and invisibles do not matter | M |
| text pipeline | `src/pipeline.rs` | – | steps in one fixed order, eight profiles | profiles reach a fixed point | P |
| confusable fold | `src/confusables.rs`, `src/compose.rs` | the text in hand | fold, compose at lookup, capped loops, `converge_slow` | reaches the fixed point plain passes reach, in few passes, whatever the normal form | P |
| emoji | `src/emoji.rs`, `src/py/emoji.rs` | a window over the text | `replace_emoji`, `demojize`, the provider's loop | the scanners agree; removal makes no emoji; a name is a word | M |
| slugify | `src/slugify.rs` | – | the slug of one text | a slug is its own slug, within its length, whatever the spelling | M |
| slug calls, batches and their caches | `src/py/slugify.rs`, `src/py/transliterate.rs`, `src/py/normalize.rs`, `src/slugify.rs` | a cache of regexes, a cache of automata, a shared `_Slugifier`, the chunk of a batch | `slugify`, `_Slugifier`, the four batches | each item is answered as a single call without a cache would, or one error and nothing; a cache stays in its bound | M |
| unique slugifier | `src/py/slugify.rs`, `src/slugify.rs`, `_api.py` | slugs given, a suffix walk per base, RLock, PyO3 borrow | `slugify`, `reset`, the user's `check` | no slug twice; the remembered walk changes no answer; the limit counts questions; calls end | M |
| awesome-slugify compatibility | `python/disarm/_compat.py` | settings, a dirty flag, an inner object | setters, calls, `reset` | settings take effect once set; slugs stay apart | M |
| cached transliterator | `_api.py` | generation, generation seen, an LRU store | `cached(text)`, `cache_clear`, the mutators' bump | never serves what a returned mutation made old | M |
| Python binding locks | `src/py/emoji.rs`, `src/py/transliterate.rs`, `src/lib.rs` | provider and dispatcher slots, gate, poisoned locks, the GIL | set, use, register, seal, batch; `__del__`, lookup, `showwarning` as callbacks | no Python under a Rust lock; no deadlock with the GIL; a sealed provider stays | M |
| C, Java, Node and Ruby bindings | `bindings/` | the Java registries of handles | open, copy, call, close, the Cleaner; reading a Java string | a handle is its own object's and freed once; a string is read as its characters | P |
| filename sanitizer | `src/filename.rs` | the name of the last pass | `sanitize_filename` | a fixed point, a name that can be stored, extension kept, no percent made | M |
| hostname screen | `src/hostname.rs` | – | `analyze_hostname` | `canonical` is its own, and hides nothing | M |
| smuggled payload decoder | `src/smuggled.rs` | – | five schemes in order | what shows is what was sent, given as text only when it reads one way | M |
| anomaly detector | `src/anomalies.rs` | – | `has_anomalies`, `inspect_anomalies` | the two agree; a disguised word does not pass | M |
| scripts and bidi | `src/scripts.rs` | – | `detect_scripts`, mixed scripts, bidi conflicts, `inspect_auto_lang` | mixed exactly when no writing system holds the scripts | M |
| collisions and contraction | `src/collisions.rs`, `src/contraction.rs` | – | `find_key_collisions`, `contract` | groups are the values of one key | M |
| normalization and stream-safe text | `src/normalize.rs`, `src/zalgo.rs` | – | `normalize`, `is_normalized`, `strip_zalgo`, `is_zalgo` | pieces suffice: the segments are what the whole is | P |
| encodings and encoders | `src/encoding.rs`, `src/encoders.rs`, `src/log_injection.rs` | – | `decode_to_utf8`, `detect_encoding`, `escape_html`, `percent_encode`, `strip_log_injection` | what is encoded comes back | M |
| graphemes, width, punctuation | `src/grapheme.rs`, `src/width.rs`, `src/punctuation.rs` | – | clusters, columns, truncation, typographic punctuation | columns add up over a cut | M |
| Rust API, Python shims, Python package | `src/api/`, `src/py/`, `python/` | – | argument checks, wrapping | – | – |
| errors, limits, utilities, logging, metadata | `src/` | – | – | – | – |
| pull request watcher | `scripts/watch_pr.py` | streaks | poll, merge | merges the head it read | – |
| generators, build, generated tables, tests | `scripts/`, `build.rs`, `tests/` | – | – | – | – |

`PROJECT.json` has the list with the files of each.

How they interact: a `transliterate` call (directly, in a batch, from a slug, a filename or a preset)
reads the registration tables while mutators change them; the Python mutators run the Rust ones under
the GIL and then bump the generation the cached transliterator watches; the emoji provider shares the
gate and the seal with the mutators; `UniqueSlugifier` calls `check`, which may call anything, and
`UniqueSlugify` keeps one of those inside; the presets and the pipeline run the confusable fold, which
runs composition, and the emoji and transliteration steps; `sanitize_filename` and `slugify`
transliterate; the anomaly detector asks the script, confusable, payload and contraction functions about
every token, and compares with what `canonicalize` makes of the text.

## 2. Modules

```
RegistrationTables        the tables' data and operators, the calls and their answers
 |- AtomicRegistration    abstract: every call at one instant
 |- Registration          one action per lock or atomic          --implements--> AtomicRegistration
     |- RegistrationProofs   theorems of Registration
     |- TransliterateCalls   composition: readers beside the mutators
         |- CallsProofs      theorems of TransliterateCalls, over RegistrationProofs
FullWalk                  abstract: walk from counter 0 at every call, over any candidates
UniqueSlugifier           candidates, RLock, borrow, remembered walk, check  --implements--> FullWalk
 |- UniqueProofs          theorems
BatchCalls                single slug calls and batches, chunk by chunk, over two caches
 |- BatchProofs           theorems
BindingObjects            the objects a binding keeps, one machine each:
 |- CachedTransliterator  generation, store, callers and mutators
 |- AwesomeSlugify        settings, dirty flag, inner object
 |- Handles               registries, close(), the Cleaner
 |- BindingProofs         theorems of each machine
PythonLocks               slots, gate, poisoned lock, GIL, callbacks
 |- LocksProofs           theorems

Characters                what a character is: its class, its case
 |- Composition           normal forms and compose-at-lookup
     |- FoldRules         rows, digit policies, one pass
         |- ConfusableFold    the loops, spans and cycle skip
         |- TextSteps         the steps of a preset as operators
     |- Transliteration   blocks, roles, rows, one character's piece, the walk
         |- Transliterator    a call, attempt by attempt
 |- Emoji                 sequences, names, the core's scanner
     |- EmojiScanner      the window of replace_emoji, Python's provider loop
TextScanners              a call of Transliterator or of EmojiScanner, turn by turn
PresetSteps               TextSteps, Transliteration and Emoji: the lists of ten presets, and the
                          options, order and profiles of TextPipeline
 |- Presets               guard, runner, a call on the answer
TextCalls                 one call of each text function, over
 |- Slugify, ContextDictionary, Detectors, Anomalies, TextUtilities
 |- ContextProofs         theorem about the calls in context
MC...                     small instances: alphabets, texts, calls
```

In a definition whose comment begins "Mutant:" a plausible bug of the code is written out: the
definition that models the code stands behind it, and each mutant breaks the property it is named for
in `PROJECT.json`. They are no part of the model.

Unicode's data (combining classes, decompositions, emoji properties, cell widths) and the library's
generated rows are constants. An MC module gives them for a small alphabet, with the values the real
tables have; where a character stands in for another of its kind, its comment says so. What the code
works out by code-point ranges (`KindsOf`, `ClassifyChar`, `IndicCharRole`, `DetectCharScript`) is worked
out from code points here too.

### Registration, AtomicRegistration, TransliterateCalls

`gate`, `sealed`, `langs`, `hasLangs`, `table`, `automaton`, `hasReplacements` are the statics of
`src/tables/mod.rs`; `langsLock` and `tableLock` are the write guards. A thread makes any of the calls
of `Calls`; each lock acquisition and each atomic store is an action, in source order:
`register_lang` is gate, seal check, count under one read lock, key under another, validation of the
mapping under none, insert under the write lock, flag, gate. A replacement mutator changes the table,
builds the automaton and stores the flag under one write guard; `BuildPanics` is the `expect` of the
build, which drops both guards in the unwinding. A poisoned lock is recovered by `recover_lock`, so no
guard mentions poisoning and `torn` is a history variable. Threads here are Rust API callers; Python
callers hold the GIL across a call, and their behaviours are among these.

A language's mapping and a replacement's string are values. `MAX_REGISTERED_LANGS` and
`MAX_REPLACEMENTS` are constants.

`TransliterateCalls` adds readers: `is_valid_lang` once, then for each item the replacement flag and
the automaton, and for each character the language flag and the table, each a step. Its history
variables collect what a read may return (a *regular* register: the value settled when the read began,
or one written meanwhile). Atomics are taken sequentially consistent; the code's are Release stores and
Acquire loads, so a load that lags behind a store of a thread it has not synchronised with is left out.

### FullWalk, UniqueSlugifier

Slugs are sequences of characters of one byte or two, so the separator, the digits of a counter and a
character wider than the room left can be cut as the code cuts them. `UniqueSlugifier` has the RLock of
`_api.py`, the exclusive borrow of PyO3 (a second borrow raises) and `take_first_free` over the walk
that `slugify` takes out of its map and puts back: first the counters refused before, then on from
`next`. `check` accepts, refuses, raises or calls back in. `FullWalk` remembers nothing but the slugs
given, and asks about every counter from 0; it is stated for any function from counters to candidates.

### BatchCalls

One call of each thread, by the steps between which another thread may run. A call takes the GIL, is
refused for its arguments in the order the code looks at them, and makes the tuple of the list at once
(`Source`). A batch reads a chunk under the GIL, and every item of it before any is worked on (so a
thing that is no string wins over an untranslatable text of the same chunk); it gives the GIL up for the
chunk and takes it back for the next, or to raise. `normalize_batch` and `strip_accents_batch` are
handed their strings before they are entered and have one chunk. `REGEX_CACHE` is met under the GIL, in one
step; the cache of automata is looked up, built for and written in steps of their own, since a batch does so
without the GIL. `_Slugifier` may be made anew by any thread while another uses the one before. Meanwhile
`Mutate` changes the list. What is made of one text is named, not worked out: a regex is the pattern it was
compiled from, an automaton the pairs it matches, a slug the text and what it was made with; that is all
a cache could mix up. `slugify` keeps the GIL and so is one step but for its automaton.

Where no automaton is built the code scans, and a scan may not end (section 7): `ScanEnds` is where it
does, "scan" the stage of a call in one that does not, and `Spin` its going round. `Repetitions` says which
texts are one key again and again.

### BindingObjects: CachedTransliterator, AwesomeSlugify, Handles

Three objects that share nothing, so that one behaviour is one of them (`machine`).

- `CachedTransliterator`: one step per Python statement. A result *is* the version of the tables it was
  computed with. The `+= 1` of the generation is one step: CPython 3.11 and later switch threads at
  calls and backward jumps, of which the statement has none; on a free-threaded build two bumps could
  merge, and this model would not show it. A mutator that raises or panics does not bump, and is left out.
- `AwesomeSlugify`: a setter writes its setting and sets `_dirty`, a call reads `_dirty`, builds, puts the
  new inner object in place, clears the mark, loads the object and asks it. `missed` and `overlapped`
  note the two interleavings the code has no answer to (section 7), and the property is stated up to them.
- `Handles`: making an object is compile, take a number, insert, wrap; a method reads `handle`, and from
  there on nothing keeps its object alive, so the Cleaner may free it while the call is on its way to the
  map. `close()` writes the flag and cleans; a copy is looked up and inserted again.

### PythonLocks

A thread is a stack: Python code at the bottom, then native calls and callbacks in turn. Whoever runs
has the GIL; Python code may give it up anywhere; a native call keeps it, waits for Rust locks with it,
and gives it up only in `Detach`. An object is dropped where its last reference goes, and then its
`__del__` is a callback. `MaxDepth` bounds a stack, and a callback makes at most one call, so that it
comes to an end (a callback that calls for ever is the caller's own infinite loop).

### Composition, FoldRules, ConfusableFold

An alphabet with its real Unicode data (classes, decompositions, composites, exclusions) and rows of
the bundled Latin table. The fold and one pass are operators; the loop, its cap, `converge_slow`'s
rounds, spans, budget and cycle skip are actions. Three forms of the loop: compose at lookup
(`normalize_confusables`), NFC and NFKC (presets, pipeline). Row length, offsets and targets other than
Latin are left out, and so are the NFD and NFKD forms of the pipeline's loop.

### Transliteration, Transliterator

`ClassifyChar` and `IndicCharRole` are the code's ranges; `Lookup` is registered, language and default
rows in their order; `TakeMapped` and `TakeUnmapped` are one turn of the walk, with the vowel a sign
deletes, the space between CJK words, NFKC recovery and the error modes. `Transliterator` walks the
plain text and, at the first character composition could change (`Bail`), drops what was collected and walks
the composed text; `find` and strict are calls of their own. `TextScanners` runs
it beside `EmojiScanner` and `ConfusableFold`, as one machine or another.

### Emoji, EmojiScanner

`Emoji` has presentation sequences, named sequences and `Demojize`, the core's loop under the three
naming policies and error modes. `EmojiScanner` reads as the code does: a window that a peek fills, pushes back
and must give back whole, and Python's loop (`demojize_impl`), which asks a provider that knows, does
not know or raises. Its history variable `names` says where names stand in the output.

### TextSteps, PresetSteps, Presets

One operator per step kind; the lists of the ten presets as the builders in `src/presets/keys.rs` and
`text.rs` make them; the options, order and eight profiles of `TextPipeline`; the guard (`Classify`),
the runner with the output ceiling, the inner loops, and the same call made again on its answer.
Idealised, on purpose:

- the fixed points *inside* a step (`ConfusablesNfcFixedPoint`, `ConfusablesMarkFixedPoint`) are taken
  uncapped: `text_scanners` shows that the capped loop with its slow path reaches the same text;
- `FixedPointOutlasts` does not compare with the ceiling, since the passes it stands for only take
  marks away;
- the guard's ASCII part of the confusable set is read off the rows; a policy other than "numeric" goes
  round the guard as in the code;
- deletions are modelled with CR as a line break, without the overwriting mode.

### TextCalls and what it calls

A call is `[op, text, option]` and its one step is its return: these functions look at their arguments and
at nothing else, so an answer is an operator of the call, and the properties (action properties over that
step) say what the operator gives. What could go wrong is in the text, so the instance is a list of
families of texts made for one function each. The exception is transliteration in context: a dictionary is
read at the first call that needs it and kept, while `FilesChange` installs, replaces, corrupts or removes
the files between calls; `given` keeps every answer in context.

- `Slugify`: replacements (with no empty keys: `BatchCalls` has those), entities, transliteration or
  composition, both tokenizers, stopwords and the cut. The pattern's matches are a set of characters.
- `ContextDictionary`: tokens, skeletons, the bigram context, Persian's fallback to Arabic, and the
  reader of a file, header and records.
- `Detectors`: the script of a character by range, assignment and carve-out, augmented script sets,
  bidirectional conflicts, `inspect_auto_lang`; confusables found, key collisions, `contract`; the literal
  check of a host, what is dropped before and after IDNA's mapping, the signs of a label and of the host;
  the five schemes of hidden payloads in order, unpadded bits and both framings of zero-width bits.
- `Anomalies`: every rule of `classify` in order, the signs of the whole text, and both entry points.
- `TextUtilities`: the file name sanitizer (separator check, the percent rule over the transliteration
  engine, the parts of a pass in order, the loop of at most `MAX_PASSES`); greedy longest match back into a
  script, normalization by segments, mark runs, columns, the encoders, the decoder's choice of an encoding
  with UTF-8, UTF-16 and windows-1252 as codecs, and a Java string's modified UTF-8.

## 3. Runs

| Run | States | Instance | Shows |
|---|---|---|---|
| `registration` | 331,760 | 2 threads, 1 language slot and 2 languages, 2 replacement places and 3 keys (one empty), panics, fair | `CapsRespected`, `QuiescentInSync`, `Frozen`, `ImplementsAtomic`, `GateReleased` |
| `transliterate_calls` | 1,520,469 | 2 mutators, 1 reader, one built-in and one registered language | `AnswersRegular`, `SealedItemsAgree` |
| `unique_slugifier` | 25,170 | 2 threads, check, bases "abc", "ab" and "ét" under max_length 4 with "--", limit 1, fair | `WalkInvariant`, `ImplementsFullWalk`, `CallsReturn` |
| `unique_aliases` | – | base "a-1" under max_length 4 | **violated**: `CountersNeverAlias` (section 7) |
| `binding_objects` | 1,462,851 | 2 mutators and 2 callers over a store of 2; 3 threads, 2 settings and 3 calls; 2 threads, 2 pipelines and a lexicon | `CacheSound`, `AttributesKept`, `HandlesSound` |
| `batch_calls` | 1,173,251 | 2 threads, 22 calls over 5 lists of up to 4 items, chunks of 2, caches of 1 | `AnswersKept`, `CachesSound` |
| `slug_scan` | – | 1 thread, the same calls | **violated**: `NoScanSpins` (section 7) |
| `python_locks` | 31,512 | 2 threads, 1 object, stacks of 4, panics, fair | `LocksStayNative`, `ProviderFrozen`, `CallsReturn` |
| `python_under_gate` | – | the same | **violated**: `NoPythonUnderGate` (section 7) |
| `presets` | 238,418 | 112 characters, every text of up to 2 over 12 and 58 chosen ones; 10 presets, 8 profiles and a pipeline built by hand; 3 policies, a language, "auto", emoji names | `GuardSound`, `Idempotent`, `VariantsAlike`, `GrowthBounded`, `DigitsKept` |
| `text_scanners` | 384,130 | the walk: 45 characters, every text of up to 2 over 23 and 31 chosen ones, 4 languages, 5 kinds of call; emoji: 28 characters, every text of 2, of 3 over 12, of 4 over 5, joiner chains, 5 ways to name, 3 replacements, 2 providers; the fold: 36 characters, every text of up to 2, of up to 3 over 12, long runs, 3 policies, 3 forms | `ReportTrue`, `SpellingInvariant`, `OwnPieces`, `OneScanner`, `AnswerSettled`, `NamesSound`, `LoopConverges`, `FormInvariant` |
| `text_calls` | 216,746 | 200 characters; families of texts for each function | `NamesStand`, `SpellingIgnored`, `ContextKept`, `PiecesSuffice`, `RoundTrips`, `HostCanonical`, `PayloadDecoded`, `SignsSeen`, `OneWritingSystem` |

Why these bounds are enough to be worth something:

- **Registration.** Every conflict is between two calls. One slot for two languages, two places for three
  keys make "full", "one left", "overwrite when full" and "one key too many" all occur; panics may hit any
  build. The theorems of section 6 hold for any number of threads.
- **TransliterateCalls.** `OneSide` leaves out histories in which both tables are filled: the two share
  the gate and the seal, both still there, and nothing a reader compares.
- **UniqueSlugifier.** Under a max_length of 4 two bases are cut onto the same heads, so each one's
  slugs are met in the other's walk, and the third's first character of two bytes leaves no room beside a
  suffix. A limit of 1 is passed by refusals of one call and by counters left from earlier ones. `MaxSlugs`
  bounds how many slugs have been given when a call begins.
- **BindingObjects.** Staleness takes one caller overtaken by one mutator; a second of each covers bumps
  out of order and entries of two generations. `MaxVersion` bounds the changes. A store of 2 evicts. Three
  threads are a setter and two calls that rebuild at once. Two objects of one registry and one of the other,
  each of which the two threads may close, drop, copy and call, cover a late call to a freed handle while a new
  handle is made; `MaxHandle` bounds the numbers, as the code's 64 bits do.
- **BatchCalls.** Chunks of 2 under a `MAX_BATCH_SIZE` of 3 give lists of one chunk, of two and too long;
  an item that raises stands in the first chunk, in the second, and beside another that raises differently.
  With caches of one entry every second key clears what another thread is about to hit, and two tables of
  the same keys with other values would show if one were answered with the other's automaton. Two tables
  have an empty key, before the other key and behind it, so that a scan ends in one text (which is that key
  twice over), does not in another, and raises first in a third. One regex is too long, one does not compile. `OneAnswer` leaves out states in which both threads hold an answer not yet
  left: no step reads one.
- **PythonLocks.** Depth 4 is a call, its callback, the call that makes and the callback's callback,
  enough for every pair of locks to be wanted inside another's callback; one object suffices, since a drop
  is of the last reference or not.
- **ConfusableFold.** `MAX_CONFUSABLE_PASSES` is 2 for 8 and `CYCLE_RUN_MIN` 4 for 8, so runs of up to 16
  marks pass both by a margin as runs of 30 do in the code; the made-up base s takes two marks a pass, as
  the arithmetic of the skip allows and no bundled row does. Passes are bounded by the constant, not the
  length.
- **Presets.** The alphabet has a character of every class a step tells apart and is closed under
  decomposition, composition, case folding and the rows. `CONFUSABLE_FIXED_POINT_ITERS` is 3 for 8 and
  `MAX_NORMALIZE_OUTPUT_BYTES` 5 for 10 MiB, so both are met. `DEFAULT_MAX_MARKS` is the real 3.
- **Transliterator.** The walk looks one character ahead and one piece back, so pairs over a character of
  every block and role meet every rule; the longer texts put the bail-out behind reported characters.
- **EmojiScanner.** `MAX_EMOJI_SEQ_LEN` is 3 for 10, and joiner chains go to 15 characters, five
  windows.
- **TextCalls.** Each family is small pieces put together in every order, of the kinds of character the
  function tells apart; sizes (a cut, a batch limit of 3, a minimum of hidden characters) are met from both
  sides. For file names, at most three passes changed anything, so the run does not show what the answer is
  *at* the real bound of eight: `NamesStand` speaks of every pass for that.

Deadlock is checked but in five runs. Those that follow one text or one call end when it has its
answer; in `binding_objects` the bounded calls run out; in `python_locks` a warning callback
that runs under the gate after a panic can register again, and then waits for its own thread: that is the
second finding, and every property there is stated up to the first panic. Symmetry is used only in runs
without liveness, over sets no definition tells apart.

## 4. Properties worth a comment

- `QuiescentInSync` is what "kept in sync by every mutator" (`tables/mod.rs`) can mean: while a call is
  inside the gate the parts do differ, and after a panic the replacement half may stay torn until the next
  replacement mutation.
- `Frozen` is about *in-flight* calls: a mutator that has passed its seal check must be out before the
  seal is set.
- `ImplementsAtomic` says that every answer ("limit", "sealed", "bad_keys", "missing" and so on) is the
  answer at one instant.
- `WalkInvariant` is the invariant the comment on `SuffixWalk` states (nothing free is skipped) with the
  accounting of the limit; `ImplementsFullWalk` is its point, in the comment's words "a cache and nothing
  more".
- `CacheSound`: no caller gets a result older than what a returned mutation promised, and entries of an
  older generation can land in a cleared store, but fewer than there are callers.
- `HandlesSound`: a call is answered by the native object its own object was made with, or told there is
  none when that object was closed or let go; a registry holds exactly what still can be freed.
- `FormInvariant` is of texts in NFC or NFD. One in neither form can differ: U+16D63 U+16D68 has no
  character `needs_composition` looks for, since U+16D68 composes with the starter before it only once it is
  decomposed, and so comes back as it is, while its NFC is the one character U+16D6A.
- `GuardSound` compares with the pipeline *without* the guard, for texts the guard answered.
- `Idempotent` is the answer of a second call, and that no step of the list has work left in it.
- `VariantsAlike` leaves out erasures over jamo: a decomposed syllable is several cells and its composed
  form is one. And it says that `search_key` tells apart nothing that `sort_key` joins.
- `ReportTrue` binds three calls to each other: strict refuses what `find_untranslatable` reports, first
  of all, and a report is empty exactly when the error modes all answer alike.
- `OwnPieces` has a reference that looks at a character and the one behind it only; whatever else the walk
  remembers must not show.
- `OneScanner`: the window against a definition that has the whole text in hand, and Python's loop against
  the core's with a provider that knows nothing or raises.
- `AnswersKept` tells what a call promises without chunks, caches or other threads: every item as a single
  call would answer it, or the one error that the order of reading and working makes first. And it tells
  which calls never return (`NeverReturns`): those that come to a text an empty key keeps their scan in
  before an item of their chunk or an earlier one raises. A call that does return is none of them, and a call
  in such a scan (`Spin`: its result grows, nothing else) is one.
- `PiecesSuffice` compares every walk by pieces (segments between boundaries, runs of marks, clusters, what
  ends a sentence and what comes behind it) with the definition over the whole text.
- `ContextKept` holds for a call refused for a corrupt dictionary too: it stays refused when the file is
  mended, as the code keeps what it found.
- `RoundTrips` has its own readers: how a browser reads an entity, a URL parser a percent sequence; what a
  sender wrote in a declared encoding; what units a Java string has.
- `PayloadDecoded` has its own sender, `Hide`, and all the ways to cut bits into letters: a payload that
  reads two ways must not be given as text.
- `SignsSeen`: a text whose canonical form is a lexicon's word, and which is not that word on the face of it,
  has a finding. So has a text whose hidden characters read in some way, also where they read in two and
  so have no one text (the percent scheme, which is no sign, aside). `AtEdges` and `Anywhere` name what may be there unreported, by the code's own rules.
- `NamesStand` is of slugs (a slug is its own slug, within its length, whatever the spelling) and of file
  names (a name that can be stored, its own name, its extension kept, no percent made).
- `NamesStand`, `SignsSeen` and `SpellingIgnored` (of `TextCalls`) leave out, where they compare
  spellings, characters that composition itself replaces (U+212A is a K in every normal form and a
  confusable before).

## 5. Fairness

- `Registration!FairSpec`: a started call keeps running (weak fairness of each thread's steps); nobody
  is obliged to call; `std::sync::Mutex` promises waiters no order, so nothing stronger is assumed, and
  only the release of the gate by its holder is claimed, not that every waiter gets it.
- `UniqueSlugifier!FairSpec`: Rust code runs on, `check` answers in the end. It is strong fairness since
  `check` may call back in any number of times first, and an answer is not enabled during a
  call back. The wrapper's own steps are weakly fair; `Acquire`, `Reenter` and `Reset` are not fair.
- `PythonLocks!FairSpec`: native code runs on (weak); Python code gives the GIL up, takes it and returns
  (strong, since the GIL comes and goes): CPython's switch interval makes a running thread give it up, and a
  waiting thread is served in the end. A callback that never returns is excluded, as it must be.

The other machines promise no progress that is not their caller's to make, and their runs check safety.

## 6. Proofs

Every theorem is of the specification its run checks, for every value of the constants.

| Module | Theorem | Statement |
|---|---|---|
| `RegistrationProofs` | `TypeCorrect` | `Spec => []TypeOK` |
| | `SealedIsFrozen` | `Spec => Frozen` |
| | `LangCap`, `ReplacementCap`, `Caps` | `Spec => []CapsRespected`, and each limit alone |
| | `QuiescentSync` | `Spec => []QuiescentInSync` |
| | `RegistrationIsAtomic` | `Spec => ImplementsAtomic` |
| `CallsProofs` | `AnswersStayRegular` | `CallsSpec => []AnswersRegular` |
| | `SealedItemsAlwaysAgree` | `CallsSpec => []SealedItemsAgree` |
| `UniqueProofs` | `WalkStaysGood` | `Spec => []WalkInvariant` |
| | `RemembersNothingElse` | `Spec => ImplementsFullWalk` |
| `BindingProofs` | `CacheStaysSound` | `Spec => []CacheSound` |
| | `AttributesStayKept` | `Spec => []AttributesKept` |
| | `HandlesStaySound` | `Spec => []HandlesSound` |
| `BatchProofs` | `AnswersAreKept` | `Spec => []AnswersKept` |
| | `CachesAreSound` | `Spec => []CachesSound` |
| `ContextProofs` | `OneAnswerInContext` | `Spec => []ContextKept` |
| `LocksProofs` | `LocksStayNativeAlways` | `Spec => []LocksStayNative` |
| | `ProviderStaysFrozen` | `Spec => ProviderFrozen` |

**Assumptions.** They are named where the constants are declared, and TLC evaluates each in a run.
`TablesAssumption`: languages and keys are finite sets, the values that stand for none are none of the
others, limits are naturals. `RegistrationAssumption`, `ReadersAssumption`: `NoThread` is no thread, no
reader is a mutator, the calls are calls. `SlugAssumption`, `UniqueSlugifierAssumption`: bases and the
separator are strings, limits naturals. `BatchCallsAssumption`: the lists hold texts and things that are
no text, sizes and limits are positive. `TextCallsAssumption`: the dictionaries of Arabic, Persian and
Hebrew have a file that may be there or not. `BindingAssumption`: the cache has room for one entry and the
callers are finitely many and not none. `ObjectsAssumption`: an object is of one registry, and there are
numbers for all of them (64 bits in the code). `PythonLocksAssumption`: the values that stand for none.
The bounds of the instances (`MaxVersion`, `MaxCalls`, `MaxDepth`, `MaxSlugs`) are constants too, and
the theorems hold for each of their values.

**The arguments.** None of these properties is inductive. Each module has an inductive invariant built
of named parts, and a lemma for each part, or for the whole with a step for each part, goes through all
actions.

*Registration.* `TypeInv` says what call a thread at a given label can be executing (without it
`call[t].lang` need not exist). `LockInv`: a thread is past "gate" exactly when it holds the gate, so at most
one is, and an inner write guard is held exactly inside its critical section. `SealInv`: once sealed,
nobody stands between its seal check and the end of its write; with `LockInv` it gives `SealedIsFrozen`.
`RoomInv`: a thread about to validate or insert has room, or overwrites. It survives another thread's
steps because those are outside the gate; `RegisteredInsert` says what one insert does to the
cardinality. `SyncInv` is what agrees while a mutation is part-way. `ReplacementCap` needs no lock:
`ProjectedIsExact` proves that the size the code compares with the limit *is* the size after the merge,
and both are under one write guard.

*The refinement.* `RegistrationIsAtomic` maps each action to one of `AtomicRegistration` or to a stutter.
`status` is a function of the label (`StatusAt`); a mutator's one visible step is its write to the table,
or the check that refuses it, and what it had checked before (seal, room, keys) still holds there by
`SealInv` and `RoomInv`. `LimitInv` adds
that a thread on its way to asking whether its language is registered found the table full, and that only
`seal_registrations` is about to set the seal.

*Readers.* A reader takes no gate, so its answers are related to what mutators have *finished*. Unless a
mutator is between its table and its flag, automaton and flags are those of the last settled table, which
is the table itself unless a panic tore it; and the labels in between say how far each is (`SettledInv`).
So what a load finds is settled or is there (`LoadedTables`, `LoadedLangs`), and every write made while a
read is under way is in the read's window (`WindowInv`). A validated language is never taken back, nor the
flag lowered (`ValidInv`); under the seal no step changes the table (`SealedReadInv`). The mutators'
part (`TypeInv`, `LockInv`, `SealInv`, `SyncInv`) is taken from `RegistrationProofs` by name.

*The suffix walk.* That nothing free is skipped is nearly inductive. The limit is not: it follows from what
a call's attempts have been spent on. While it retries they are the refused counters below its own, all
refused again (`AskedAgain`); in the loop they are all the refused counters (`QuestionsInv`). So a walk is
put away with no more of them than one call may ask, and the next call comes through. `LeastIsPending`
is the one place that needs the least element of a set of naturals, taken from the library's
well-foundedness of `<`.

*The refinement of the walk.* `RemembersNothingElse` maps `next` of `FullWalk` to `asked`, the counter of the
call's last question or just past it, which the code does not keep and the model does. One step of the full
walk is many of the remembered one: from its counter it passes over everything that has been given. So the
invariant says that whatever lies between `asked` and the walk's own counter has been given (`AskedInv`):
below a walk's `next` that is `SkipsNothingFree` with no refused counter in between (`Walked`), in the loop
it is what the loop has passed. A refusal remembered is asked about again in the same order, and with
attempts left (`RoomToAsk`), so that the two give up at the same candidate; and nothing given or refused is
the lack of a candidate (`NamesInv`), so that they fail alike for want of room. The candidates themselves
are those of any separator and `max_length`; the proof uses nothing about them, two
counters with the same candidate (`CountersNeverAlias` is false) included.

*The cached transliterator.* What is stored under the current generation was computed after every change
that generation was bumped for (`CurrentInv`); hence what a call finds under the generation it began with
is no older than it is owed (`OwedInv`). The bound on stale entries needs the calls that may yet store one
to be counted with them: stale entries and late calls together are fewer than callers (`MemoryInv`).

*awesome-slugify.* Until a setting is missed, an inner object with other settings is marked or about to be
(`SettingsInv`); a rebuild that no other overlaps is alone and finds its mark there (`AloneInv`); between
two changes of the inner object everything given is counted by it (`EraInv`).

*Handles.* A handle is given once and to one object (`NumbersInv`), made by one thread and nobody's before
(`MakingInv`), freed by the one that closed it or by the Cleaner when nobody holds it (`ClosingInv`). So
a registry has an object from its insertion until it is freed and not again (`FreedInv`), and a lookup
finds its own object, or nothing after a close (`AnswersInv`).

*The batches.* A call is told from the texts it was given alone: as far as it has come, what it has put out
is what they promise, and none of them raises (`Going`); the chunk in hand is the next of them (`Chunked`).
So the list, the caches and the shared object do not matter, as long as the caches hold what would
have been compiled or built (`CachesSound`, which is part of the invariant and its second theorem). A cache
keeps within its bound though another thread wrote between the lookup and the write, since the write looks
at the size again (`StoredFacts`). What is left is which item raises when several would. For a type error
no earlier chunk has an untranslatable text, since all of those have been answered (`ReadRaises`); for an
untranslatable text its own chunk and all before hold strings only (`AttachRaises`); and both need that a
chunk starts on a multiple of the chunk size (`OnBoundary`), by integer division (`DivBelow`, `DivAbove`).
The same order decides which calls never return. None of the texts answered is one that keeps its scan, which
`Going` says too; a call that meets one has only strings up to the end of its chunk, so that its texts do make
it so (`ScanKeeps`), and one that raises for an item before has none in an earlier chunk (`ReadRaises`).

*Calls in context.* That two answers to one call are equal does not carry itself on; what does is that
every answer ever given is the one the call would get *now*, and that what it was read from is settled: read
and never read again (`AnswersStand`). A call in Persian that met a corrupt Persian dictionary is settled
though the Arabic one was not looked for; a later call may read that, and the first stays refused
(`AnswerStays`). Nothing is said of how a text is walked: the answer is any function of the call and of the
dictionaries consulted (`ConsultedStays`).

*The locks.* `LocksStayNative` speaks of running frames, and a return uncovers the frame below, so the
invariant is of whole stacks: at most one frame of one thread is inside the gate, with the gate in hand
(`GateInv`); under the seal none is on its way to swap the provider (`SealedInv`); native code that is not
waiting to attach has the GIL (`GilInv`); and a lock is held by a running frame, never by one that
waits for a callback (`HoldInv`). Every action changes one stack at its top (`PutStep`, `PushStep`,
`PopStep`), so one lemma, `Moves`, carries the invariant over all of them.

**Only model-checked.**

- Liveness: `GateReleased`, `CallsReturn` of `UniqueSlugifier` and of `PythonLocks`. Liveness under fairness
  and ENABLED are out of the prover's reach.
- What is made of a text: `LoopConverges` and `FormInvariant` (`ConfusableFold`), `GuardSound`, `Idempotent`,
  `VariantsAlike`, `GrowthBounded` and `DigitsKept` (`Presets`), `ReportTrue`, `SpellingInvariant` and
  `OwnPieces` (`Transliterator`), `OneScanner`, `AnswerSettled` and `NamesSound` (`EmojiScanner`), and the
  action properties of `TextCalls`. They relate what two recursive functions or folds over a text of any length
  give, which is induction over data: the library's induction theorems take an operator as a
  parameter, and none of the installed provers can instantiate one. Several also rest on facts of the
  alphabet (closed under decomposition, rows that end) that are the data's and no assumption could name shortly.
- The three violated properties of section 7, which are false.

## 7. Where the code and its comments disagree

Three have a run.

1. **Counters can alias** (`unique_aliases`). `src/slugify.rs:1129` says "The digits are never cut, so
   distinct counters give distinct candidates", and `src/py/slugify.rs:367` that "distinct counters never
   alias". The base "a-1" under a max_length of 4 is its own candidate for counter 0; for counter 1 its
   head is cut to "a-" and trimmed to "a", which gives "a-1" again. No slug is given twice by it,
   since every candidate is looked up in `seen`.
2. **Python code under the gate** (`python_under_gate`). `src/tables/mod.rs:145` says "No Python code runs
   under it". `recover_lock` (`src/lib.rs:443`) warns through Python's `warnings` before it hands the guard
   over: after one panic in a replacement mutation (only the `expect` at `src/tables/mod.rs:88` can), each
   later one runs `showwarning` with the gate and the table's lock held.
3. **A slug that never comes** (`slug_scan`). `src/slugify.rs:208` says "Empty `from` keys are skipped (the
   former scan would have spun on them)", and the test's own copy of that scan (`src/slugify.rs:1531`) passes
   over them. The automaton does skip them. But with two or more pairs of which fewer than two have a key it
   is declined, and `slugify` falls into the former scan (`src/slugify.rs:624`), where an empty key matches
   at every place and advances by zero bytes: a text that is not empty, and not all one key put before the
   empty one, is never left. A batch spins with the GIL given up, a single call with the GIL held.

Others were met while modelling. The properties are stated around them, and say so where they are:

- `src/transliterate.rs:1058` calls an empty `replace_with` "equivalent to `ErrorMode::Ignore`". It also
  forgets what was written last, so that the space before the next CJK word is not written when the
  dropped character stands between two.
- `src/emoji.rs:491` cuts a name at its first ": ", which flags and keycaps have too ("flag: Germany"),
  where `python/disarm/_api_emoji.py:54` speaks of skin tone and hair variants.
- `python/disarm/_compat.py`: a setter makes `UniqueSlugify` build its inner object anew, with nothing
  seen, though its doc says it tracks slugs to guarantee uniqueness; the capital goes on when the slug has been
  found unique; a setter in another thread between a rebuild and `_dirty = False` is lost.
- The Java methods keep no reference to `this` over the native call, so the Cleaner may free a handle while the
  last call on the object is on its way to the map. The call then fails with the exception of a closed object.
- A host IDNA refuses keeps its capitals in `canonical`.
- A private-use character beside a soft hyphen or a selector inside a word has no finding, though
  `canonicalize` takes both out.

## 8. Not modelled, and why

- **Out by nature**: library code (normal forms, segmentation, charset detection, codecs, IDNA's mapping),
  generated data, build scripts, messages, names and logging, the argument checks and wrappers of the Rust API,
  the Python package and the bindings, I/O.
- **C, Node and Ruby**: the C ABI's ownership of strings is the caller's to keep; Node and Ruby copy
  strings in and out.
- **Of the modelled parts**: the overwriting carriage return and a pipeline's replacement for emoji; the
  descriptions a pipeline gives of itself; GOST, ISO 9 and tone tables, which are rows of other tables; final
  sigma; target scripts but Latin and the offsets and coverage reports of the fold; a slug pattern that is
  no set of characters; the renamed parameters of awesome-slugify; stream-safe text; the bytes of a
  dictionary below its records; which of several near
  words a finding names, and the order of findings; grapheme clusters but those the alphabets need.
- **The pull request watcher** (`scripts/watch_pr.py`) is no part of the library.

## 9. What is left

Every property that is about shared state is proved but for liveness. What could still be added: stream-safe
text and the watcher to the model; and, of the text modules, lemmas that need no induction, about one turn of
the walk of `Transliterator` or one move of the window of `EmojiScanner`.

## 10. Running

    tlc -workers 2 -config MCRegistration.cfg MCRegistration
    tlapm RegistrationProofs.tla

and likewise for the other configurations and modules of proofs. `BindingObjects` and `PythonLocks` are
checked as they are, without an MC module.

Each `.cfg` names its properties; the module of each is in `PROJECT.json` under `runs`. The longest run is
`text_calls`, under four minutes with two workers.
