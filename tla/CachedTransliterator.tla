------------------------ MODULE CachedTransliterator ------------------------
(***************************************************************************)
(* make_cached_transliterator (python/disarm/_api.py): an lru_cache keyed  *)
(* by the text and by the registration generation the call started under,  *)
(* beside the Python mutators, which change the tables first and bump the  *)
(* generation then.  A step is one statement: another thread may run       *)
(* between any two, but not inside one (CPython switches threads at calls  *)
(* and jumps, and `_registration_generation += 1` has neither).  A result  *)
(* is the version of the tables it was computed with.                      *)
(*                                                                         *)
(*   version          the registration tables, numbered by their changes   *)
(*   generation, seenGeneration    the two counters of the code            *)
(*   cache            functools' store: at most MaxSize entries            *)
(*   mpc, changed     each mutator, and the version it made                *)
(*   cpc, text, started, result    each caller of cached(text)             *)
(*   promised, owed   history: the newest version a mutator has returned   *)
(*                    from, and what that was when each call began         *)
(***************************************************************************)
EXTENDS Integers, FiniteSets

CONSTANTS
  Mutators, Callers, Texts,
  MaxSize,       \* lru_cache's maxsize
  MaxVersion     \* bound: the tables change this often

VARIABLES version, generation, seenGeneration, cache,
          mpc, changed, cpc, text, started, result, promised, owed

mutatorVars == <<version, generation, mpc, changed, promised>>
callerVars == <<cpc, text, started, result, owed>>
vars == <<mutatorVars, callerVars, seenGeneration, cache>>

Entry == [text : Texts, generation : Nat, version : Nat]

TypeOK ==
  /\ version \in Nat /\ generation \in Nat /\ promised \in Nat
  /\ seenGeneration \in Nat
  /\ cache \subseteq Entry /\ Cardinality(cache) <= MaxSize
  /\ mpc \in [Mutators -> {"idle", "bump", "return"}]
  /\ changed \in [Mutators -> Nat]
  /\ cpc \in [Callers -> {"idle", "compare", "clear", "see", "lookup",
                          "compute", "store", "done"}]
  /\ text \in [Callers -> Texts]
  /\ started \in [Callers -> Nat] /\ result \in [Callers -> Nat]
  /\ owed \in [Callers -> Nat]

Init ==
  /\ version = 0 /\ generation = 0 /\ promised = 0
  /\ seenGeneration = 0 /\ cache = {}
  /\ mpc = [m \in Mutators |-> "idle"] /\ changed = [m \in Mutators |-> 0]
  /\ cpc = [c \in Callers |-> "idle"]
  /\ text \in [Callers -> Texts]
  /\ started = [c \in Callers |-> 0] /\ result = [c \in Callers |-> 0]
  /\ owed = [c \in Callers |-> 0]

-----------------------------------------------------------------------------
(***************************************************************************)
(* register_lang, register_replacements, remove_replacement of a key that  *)
(* is there, clear_replacements.  The native call holds the GIL to its end *)
(* (Registration says what it does); one that is refused changes nothing   *)
(* and raises before the bump.                                             *)
(***************************************************************************)
ChangeTables(m) ==
  /\ mpc[m] = "idle"
  /\ version < MaxVersion
  /\ version' = version + 1
  /\ changed' = [changed EXCEPT ![m] = version']
  /\ mpc' = [mpc EXCEPT ![m] = "bump"]
  /\ UNCHANGED <<generation, promised, callerVars, seenGeneration, cache>>

Bump(m) ==
  /\ mpc[m] = "bump"
  /\ generation' = generation + 1
  /\ mpc' = [mpc EXCEPT ![m] = "return"]
  /\ UNCHANGED <<version, changed, promised, callerVars, seenGeneration, cache>>

ReturnMutator(m) ==
  /\ mpc[m] = "return"
  /\ promised' = IF changed[m] > promised THEN changed[m] ELSE promised
  /\ changed' = [changed EXCEPT ![m] = 0]
  /\ mpc' = [mpc EXCEPT ![m] = "idle"]
  /\ UNCHANGED <<version, generation, callerVars, seenGeneration, cache>>

-----------------------------------------------------------------------------
\* A step of a caller that leaves the store and the mutators alone.
CallerStep(c, from, to) ==
  /\ cpc[c] = from
  /\ cpc' = [cpc EXCEPT ![c] = to]
  /\ UNCHANGED mutatorVars

LoadGeneration(c) ==
  /\ CallerStep(c, "idle", "compare")
  /\ \E t \in Texts : text' = [text EXCEPT ![c] = t]
  /\ started' = [started EXCEPT ![c] = generation]
  /\ owed' = [owed EXCEPT ![c] = promised]
  /\ UNCHANGED <<result, seenGeneration, cache>>

Compare(c) ==
  /\ CallerStep(c, "compare", IF started[c] = seenGeneration THEN "lookup" ELSE "clear")
  /\ UNCHANGED <<text, started, result, owed, seenGeneration, cache>>

Clear(c) ==
  /\ CallerStep(c, "clear", "see")
  /\ cache' = {}
  /\ UNCHANGED <<text, started, result, owed, seenGeneration>>

See(c) ==
  /\ CallerStep(c, "see", "lookup")
  /\ seenGeneration' = started[c]
  /\ UNCHANGED <<text, started, result, owed, cache>>

\* Mutant: the generation is compared but is no part of the key.
KeyGenerationTextOnly(c) == 0

\* The generation under which a call's entry is kept.
KeyGeneration(c) == started[c]

Keyed(c) == {e \in cache : e.text = text[c] /\ e.generation = KeyGeneration(c)}

Hit(c) ==
  /\ \E e \in Keyed(c) : result' = [result EXCEPT ![c] = e.version]
  /\ CallerStep(c, "lookup", "done")
  /\ UNCHANGED <<text, started, owed, seenGeneration, cache>>

Miss(c) ==
  /\ Keyed(c) = {}
  /\ CallerStep(c, "lookup", "compute")
  /\ UNCHANGED <<text, started, result, owed, seenGeneration, cache>>

\* transliterate(text), which may let other threads run before and after.
Compute(c) ==
  /\ CallerStep(c, "compute", "store")
  /\ result' = [result EXCEPT ![c] = version]
  /\ UNCHANGED <<text, started, owed, seenGeneration, cache>>

\* functools keeps an entry another call has stored meanwhile, and makes room
\* by dropping one (the least recently used; here, any).
Store(c) ==
  /\ CallerStep(c, "store", "done")
  /\ LET new == [text |-> text[c], generation |-> KeyGeneration(c), version |-> result[c]]
     IN IF Keyed(c) # {} THEN UNCHANGED cache
        ELSE IF Cardinality(cache) < MaxSize THEN cache' = cache \cup {new}
        ELSE \E e \in cache : cache' = (cache \ {e}) \cup {new}
  /\ UNCHANGED <<text, started, result, owed, seenGeneration>>

Finish(c) ==
  /\ CallerStep(c, "done", "idle")
  /\ started' = [started EXCEPT ![c] = 0]
  /\ result' = [result EXCEPT ![c] = 0]
  /\ owed' = [owed EXCEPT ![c] = 0]
  /\ UNCHANGED <<text, seenGeneration, cache>>

\* cached.cache_clear, which is exported as it is.
CacheClear ==
  /\ cache' = {}
  /\ UNCHANGED <<mutatorVars, callerVars, seenGeneration>>

Next ==
  \/ \E m \in Mutators : ChangeTables(m) \/ Bump(m) \/ ReturnMutator(m)
  \/ \E c \in Callers :
       \/ LoadGeneration(c) \/ Compare(c) \/ Clear(c) \/ See(c)
       \/ Hit(c) \/ Miss(c) \/ Compute(c) \/ Store(c) \/ Finish(c)
  \/ CacheClear

Spec == Init /\ [][Next]_vars

-----------------------------------------------------------------------------
\* Once a mutator has returned, no call that begins is answered from a table
\* older than the one it left: "once it returns no call can read a result
\* computed before it" (_api.py).
NeverServesOlder == \A c \in Callers : cpc[c] = "done" => result[c] >= owed[c]

\* The clear "to free memory" frees it: in the store a new generation has been
\* seen for, what older generations have left is one entry at most of each call
\* that was running.
StaleEntriesFew ==
  seenGeneration = generation =>
    Cardinality({e \in cache : e.generation < generation}) < Cardinality(Callers)

\* Both: what a clear leaves is neither served nor kept.
CacheSound == NeverServesOlder /\ StaleEntriesFew
=============================================================================
