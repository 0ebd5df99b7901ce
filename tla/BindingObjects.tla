--------------------------- MODULE BindingObjects ---------------------------
(***************************************************************************)
(* The objects a binding keeps between calls, each a machine of its own:   *)
(* the cached transliterator and awesome-slugify's classes of the Python   *)
(* package, and the Java objects that hold a native one.  They share       *)
(* nothing, so a behaviour is one of them: `machine` says which.           *)
(***************************************************************************)
EXTENDS Integers, FiniteSets, TLC

CONSTANTS
  Mutators, Callers, Texts, MaxSize, MaxVersion,      \* CachedTransliterator
  Threads, MaxSets, MaxCalls,                         \* AwesomeSlugify
  Users, Pipelines, Lexicons, MaxHandle               \* Handles

ASSUME BindingAssumption ==
  /\ MaxSize \in Nat \ {0} /\ MaxVersion \in Nat
  /\ IsFiniteSet(Callers) /\ Callers # {}
  /\ MaxSets \in Nat /\ MaxCalls \in Nat

ASSUME ObjectsAssumption ==
  /\ Pipelines \cap Lexicons = {}
  /\ (Pipelines \cup Lexicons) \cap {"no object", "stale"} = {}
  /\ MaxHandle \in Nat /\ Cardinality(Pipelines \cup Lexicons) <= MaxHandle

VARIABLES
  machine,
  version, generation, seenGeneration, cache, mpc, changed, cpc, text, started,
  result, promised, owed,
  settings, dirty, inners, inner, spc, built, using, calls, missed, overlapped,
  era, since,
  given, repeated,
  nextHandle, registry, handle, held, closed, cleaned, freeing, hpc, subject,
  fresh, answer

Cached == INSTANCE CachedTransliterator
Awesome == INSTANCE AwesomeSlugify
Java == INSTANCE Handles

cachedVars ==
  <<version, generation, seenGeneration, cache, mpc, changed, cpc, text, started,
    result, promised, owed>>
awesomeVars ==
  <<settings, dirty, inners, inner, spc, built, using, calls, missed, overlapped,
    era, since, given, repeated>>
javaVars ==
  <<nextHandle, registry, handle, held, closed, cleaned, freeing, hpc, subject,
    fresh, answer>>
vars == <<machine, cachedVars, awesomeVars, javaVars>>

Init ==
  /\ machine \in {"cached transliterator", "awesome-slugify", "Java handles"}
  /\ Cached!Init /\ Awesome!Init /\ Java!Init

CachedStep ==
  /\ machine = "cached transliterator"
  /\ Cached!Next
  /\ UNCHANGED <<machine, awesomeVars, javaVars>>

AwesomeStep ==
  /\ machine = "awesome-slugify"
  /\ Awesome!Next
  /\ UNCHANGED <<machine, cachedVars, javaVars>>

JavaStep ==
  /\ machine = "Java handles"
  /\ Java!Next
  /\ UNCHANGED <<machine, cachedVars, awesomeVars>>

Next == CachedStep \/ AwesomeStep \/ JavaStep

Spec == Init /\ [][Next]_vars

\* The machines do not tell their threads apart.
Symmetry ==
  Permutations(Callers) \cup Permutations(Threads) \cup Permutations(Users)

-----------------------------------------------------------------------------
\* What make_cached_transliterator promises, and that its clear is worth it.
CacheSound == Cached!CacheSound

\* What awesome-slugify's classes keep between calls.
AttributesKept == Awesome!AttributesKept

\* What the Java objects' handles stand for, and that they are freed.
HandlesSound == Java!HandlesSound
=============================================================================
