----------------------------- MODULE BindingProofs ---------------------------
(***************************************************************************)
(* Proofs about the objects a binding keeps between calls, one after the   *)
(* other: a step of one leaves the variables of the others alone.          *)
(***************************************************************************)
EXTENDS BindingObjects, Sequences, FiniteSetTheorems, TLAPS

-----------------------------------------------------------------------------
(***************************************************************************)
(* Proofs about the cached transliterator for every set of mutators,       *)
(* callers and texts and every size of the cache; Cached! names the        *)
(* definitions of CachedTransliterator.  That no caller is served a result *)
(* older than what it was promised needs more than itself: what is stored  *)
(* under the current generation was computed after every change that       *)
(* generation was bumped for (CurrentInv), so that what a call finds under *)
(* the generation it started with is no older than what it is owed         *)
(* (OwedInv).  That few entries outlive their generation needs the calls   *)
(* that are still to store one to be counted with them (MemoryInv).        *)
(***************************************************************************)
\* A version has every change whose mutator has bumped the generation.
HasBumped(v) ==
  /\ promised <= v
  /\ \A m \in Mutators : mpc[m] = "return" => changed[m] <= v

\* The variables have their types and the cache is finite and within its size.
CacheTypes == Cached!TypeOK /\ IsFiniteSet(cache)

\* Generations and versions only grow: whatever remembers one remembers an
\* older one or the current one.
OrderInv ==
  /\ seenGeneration <= generation /\ promised <= version
  /\ \A m \in Mutators : changed[m] <= version
  /\ \A c \in Callers : started[c] <= generation /\ owed[c] <= promised
  /\ \A e \in cache : e.generation <= generation

\* An entry of the current generation, and a result about to be stored under
\* it, were computed after every change the generation was bumped for.
CurrentInv ==
  /\ \A e \in cache : e.generation = generation => HasBumped(e.version)
  /\ \A c \in Callers : cpc[c] = "store" /\ started[c] = generation => HasBumped(result[c])

\* During a call, what the cache holds or is about to hold under the generation
\* the call started with is no older than what the call is owed, and so is the
\* call's own answer.
OwedInv ==
  \A c \in Callers : cpc[c] # "idle" =>
    /\ \A e \in cache : e.generation = started[c] => owed[c] <= e.version
    /\ \A d \in Callers : cpc[d] = "store" /\ started[d] = started[c] => owed[c] <= result[d]
    /\ cpc[c] = "done" => owed[c] <= result[c]

\* The calls that started in an earlier generation and may yet store a result;
\* the entries of earlier generations.
Late ==
  {c \in Callers : started[c] < generation
                   /\ cpc[c] \in {"compare", "clear", "see", "lookup", "compute", "store"}}
Stale == {e \in cache : e.generation < generation}

\* The cache was cleared for the current generation, or the caller that cleared
\* it is about to say so.
Cleared ==
  seenGeneration = generation \/ \E c \in Callers : cpc[c] = "see" /\ started[c] = generation

\* Once cleared, the cache holds an old entry only for a late call that stored
\* it; one of the callers saw the generation change and is not late.
MemoryInv == Cleared => Cardinality(Stale) + Cardinality(Late) < Cardinality(Callers)

\* The inductive invariant.
CachedInv == CacheTypes /\ OrderInv /\ CurrentInv /\ OwedInv /\ MemoryInv

\* The operator of FiniteSets as the instance names it.
LEMMA CachedCardinality == \A S : Cached!Cardinality(S) = Cardinality(S)
BY DEF Cached!Cardinality, Cardinality

\* A set that is not full has room for one element.
LEMMA RoomForOne ==
  ASSUME NEW S, NEW x, NEW n \in Nat, IsFiniteSet(S), Cardinality(S) < n
  PROVE  IsFiniteSet(S \cup {x}) /\ Cardinality(S \cup {x}) <= n
<1>1. Cardinality(S \cup {x}) = IF x \in S THEN Cardinality(S) ELSE Cardinality(S) + 1
  BY FS_AddElement
<1>2. IsFiniteSet(S \cup {x}) /\ Cardinality(S) \in Nat
  BY FS_AddElement, FS_CardinalityType
<1> QED
  BY <1>1, <1>2

\* A new cached transliterator has it.
LEMMA CachedInit == Cached!Init => CachedInv
<1> SUFFICES ASSUME Cached!Init PROVE CachedInv
  OBVIOUS
<1>1. CacheTypes
  BY CachedCardinality, FS_EmptySet, BindingAssumption DEF CacheTypes, Cached!Init, Cached!TypeOK
<1>2. OrderInv /\ CurrentInv /\ OwedInv
  BY DEF OrderInv, CurrentInv, OwedInv, HasBumped, Cached!Init
<1>3. MemoryInv
  <2>1. Stale = {} /\ Late = {}
    BY DEF Stale, Late, Cached!Init
  <2> QED
    BY <2>1, FS_EmptySet, FS_CardinalityType, BindingAssumption DEF MemoryInv
<1> QED
  BY <1>1, <1>2, <1>3 DEF CachedInv

\* No statement takes a variable out of its type or the cache over its size
\* (functools evicts before it stores).
LEMMA CacheTypesKept == CacheTypes /\ [Cached!Next]_cachedVars => CacheTypes'
<1> SUFFICES ASSUME CacheTypes, [Cached!Next]_cachedVars PROVE CacheTypes'
  OBVIOUS
<1> USE DEF CacheTypes, Cached!TypeOK, Cached!mutatorVars, Cached!callerVars
<1>1. ASSUME NEW m \in Mutators, Cached!ChangeTables(m) PROVE CacheTypes'
  BY <1>1 DEF Cached!ChangeTables
<1>2. ASSUME NEW m \in Mutators, Cached!Bump(m) PROVE CacheTypes'
  BY <1>2 DEF Cached!Bump
<1>3. ASSUME NEW m \in Mutators, Cached!ReturnMutator(m) PROVE CacheTypes'
  BY <1>3 DEF Cached!ReturnMutator
<1>4. ASSUME NEW c \in Callers, Cached!LoadGeneration(c) PROVE CacheTypes'
  BY <1>4 DEF Cached!LoadGeneration, Cached!CallerStep
<1>5. ASSUME NEW c \in Callers, Cached!Compare(c) PROVE CacheTypes'
  BY <1>5 DEF Cached!Compare, Cached!CallerStep
<1>6. ASSUME NEW c \in Callers, Cached!Clear(c) PROVE CacheTypes'
  BY <1>6, CachedCardinality, FS_EmptySet, BindingAssumption DEF Cached!Clear, Cached!CallerStep
<1>7. ASSUME NEW c \in Callers, Cached!See(c) PROVE CacheTypes'
  BY <1>7 DEF Cached!See, Cached!CallerStep
<1>8. ASSUME NEW c \in Callers, Cached!Hit(c) PROVE CacheTypes'
  <2> PICK e \in cache : result' = [result EXCEPT ![c] = e.version]
    BY <1>8 DEF Cached!Hit, Cached!Keyed
  <2> e.version \in Nat
    BY DEF Cached!Entry
  <2> QED
    BY <1>8 DEF Cached!Hit, Cached!CallerStep
<1>9. ASSUME NEW c \in Callers, Cached!Miss(c) PROVE CacheTypes'
  BY <1>9 DEF Cached!Miss, Cached!CallerStep
<1>10. ASSUME NEW c \in Callers, Cached!Compute(c) PROVE CacheTypes'
  BY <1>10 DEF Cached!Compute, Cached!CallerStep
<1>11. ASSUME NEW c \in Callers, Cached!Store(c) PROVE CacheTypes'
  <2> DEFINE new == [text |-> text[c], generation |-> Cached!KeyGeneration(c), version |-> result[c]]
  <2>1. new \in Cached!Entry
    BY DEF Cached!KeyGeneration, Cached!Entry
  <2>2. /\ UNCHANGED <<version, generation, mpc, changed, promised, text, started, result, owed, seenGeneration>>
        /\ cpc' = [cpc EXCEPT ![c] = "done"]
    BY <1>11 DEF Cached!Store, Cached!CallerStep
  <2>3. ASSUME cache' \subseteq Cached!Entry, IsFiniteSet(cache'), Cardinality(cache') <= MaxSize
        PROVE  CacheTypes'
    BY <2>2, <2>3, CachedCardinality
  <2>4. Cardinality(cache) \in Nat /\ Cardinality(cache) <= MaxSize
    BY CachedCardinality, FS_CardinalityType
  <2> HIDE DEF new
  <2>5. CASE cache' = cache
    BY <2>3, <2>4, <2>5
  <2>6. CASE Cardinality(cache) < MaxSize /\ cache' = cache \cup {new}
    <3>1. IsFiniteSet(cache') /\ Cardinality(cache') <= MaxSize
      BY <2>6, RoomForOne, BindingAssumption
    <3> QED
      BY <2>1, <2>3, <2>6, <3>1
  <2>7. ASSUME NEW e \in cache, cache' = (cache \ {e}) \cup {new} PROVE CacheTypes'
    <3>1. IsFiniteSet(cache \ {e}) /\ Cardinality(cache \ {e}) = Cardinality(cache) - 1
      BY FS_RemoveElement
    <3>2. Cardinality(cache \ {e}) < MaxSize
      BY <2>4, <3>1, BindingAssumption
    <3>3. IsFiniteSet(cache') /\ Cardinality(cache') <= MaxSize
      BY <2>7, <3>1, <3>2, RoomForOne, BindingAssumption
    <3> QED
      BY <2>1, <2>3, <2>7, <3>3
  <2> QED
    BY <1>11, <2>5, <2>6, <2>7, CachedCardinality DEF Cached!Store, new
<1>12. ASSUME NEW c \in Callers, Cached!Finish(c) PROVE CacheTypes'
  BY <1>12 DEF Cached!Finish, Cached!CallerStep
<1>13. ASSUME Cached!CacheClear PROVE CacheTypes'
  BY <1>13, CachedCardinality, FS_EmptySet, BindingAssumption DEF Cached!CacheClear
<1>14. CASE UNCHANGED cachedVars
  BY <1>14 DEF cachedVars
<1> QED
  BY <1>1, <1>2, <1>3, <1>4, <1>5, <1>6, <1>7, <1>8, <1>9, <1>10, <1>11, <1>12, <1>13,
     <1>14 DEF Cached!Next

\* No statement turns a generation or a version back.
LEMMA OrderKept == CacheTypes /\ OrderInv /\ [Cached!Next]_cachedVars => OrderInv'
<1> SUFFICES ASSUME CacheTypes, OrderInv, [Cached!Next]_cachedVars PROVE OrderInv'
  OBVIOUS
<1> USE DEF CacheTypes, Cached!TypeOK, Cached!mutatorVars, Cached!callerVars, OrderInv
<1>1. ASSUME NEW m \in Mutators, Cached!ChangeTables(m) PROVE OrderInv'
  BY <1>1 DEF Cached!ChangeTables
<1>2. ASSUME NEW m \in Mutators, Cached!Bump(m) PROVE OrderInv'
  BY <1>2 DEF Cached!Bump, Cached!Entry
<1>3. ASSUME NEW m \in Mutators, Cached!ReturnMutator(m) PROVE OrderInv'
  BY <1>3 DEF Cached!ReturnMutator
<1>4. ASSUME NEW c \in Callers, Cached!LoadGeneration(c) PROVE OrderInv'
  BY <1>4 DEF Cached!LoadGeneration, Cached!CallerStep
<1>5. ASSUME NEW c \in Callers, Cached!Compare(c) PROVE OrderInv'
  BY <1>5 DEF Cached!Compare, Cached!CallerStep
<1>6. ASSUME NEW c \in Callers, Cached!Clear(c) PROVE OrderInv'
  BY <1>6 DEF Cached!Clear, Cached!CallerStep
<1>7. ASSUME NEW c \in Callers, Cached!See(c) PROVE OrderInv'
  BY <1>7 DEF Cached!See, Cached!CallerStep
<1>8. ASSUME NEW c \in Callers, Cached!Hit(c) PROVE OrderInv'
  BY <1>8 DEF Cached!Hit, Cached!CallerStep
<1>9. ASSUME NEW c \in Callers, Cached!Miss(c) PROVE OrderInv'
  BY <1>9 DEF Cached!Miss, Cached!CallerStep
<1>10. ASSUME NEW c \in Callers, Cached!Compute(c) PROVE OrderInv'
  BY <1>10 DEF Cached!Compute, Cached!CallerStep
<1>11. ASSUME NEW c \in Callers, Cached!Store(c) PROVE OrderInv'
  <2> DEFINE new == [text |-> text[c], generation |-> started[c], version |-> result[c]]
  <2>1. \A e \in cache' : e \in cache \/ e = new
    BY <1>11 DEF Cached!Store, Cached!KeyGeneration
  <2> QED
    BY <1>11, <2>1 DEF Cached!Store, Cached!CallerStep, Cached!Entry
<1>12. ASSUME NEW c \in Callers, Cached!Finish(c) PROVE OrderInv'
  BY <1>12 DEF Cached!Finish, Cached!CallerStep
<1>13. ASSUME Cached!CacheClear PROVE OrderInv'
  BY <1>13 DEF Cached!CacheClear
<1>14. CASE UNCHANGED cachedVars
  BY <1>14 DEF cachedVars
<1> QED
  BY <1>1, <1>2, <1>3, <1>4, <1>5, <1>6, <1>7, <1>8, <1>9, <1>10, <1>11, <1>12, <1>13,
     <1>14 DEF Cached!Next

\* A result is computed after the generation is loaded, so it has all the
\* changes the generation was bumped for, and a bump makes every earlier
\* generation an old one.
LEMMA CurrentKept == CacheTypes /\ OrderInv /\ CurrentInv /\ [Cached!Next]_cachedVars => CurrentInv'
<1> SUFFICES ASSUME CacheTypes, OrderInv, CurrentInv, [Cached!Next]_cachedVars PROVE CurrentInv'
  OBVIOUS
<1> USE DEF CacheTypes, Cached!TypeOK, Cached!mutatorVars, Cached!callerVars, OrderInv, CurrentInv, HasBumped
<1>1. ASSUME NEW m \in Mutators, Cached!ChangeTables(m) PROVE CurrentInv'
  BY <1>1 DEF Cached!ChangeTables
<1>2. ASSUME NEW m \in Mutators, Cached!Bump(m) PROVE CurrentInv'
  BY <1>2 DEF Cached!Bump
<1>3. ASSUME NEW m \in Mutators, Cached!ReturnMutator(m) PROVE CurrentInv'
  BY <1>3 DEF Cached!ReturnMutator
<1>4. ASSUME NEW c \in Callers, Cached!LoadGeneration(c) PROVE CurrentInv'
  BY <1>4 DEF Cached!LoadGeneration, Cached!CallerStep
<1>5. ASSUME NEW c \in Callers, Cached!Compare(c) PROVE CurrentInv'
  BY <1>5 DEF Cached!Compare, Cached!CallerStep
<1>6. ASSUME NEW c \in Callers, Cached!Clear(c) PROVE CurrentInv'
  BY <1>6 DEF Cached!Clear, Cached!CallerStep
<1>7. ASSUME NEW c \in Callers, Cached!See(c) PROVE CurrentInv'
  BY <1>7 DEF Cached!See, Cached!CallerStep
<1>8. ASSUME NEW c \in Callers, Cached!Hit(c) PROVE CurrentInv'
  <2> PICK e \in cache : /\ e.generation = started[c]
                      /\ result' = [result EXCEPT ![c] = e.version]
    BY <1>8 DEF Cached!Hit, Cached!Keyed, Cached!KeyGeneration
  <2> e.version \in Nat
    BY DEF Cached!Entry
  <2> QED
    BY <1>8 DEF Cached!Hit, Cached!CallerStep
<1>9. ASSUME NEW c \in Callers, Cached!Miss(c) PROVE CurrentInv'
  BY <1>9 DEF Cached!Miss, Cached!CallerStep
<1>10. ASSUME NEW c \in Callers, Cached!Compute(c) PROVE CurrentInv'
  BY <1>10 DEF Cached!Compute, Cached!CallerStep
<1>11. ASSUME NEW c \in Callers, Cached!Store(c) PROVE CurrentInv'
  <2> DEFINE new == [text |-> text[c], generation |-> started[c], version |-> result[c]]
  <2>1. \A e \in cache' : e \in cache \/ e = new
    BY <1>11 DEF Cached!Store, Cached!KeyGeneration
  <2> QED
    BY <1>11, <2>1 DEF Cached!Store, Cached!CallerStep, Cached!Entry
<1>12. ASSUME NEW c \in Callers, Cached!Finish(c) PROVE CurrentInv'
  BY <1>12 DEF Cached!Finish, Cached!CallerStep
<1>13. ASSUME Cached!CacheClear PROVE CurrentInv'
  BY <1>13 DEF Cached!CacheClear
<1>14. CASE UNCHANGED cachedVars
  BY <1>14 DEF cachedVars
<1> QED
  BY <1>1, <1>2, <1>3, <1>4, <1>5, <1>6, <1>7, <1>8, <1>9, <1>10, <1>11, <1>12, <1>13,
     <1>14 DEF Cached!Next

\* A hit and a store put under a generation what was computed in it.
LEMMA OwedKept == CacheTypes /\ OrderInv /\ CurrentInv /\ OwedInv /\ [Cached!Next]_cachedVars => OwedInv'
<1> SUFFICES ASSUME CacheTypes, OrderInv, CurrentInv, OwedInv, [Cached!Next]_cachedVars PROVE OwedInv'
  OBVIOUS
<1> USE DEF CacheTypes, Cached!TypeOK, Cached!mutatorVars, Cached!callerVars, OrderInv, CurrentInv, HasBumped, OwedInv
<1>1. ASSUME NEW m \in Mutators, Cached!ChangeTables(m) PROVE OwedInv'
  BY <1>1 DEF Cached!ChangeTables
<1>2. ASSUME NEW m \in Mutators, Cached!Bump(m) PROVE OwedInv'
  BY <1>2 DEF Cached!Bump
<1>3. ASSUME NEW m \in Mutators, Cached!ReturnMutator(m) PROVE OwedInv'
  BY <1>3 DEF Cached!ReturnMutator
<1>4. ASSUME NEW c \in Callers, Cached!LoadGeneration(c) PROVE OwedInv'
  BY <1>4 DEF Cached!LoadGeneration, Cached!CallerStep
<1>5. ASSUME NEW c \in Callers, Cached!Compare(c) PROVE OwedInv'
  BY <1>5 DEF Cached!Compare, Cached!CallerStep
<1>6. ASSUME NEW c \in Callers, Cached!Clear(c) PROVE OwedInv'
  BY <1>6 DEF Cached!Clear, Cached!CallerStep
<1>7. ASSUME NEW c \in Callers, Cached!See(c) PROVE OwedInv'
  BY <1>7 DEF Cached!See, Cached!CallerStep
<1>8. ASSUME NEW c \in Callers, Cached!Hit(c) PROVE OwedInv'
  <2> PICK e \in cache : /\ e.generation = started[c]
                      /\ result' = [result EXCEPT ![c] = e.version]
    BY <1>8 DEF Cached!Hit, Cached!Keyed, Cached!KeyGeneration
  <2> e.version \in Nat
    BY DEF Cached!Entry
  <2> QED
    BY <1>8 DEF Cached!Hit, Cached!CallerStep
<1>9. ASSUME NEW c \in Callers, Cached!Miss(c) PROVE OwedInv'
  BY <1>9 DEF Cached!Miss, Cached!CallerStep
<1>10. ASSUME NEW c \in Callers, Cached!Compute(c) PROVE OwedInv'
  BY <1>10 DEF Cached!Compute, Cached!CallerStep
<1>11. ASSUME NEW c \in Callers, Cached!Store(c) PROVE OwedInv'
  <2> DEFINE new == [text |-> text[c], generation |-> started[c], version |-> result[c]]
  <2>1. \A e \in cache' : e \in cache \/ e = new
    BY <1>11 DEF Cached!Store, Cached!KeyGeneration
  <2> QED
    BY <1>11, <2>1 DEF Cached!Store, Cached!CallerStep, Cached!Entry
<1>12. ASSUME NEW c \in Callers, Cached!Finish(c) PROVE OwedInv'
  BY <1>12 DEF Cached!Finish, Cached!CallerStep
<1>13. ASSUME Cached!CacheClear PROVE OwedInv'
  BY <1>13 DEF Cached!CacheClear
<1>14. CASE UNCHANGED cachedVars
  BY <1>14 DEF cachedVars
<1> QED
  BY <1>1, <1>2, <1>3, <1>4, <1>5, <1>6, <1>7, <1>8, <1>9, <1>10, <1>11, <1>12, <1>13,
     <1>14 DEF Cached!Next

\* Fewer stale entries and fewer late calls keep the bound.
LEMMA FewerStay ==
  ASSUME CacheTypes, MemoryInv, Cleared, Stale' \subseteq Stale, Late' \subseteq Late
  PROVE  MemoryInv'
<1>1. IsFiniteSet(Stale) /\ IsFiniteSet(Late)
  BY FS_Subset, BindingAssumption DEF CacheTypes, Stale, Late
<1>2. /\ IsFiniteSet(Stale') /\ Cardinality(Stale') <= Cardinality(Stale)
      /\ IsFiniteSet(Late') /\ Cardinality(Late') <= Cardinality(Late)
  BY <1>1, FS_Subset
<1>3. /\ Cardinality(Stale) \in Nat /\ Cardinality(Late) \in Nat
      /\ Cardinality(Stale') \in Nat /\ Cardinality(Late') \in Nat /\ Cardinality(Callers) \in Nat
  BY <1>1, <1>2, FS_CardinalityType, BindingAssumption
<1> QED
  BY <1>2, <1>3 DEF MemoryInv

\* A store of a late call adds an old entry and takes the call away from the
\* late ones; the clear removes the old entries, and the caller that clears is
\* not late.
LEMMA MemoryKept == CacheTypes /\ OrderInv /\ MemoryInv /\ [Cached!Next]_cachedVars => MemoryInv'
<1> SUFFICES ASSUME CacheTypes, OrderInv, MemoryInv, [Cached!Next]_cachedVars, Cleared'
             PROVE  MemoryInv'
  BY DEF MemoryInv
<1> USE DEF Cached!mutatorVars, Cached!callerVars
<1>1. ASSUME NEW m \in Mutators, Cached!ChangeTables(m) PROVE MemoryInv'
  <2>1. Cleared /\ Stale' \subseteq Stale /\ Late' \subseteq Late
    BY <1>1 DEF Cached!ChangeTables, Cleared, Stale, Late, CacheTypes, Cached!TypeOK, OrderInv
  <2> QED
    BY <2>1, FewerStay
<1>2. ASSUME NEW m \in Mutators, Cached!Bump(m) PROVE MemoryInv'
  <2>1. /\ generation' = generation + 1
        /\ UNCHANGED <<seenGeneration, cpc, started>>
    BY <1>2 DEF Cached!Bump
  <2> QED
    BY <2>1 DEF OrderInv, Cleared, CacheTypes, Cached!TypeOK
<1>3. ASSUME NEW m \in Mutators, Cached!ReturnMutator(m) PROVE MemoryInv'
  <2>1. Cleared /\ Stale' \subseteq Stale /\ Late' \subseteq Late
    BY <1>3 DEF Cached!ReturnMutator, Cleared, Stale, Late, CacheTypes, Cached!TypeOK, OrderInv
  <2> QED
    BY <2>1, FewerStay
<1>4. ASSUME NEW c \in Callers, Cached!LoadGeneration(c) PROVE MemoryInv'
  <2>1. Cleared /\ Stale' \subseteq Stale /\ Late' \subseteq Late
    BY <1>4 DEF Cached!LoadGeneration, Cached!CallerStep, Cleared, Stale, Late, CacheTypes, Cached!TypeOK, OrderInv
  <2> QED
    BY <2>1, FewerStay
<1>5. ASSUME NEW c \in Callers, Cached!Compare(c) PROVE MemoryInv'
  <2>1. Cleared /\ Stale' \subseteq Stale /\ Late' \subseteq Late
    BY <1>5 DEF Cached!Compare, Cached!CallerStep, Cleared, Stale, Late, CacheTypes, Cached!TypeOK, OrderInv
  <2> QED
    BY <2>1, FewerStay
<1>6. ASSUME NEW c \in Callers, Cached!Clear(c) PROVE MemoryInv'
  <2>1. Stale' = {} /\ Late' = Late
    BY <1>6 DEF Cached!Clear, Cached!CallerStep, Stale, Late, CacheTypes, Cached!TypeOK
  <2>2. CASE Cleared
    BY <2>1, <2>2, FewerStay
  <2>3. CASE ~Cleared
    <3>1. Late' \subseteq Callers \ {c}
      BY <1>6, <2>3 DEF Cached!Clear, Cached!CallerStep, Late, Cleared, CacheTypes, Cached!TypeOK
    <3>2. IsFiniteSet(Callers \ {c}) /\ Cardinality(Callers \ {c}) = Cardinality(Callers) - 1
      BY FS_RemoveElement, BindingAssumption
    <3>3. IsFiniteSet(Late') /\ Cardinality(Late') <= Cardinality(Callers \ {c})
      BY <3>1, <3>2, FS_Subset
    <3>4. Cardinality(Late') \in Nat /\ Cardinality(Callers) \in Nat
      BY <3>3, FS_CardinalityType, BindingAssumption
    <3> QED
      BY <2>1, <3>2, <3>3, <3>4, FS_EmptySet DEF MemoryInv
  <2> QED
    BY <2>2, <2>3
<1>7. ASSUME NEW c \in Callers, Cached!See(c) PROVE MemoryInv'
  <2>1. Cleared /\ Stale' \subseteq Stale /\ Late' \subseteq Late
    BY <1>7 DEF Cached!See, Cached!CallerStep, Cleared, Stale, Late, CacheTypes, Cached!TypeOK, OrderInv
  <2> QED
    BY <2>1, FewerStay
<1>8. ASSUME NEW c \in Callers, Cached!Hit(c) PROVE MemoryInv'
  <2>1. Cleared /\ Stale' \subseteq Stale /\ Late' \subseteq Late
    BY <1>8 DEF Cached!Hit, Cached!CallerStep, Cleared, Stale, Late, CacheTypes, Cached!TypeOK, OrderInv
  <2> QED
    BY <2>1, FewerStay
<1>9. ASSUME NEW c \in Callers, Cached!Miss(c) PROVE MemoryInv'
  <2>1. Cleared /\ Stale' \subseteq Stale /\ Late' \subseteq Late
    BY <1>9 DEF Cached!Miss, Cached!CallerStep, Cleared, Stale, Late, CacheTypes, Cached!TypeOK, OrderInv
  <2> QED
    BY <2>1, FewerStay
<1>10. ASSUME NEW c \in Callers, Cached!Compute(c) PROVE MemoryInv'
  <2>1. Cleared /\ Stale' \subseteq Stale /\ Late' \subseteq Late
    BY <1>10 DEF Cached!Compute, Cached!CallerStep, Cleared, Stale, Late, CacheTypes, Cached!TypeOK, OrderInv
  <2> QED
    BY <2>1, FewerStay
<1>11. ASSUME NEW c \in Callers, Cached!Store(c) PROVE MemoryInv'
  <2> DEFINE new == [text |-> text[c], generation |-> started[c], version |-> result[c]]
  <2>1. /\ cache' \subseteq cache \cup {new}
        /\ UNCHANGED <<generation, seenGeneration, started>>
        /\ cpc[c] = "store" /\ cpc' = [cpc EXCEPT ![c] = "done"]
    BY <1>11 DEF Cached!Store, Cached!CallerStep, Cached!KeyGeneration
  <2>2. Cleared
    BY <2>1 DEF Cleared, CacheTypes, Cached!TypeOK
  <2>3. CASE started[c] = generation
    <3>1. Stale' \subseteq Stale /\ Late' \subseteq Late
      BY <2>1, <2>3 DEF Stale, Late, CacheTypes, Cached!TypeOK
    <3> QED
      BY <2>2, <3>1, FewerStay
  <2>4. CASE started[c] < generation
    <3>1. c \in Late /\ Late' = Late \ {c}
      BY <2>1, <2>4 DEF Late, CacheTypes, Cached!TypeOK
    <3>2. Stale' \subseteq Stale \cup {new}
      BY <2>1 DEF Stale
    <3> HIDE DEF new
    <3>3. IsFiniteSet(Stale) /\ IsFiniteSet(Late)
      BY FS_Subset, BindingAssumption DEF CacheTypes, Stale, Late
    <3>4. Cardinality(Stale) \in Nat /\ Cardinality(Late) \in Nat /\ Cardinality(Callers) \in Nat
      BY <3>3, FS_CardinalityType, BindingAssumption
    <3>5. Cardinality(Late') = Cardinality(Late) - 1
      BY <3>1, <3>3, FS_RemoveElement
    <3>6. IsFiniteSet(Stale \cup {new}) /\ Cardinality(Stale \cup {new}) <= Cardinality(Stale) + 1
      <4>1. Cardinality(Stale) + 1 \in Nat /\ Cardinality(Stale) < Cardinality(Stale) + 1
        BY <3>4
      <4> QED
        BY <3>3, <4>1, RoomForOne
    <3>7. Cardinality(Stale') \in Nat /\ Cardinality(Stale') <= Cardinality(Stale \cup {new})
      BY <3>2, <3>6, FS_Subset, FS_CardinalityType
    <3>8. Cardinality(Stale \cup {new}) \in Nat
      BY <3>6, FS_CardinalityType
    <3> QED
      BY <2>2, <3>4, <3>5, <3>6, <3>7, <3>8 DEF MemoryInv
  <2> QED
    BY <2>3, <2>4 DEF OrderInv, CacheTypes, Cached!TypeOK
<1>12. ASSUME NEW c \in Callers, Cached!Finish(c) PROVE MemoryInv'
  <2>1. Cleared /\ Stale' \subseteq Stale /\ Late' \subseteq Late
    BY <1>12 DEF Cached!Finish, Cached!CallerStep, Cleared, Stale, Late, CacheTypes, Cached!TypeOK, OrderInv
  <2> QED
    BY <2>1, FewerStay
<1>13. ASSUME Cached!CacheClear PROVE MemoryInv'
  <2>1. Cleared /\ Stale' \subseteq Stale /\ Late' \subseteq Late
    BY <1>13 DEF Cached!CacheClear, Cleared, Stale, Late
  <2> QED
    BY <2>1, FewerStay
<1>14. CASE UNCHANGED cachedVars
  <2>1. Cleared /\ Stale' \subseteq Stale /\ Late' \subseteq Late
    BY <1>14 DEF cachedVars, Cleared, Stale, Late
  <2> QED
    BY <2>1, FewerStay
<1> QED
  BY <1>1, <1>2, <1>3, <1>4, <1>5, <1>6, <1>7, <1>8, <1>9, <1>10, <1>11, <1>12, <1>13,
     <1>14 DEF Cached!Next

\* A step of another machine leaves the cached transliterator alone.
LEMMA CachedKept == CachedInv /\ [Next]_vars => CachedInv'
<1>1. [Next]_vars => [Cached!Next]_cachedVars
  BY DEF Next, CachedStep, AwesomeStep, JavaStep, vars
<1> QED
  BY <1>1, CacheTypesKept, OrderKept, CurrentKept, OwedKept, MemoryKept DEF CachedInv

\* The inductive invariant implies what make_cached_transliterator promises.
LEMMA CachedImplies == CachedInv => CacheSound
<1> SUFFICES ASSUME CachedInv PROVE CacheSound
  OBVIOUS
<1>1. Cached!NeverServesOlder
  BY DEF CachedInv, OwedInv, Cached!NeverServesOlder
<1>2. Cached!StaleEntriesFew
  <2>1. IsFiniteSet(Stale) /\ IsFiniteSet(Late)
    BY FS_Subset, BindingAssumption DEF CachedInv, CacheTypes, Stale, Late
  <2>2. Cardinality(Stale) \in Nat /\ Cardinality(Late) \in Nat /\ Cardinality(Callers) \in Nat
    BY <2>1, FS_CardinalityType, BindingAssumption
  <2>3. seenGeneration = generation => Cardinality(Stale) < Cardinality(Callers)
    BY <2>2 DEF CachedInv, MemoryInv, Cleared
  <2> QED
    BY <2>3, CachedCardinality DEF Cached!StaleEntriesFew, Stale
<1> QED
  BY <1>1, <1>2 DEF CacheSound, Cached!CacheSound

\* The cached transliterator never serves a caller a result computed before a
\* change the caller was promised, and once its cache is cleared it holds fewer
\* results of earlier generations than there are callers (_api.py,
\* make_cached_transliterator), whatever the threads do.
THEOREM CacheStaysSound == Spec => []CacheSound
<1>1. Init => CachedInv
  BY CachedInit DEF Init
<1> QED
  BY <1>1, CachedKept, CachedImplies, PTL DEF Spec

-----------------------------------------------------------------------------
(***************************************************************************)
(* Proofs about awesome-slugify's classes for every set of threads;        *)
(* Awesome! names the definitions of AwesomeSlugify.  What a setter        *)
(* promises holds until a setting is missed or an object rebuilt twice at  *)
(* once, and the argument says what there is until then: an inner object   *)
(* with other settings is marked or about to be (SettingsInv), a rebuild   *)
(* no other overlaps is alone and finds its mark still there (AloneInv),   *)
(* and between two changes of the inner object every slug that was given   *)
(* is counted by it (EraInv), so that the next one is new.                 *)
(***************************************************************************)
\* Where a thread can be between two statements.
Steps == {"idle", "mark", "build", "assign", "clean", "load", "ask"}

\* An inner object: the settings it was built with and the slugs it has given.
InnerObject == [settings : Nat, count : Nat]

\* The variables other than the inner objects have their types.
PlainTypes ==
  /\ settings \in Nat
  /\ spc \in [Threads -> Steps]
  /\ built \in [Threads -> Nat] /\ using \in [Threads -> Nat]
  /\ era \in Nat /\ since \in [Threads -> Nat]
  /\ given \subseteq Nat

\* Whoever refers to an inner object refers to one that was built.
InnerTypes ==
  /\ inners \in Seq(InnerObject) /\ inner \in 1..Len(inners)
  /\ \A t \in Threads :
       /\ spc[t] = "assign" => built[t] \in 1..Len(inners)
       /\ spc[t] = "ask" => using[t] \in 1..Len(inners)

\* Until a setting is missed, whoever rebuilds does so with the settings there
\* are, and an inner object that has others is marked or about to be.
SettingsInv ==
  ~missed =>
    /\ \A t \in Threads :
         /\ spc[t] = "assign" => inners[built[t]].settings = settings
         /\ spc[t] = "clean" => inners[inner].settings = settings
    /\ \/ dirty \/ inners[inner].settings = settings
       \/ \E t \in Threads : spc[t] = "mark"

\* A rebuild no other overlaps is alone, and the mark it found is still there.
AloneInv ==
  \A t \in Awesome!Rebuilding \ overlapped : Awesome!Rebuilding = {t} /\ dirty

\* While the mark is there, nothing is given in the era; then all that is given
\* is counted by the inner object in place, which every call of the era asks.
EraInv ==
  /\ \A t \in Threads : since[t] <= era
  /\ dirty =>
       given = {} /\ \A t \in Threads : spc[t] \in {"load", "ask"} => since[t] # era
  /\ \A t \in Threads : spc[t] = "ask" /\ since[t] = era => using[t] = inner
  /\ \A slug \in given : slug <= inners[inner].count
  /\ ~repeated

\* The inductive invariant.
AwesomeInv == PlainTypes /\ InnerTypes /\ SettingsInv /\ AloneInv /\ EraInv

\* Building an inner object leaves the others as they are.
LEMMA InnerBuilt ==
  ASSUME NEW s \in Seq(InnerObject), NEW o \in InnerObject
  PROVE  /\ Append(s, o) \in Seq(InnerObject) /\ Len(Append(s, o)) = Len(s) + 1
         /\ Append(s, o)[Len(s) + 1] = o
         /\ \A i \in 1..Len(s) : Append(s, o)[i] = s[i]
OBVIOUS

\* Counting changes one object's count and nothing else.
LEMMA InnerCounted ==
  ASSUME NEW s \in Seq(InnerObject), NEW i \in 1..Len(s), NEW n \in Nat
  PROVE  LET c == [s EXCEPT ![i].count = n]
         IN /\ c \in Seq(InnerObject) /\ Len(c) = Len(s)
            /\ \A j \in 1..Len(s) : c[j].settings = s[j].settings
            /\ \A j \in 1..Len(s) : c[j].count = IF j = i THEN n ELSE s[j].count
<1> DEFINE c == [s EXCEPT ![i].count = n]
<1>1. \A j \in 1..Len(s) : c[j] = IF j = i THEN [s[i] EXCEPT !.count = n] ELSE s[j]
  OBVIOUS
<1>2. \A j \in 1..Len(s) : s[j] \in InnerObject
  OBVIOUS
<1>3. [s[i] EXCEPT !.count = n] \in InnerObject
  BY <1>2 DEF InnerObject
<1>4. c \in Seq(InnerObject) /\ Len(c) = Len(s)
  BY <1>1, <1>3
<1> HIDE DEF c
<1>5. ASSUME NEW j \in 1..Len(s)
      PROVE  c[j].settings = s[j].settings /\ c[j].count = IF j = i THEN n ELSE s[j].count
  <2>1. s[j] \in InnerObject /\ c[j] = IF j = i THEN [s[i] EXCEPT !.count = n] ELSE s[j]
    BY <1>1, <1>2
  <2> QED
    BY <2>1 DEF InnerObject
<1> QED
  BY <1>4, <1>5 DEF c

\* A new UniqueSlugify has it.
LEMMA AwesomeInit == Awesome!Init => AwesomeInv
<1> SUFFICES ASSUME Awesome!Init PROVE AwesomeInv
  OBVIOUS
<1>1. inners = <<Awesome!Inner(0)>> /\ Len(inners) = 1 /\ inners[1].settings = 0 /\ Awesome!Inner(0) \in InnerObject
  BY DEF Awesome!Init, Awesome!Inner, InnerObject
<1>2. inners \in Seq(InnerObject)
  BY <1>1
<1>3. PlainTypes
  BY DEF Awesome!Init, PlainTypes, Steps
<1>4. InnerTypes
  BY <1>1, <1>2 DEF Awesome!Init, InnerTypes
<1> QED
  BY <1>1, <1>3, <1>4 DEF Awesome!Init, AwesomeInv, SettingsInv, AloneInv, EraInv, Awesome!Rebuilding

\* The two statements of a setter.
LEMMA SetterSteps ==
  ASSUME NEW t \in Threads, Awesome!SetThenMark(t)
  PROVE  \/ /\ spc[t] = "idle" /\ spc' = [spc EXCEPT ![t] = "mark"]
            /\ settings' = settings + 1
            /\ (~missed' => ~missed /\ Awesome!Rebuilding = {})
            /\ UNCHANGED <<dirty, inners, inner, built, using, calls, since, overlapped, era, given, repeated>>
         \/ /\ spc[t] = "mark" /\ spc' = [spc EXCEPT ![t] = "idle"]
            /\ dirty' /\ era' = era + 1 /\ given' = {}
            /\ UNCHANGED <<settings, inners, inner, built, using, calls, since, missed, overlapped, repeated>>
BY Zenon DEF Awesome!SetThenMark, Awesome!Goto, Awesome!NewEra

\* No statement takes a variable out of its type.
LEMMA PlainTypesKept ==
  PlainTypes /\ InnerTypes /\ [Awesome!Next]_awesomeVars => PlainTypes'
<1> SUFFICES ASSUME PlainTypes, InnerTypes, [Awesome!Next]_awesomeVars PROVE PlainTypes'
  OBVIOUS
<1> USE DEF PlainTypes, Steps, Awesome!object, Awesome!threads, Awesome!history
<1>1. ASSUME NEW t \in Threads, Awesome!SetThenMark(t) PROVE PlainTypes'
  <2>1. CASE spc[t] = "idle"
    <3>1. /\ settings' = settings + 1 /\ spc' = [spc EXCEPT ![t] = "mark"]
          /\ UNCHANGED <<built, using, since, era, given>>
      BY <1>1, <2>1, SetterSteps
    <3> QED
      BY <3>1
  <2>2. CASE spc[t] = "mark"
    BY <1>1, <2>2, SetterSteps
  <2> QED
    BY <1>1, <2>1, <2>2, SetterSteps
<1>2. ASSUME NEW t \in Threads, Awesome!ReadDirty(t) PROVE PlainTypes'
  BY <1>2 DEF Awesome!ReadDirty, Awesome!Goto
<1>3. ASSUME NEW t \in Threads, Awesome!Build(t) PROVE PlainTypes'
  <2> Len(inners') \in Nat
    BY <1>3, InnerBuilt DEF InnerTypes, Awesome!Build, Awesome!Inner, InnerObject
  <2> QED
    BY <1>3 DEF Awesome!Build, Awesome!Goto
<1>4. ASSUME NEW t \in Threads, Awesome!Assign(t) PROVE PlainTypes'
  <2>1. CASE t \in overlapped
    BY <1>4, <2>1 DEF Awesome!Assign, Awesome!Goto, Awesome!NewEra
  <2>2. CASE t \notin overlapped
    BY <1>4, <2>2 DEF Awesome!Assign, Awesome!Goto
  <2> QED
    BY <2>1, <2>2
<1>5. ASSUME NEW t \in Threads, Awesome!ClearDirty(t) PROVE PlainTypes'
  BY <1>5 DEF Awesome!ClearDirty, Awesome!Goto
<1>6. ASSUME NEW t \in Threads, Awesome!Load(t) PROVE PlainTypes'
  <2> inner \in Nat
    BY DEF InnerTypes
  <2> QED
    BY <1>6 DEF Awesome!Load, Awesome!Goto
<1>7. ASSUME NEW t \in Threads, Awesome!Slug(t) PROVE PlainTypes'
  <2>1. using[t] \in 1..Len(inners)
    BY <1>7 DEF Awesome!Slug, Awesome!Goto, InnerTypes
  <2>2. inners[using[t]] \in InnerObject
    BY <2>1 DEF InnerTypes
  <2>3. inners[using[t]].count \in Nat
    BY <2>2 DEF InnerObject
  <2> QED
    BY <1>7, <2>3 DEF Awesome!Slug, Awesome!Goto
<1>8. ASSUME NEW t \in Threads, Awesome!Reset(t) PROVE PlainTypes'
  BY <1>8 DEF Awesome!Reset, Awesome!Goto, Awesome!NewEra
<1>9. CASE UNCHANGED awesomeVars
  BY <1>9 DEF awesomeVars
<1> QED
  BY <1>1, <1>2, <1>3, <1>4, <1>5, <1>6, <1>7, <1>8, <1>9 DEF Awesome!Next

\* What building, asking and resetting do to the inner objects.
LEMMA BuildStep ==
  ASSUME PlainTypes, InnerTypes, NEW t \in Threads, Awesome!Build(t)
  PROVE  /\ spc[t] = "build" /\ spc' = [spc EXCEPT ![t] = "assign"]
         /\ inners' \in Seq(InnerObject) /\ Len(inners') = Len(inners) + 1
         /\ inners'[Len(inners')].settings = settings
         /\ \A i \in 1..Len(inners) : inners'[i] = inners[i]
         /\ built' = [built EXCEPT ![t] = Len(inners')]
         /\ UNCHANGED <<settings, dirty, inner, using, since, missed, overlapped, era, given, repeated>>
<1>1. /\ inners' = Append(inners, Awesome!Inner(settings))
      /\ Awesome!Inner(settings) \in InnerObject /\ Awesome!Inner(settings).settings = settings
      /\ inners \in Seq(InnerObject)
  BY DEF Awesome!Build, Awesome!Inner, InnerObject, PlainTypes, InnerTypes
<1>2. /\ inners' \in Seq(InnerObject) /\ Len(inners') = Len(inners) + 1
      /\ inners'[Len(inners) + 1] = Awesome!Inner(settings)
      /\ \A i \in 1..Len(inners) : inners'[i] = inners[i]
  BY <1>1, InnerBuilt
<1> QED
  BY <1>1, <1>2 DEF Awesome!Build, Awesome!Goto, Awesome!history

\* A slug is one more than what the inner object asked has given, and only that
\* object counts it.
LEMMA SlugStep ==
  ASSUME PlainTypes, InnerTypes, NEW t \in Threads, Awesome!Slug(t)
  PROVE  LET i == using[t]  slug == inners[i].count + 1
         IN /\ spc[t] = "ask" /\ spc' = [spc EXCEPT ![t] = "idle"]
            /\ i \in 1..Len(inners) /\ slug \in Nat
            /\ inners' \in Seq(InnerObject) /\ Len(inners') = Len(inners)
            /\ \A j \in 1..Len(inners) : /\ inners'[j].settings = inners[j].settings
                                         /\ inners'[j].count = IF j = i THEN slug ELSE inners[j].count
            /\ since[t] = era => given' = given \cup {slug} /\ repeated' = (repeated \/ slug \in given)
            /\ since[t] # era => UNCHANGED <<given, repeated>>
            /\ using' = [using EXCEPT ![t] = 0]
            /\ UNCHANGED <<settings, dirty, inner, built, since, missed, overlapped, era>>
<1> DEFINE slug == inners[using[t]].count + 1
<1>1. spc[t] = "ask" /\ spc' = [spc EXCEPT ![t] = "idle"] /\ using[t] \in 1..Len(inners)
  BY DEF Awesome!Slug, Awesome!Goto, InnerTypes
<1>2. inners[using[t]] \in InnerObject
  BY <1>1 DEF InnerTypes
<1>3. slug \in Nat
  BY <1>2 DEF InnerObject
<1>4. inners' = [inners EXCEPT ![using[t]].count = slug]
  BY DEF Awesome!Slug
<1>5. /\ since[t] = era => given' = given \cup {slug} /\ repeated' = (repeated \/ slug \in given)
      /\ since[t] # era => UNCHANGED <<given, repeated>>
      /\ using' = [using EXCEPT ![t] = 0]
      /\ UNCHANGED <<settings, dirty, inner, built, since, missed, overlapped, era>>
  BY Zenon DEF Awesome!Slug
<1> HIDE DEF slug
<1>6. /\ inners' \in Seq(InnerObject) /\ Len(inners') = Len(inners)
      /\ \A j \in 1..Len(inners) : /\ inners'[j].settings = inners[j].settings
                                   /\ inners'[j].count = IF j = using[t] THEN slug ELSE inners[j].count
  BY <1>1, <1>3, <1>4, InnerCounted DEF InnerTypes
<1> QED
  BY <1>1, <1>3, <1>5, <1>6 DEF slug

\* A reset forgets what one inner object has given and begins an era.
LEMMA ResetStep ==
  ASSUME PlainTypes, InnerTypes, NEW t \in Threads, Awesome!Reset(t)
  PROVE  /\ spc[t] = "ask" /\ spc' = [spc EXCEPT ![t] = "idle"]
         /\ inners' \in Seq(InnerObject) /\ Len(inners') = Len(inners)
         /\ \A j \in 1..Len(inners) : inners'[j].settings = inners[j].settings
         /\ era' = era + 1 /\ given' = {} /\ using' = [using EXCEPT ![t] = 0]
         /\ UNCHANGED <<settings, dirty, inner, built, since, missed, overlapped, repeated>>
<1> DEFINE none == 0
<1>1. spc[t] = "ask" /\ spc' = [spc EXCEPT ![t] = "idle"] /\ using[t] \in 1..Len(inners)
  BY DEF Awesome!Reset, Awesome!Goto, InnerTypes
<1>2. none \in Nat /\ inners' = [inners EXCEPT ![using[t]].count = none]
  BY DEF Awesome!Reset
<1> HIDE DEF none
<1>3. /\ inners' \in Seq(InnerObject) /\ Len(inners') = Len(inners)
      /\ \A j \in 1..Len(inners) : inners'[j].settings = inners[j].settings
  BY <1>1, <1>2, InnerCounted DEF InnerTypes
<1> QED
  BY <1>1, <1>3 DEF Awesome!Reset, Awesome!NewEra

\* Whoever is given an inner object is given one that was built.
LEMMA InnerTypesKept ==
  PlainTypes /\ InnerTypes /\ [Awesome!Next]_awesomeVars => InnerTypes'
<1> SUFFICES ASSUME PlainTypes, InnerTypes, [Awesome!Next]_awesomeVars PROVE InnerTypes'
  OBVIOUS
<1> USE DEF PlainTypes, Steps, Awesome!object, Awesome!threads, Awesome!history, InnerTypes
<1>1. ASSUME NEW t \in Threads, Awesome!SetThenMark(t) PROVE InnerTypes'
  BY <1>1, SetterSteps
<1>2. ASSUME NEW t \in Threads, Awesome!ReadDirty(t) PROVE InnerTypes'
  BY <1>2 DEF Awesome!ReadDirty, Awesome!Goto
<1>3. ASSUME NEW t \in Threads, Awesome!Build(t) PROVE InnerTypes'
  <2>1. /\ spc' = [spc EXCEPT ![t] = "assign"] /\ built' = [built EXCEPT ![t] = Len(inners')]
        /\ inners' \in Seq(InnerObject) /\ Len(inners') = Len(inners) + 1
        /\ UNCHANGED <<inner, using>>
    BY <1>3, BuildStep
  <2>2. /\ Len(inners) \in Nat /\ 1..Len(inners) \subseteq 1..Len(inners')
        /\ Len(inners') \in 1..Len(inners')
    BY <2>1
  <2> QED
    BY <2>1, <2>2
<1>4. ASSUME NEW t \in Threads, Awesome!Assign(t) PROVE InnerTypes'
  BY <1>4 DEF Awesome!Assign, Awesome!Goto, Awesome!NewEra
<1>5. ASSUME NEW t \in Threads, Awesome!ClearDirty(t) PROVE InnerTypes'
  BY <1>5 DEF Awesome!ClearDirty, Awesome!Goto
<1>6. ASSUME NEW t \in Threads, Awesome!Load(t) PROVE InnerTypes'
  BY <1>6 DEF Awesome!Load, Awesome!Goto
<1>7. ASSUME NEW t \in Threads, Awesome!Slug(t) PROVE InnerTypes'
  BY <1>7, SlugStep
<1>8. ASSUME NEW t \in Threads, Awesome!Reset(t) PROVE InnerTypes'
  BY <1>8, ResetStep
<1>9. CASE UNCHANGED awesomeVars
  BY <1>9 DEF awesomeVars
<1> QED
  BY <1>1, <1>2, <1>3, <1>4, <1>5, <1>6, <1>7, <1>8, <1>9 DEF Awesome!Next

\* Every rebuild reads the settings after the mark, unless a setter runs during
\* it, and then a setting counts as missed.
LEMMA SettingsInvKept ==
  PlainTypes /\ InnerTypes /\ SettingsInv /\ [Awesome!Next]_awesomeVars => SettingsInv'
<1> SUFFICES ASSUME PlainTypes, InnerTypes, SettingsInv, [Awesome!Next]_awesomeVars PROVE SettingsInv'
  OBVIOUS
<1> USE DEF PlainTypes, Steps, Awesome!object, Awesome!threads, Awesome!history, InnerTypes, SettingsInv, Awesome!Rebuilding
<1>1. ASSUME NEW t \in Threads, Awesome!SetThenMark(t) PROVE SettingsInv'
  BY <1>1, SetterSteps
<1>2. ASSUME NEW t \in Threads, Awesome!ReadDirty(t) PROVE SettingsInv'
  BY <1>2 DEF Awesome!ReadDirty, Awesome!Goto
<1>3. ASSUME NEW t \in Threads, Awesome!Build(t) PROVE SettingsInv'
  <2> SUFFICES ASSUME ~missed' PROVE SettingsInv'
    OBVIOUS
  <2>1. Len(inners) \in Nat /\ ~missed /\ inner \in 1..Len(inners)
    BY <1>3, BuildStep
  <2>2. ASSUME NEW w \in Threads, spc'[w] = "assign" PROVE inners'[built'[w]].settings = settings'
    <3>1. CASE w = t
      <4>1. built' = [built EXCEPT ![t] = Len(inners')] /\ settings' = settings
        BY <1>3, BuildStep
      <4>2. built'[w] = Len(inners')
        BY <3>1, <4>1
      <4> QED
        BY <1>3, <4>1, <4>2, BuildStep
    <3>2. CASE w # t
      <4>1. spc[w] = "assign" /\ built'[w] = built[w] /\ built[w] \in 1..Len(inners)
        BY <1>3, <2>2, <3>2, BuildStep
      <4>2. inners'[built[w]].settings = inners[built[w]].settings /\ settings' = settings
        BY <1>3, <4>1, BuildStep
      <4> QED
        BY <2>1, <4>1, <4>2
    <3> QED
      BY <3>1, <3>2
  <2>3. ASSUME NEW w \in Threads, spc'[w] = "clean" PROVE inners'[inner'].settings = settings'
    <3>1. spc[w] = "clean"
      BY <1>3, <2>3, BuildStep
    <3>2. inners'[inner'].settings = inners[inner].settings /\ settings' = settings
      BY <1>3, <2>1, BuildStep
    <3> QED
      BY <2>1, <3>1, <3>2
  <2>4. dirty' \/ inners'[inner'].settings = settings' \/ \E w \in Threads : spc'[w] = "mark"
    BY <1>3, <2>1, BuildStep
  <2> QED
    BY <2>2, <2>3, <2>4
<1>4. ASSUME NEW t \in Threads, Awesome!Assign(t) PROVE SettingsInv'
  BY <1>4 DEF Awesome!Assign, Awesome!Goto, Awesome!NewEra
<1>5. ASSUME NEW t \in Threads, Awesome!ClearDirty(t) PROVE SettingsInv'
  BY <1>5 DEF Awesome!ClearDirty, Awesome!Goto
<1>6. ASSUME NEW t \in Threads, Awesome!Load(t) PROVE SettingsInv'
  BY <1>6 DEF Awesome!Load, Awesome!Goto
<1>7. ASSUME NEW t \in Threads, Awesome!Slug(t) PROVE SettingsInv'
  <2> SUFFICES ASSUME ~missed' PROVE SettingsInv'
    OBVIOUS
  <2>1. Len(inners) \in Nat /\ ~missed /\ inner \in 1..Len(inners)
    BY <1>7, SlugStep
  <2>2. ASSUME NEW w \in Threads, spc'[w] = "assign" PROVE inners'[built'[w]].settings = settings'
    <3>1. w # t
      BY <1>7, <2>2, SlugStep
    <3>2. CASE w # t
      <4>1. spc[w] = "assign" /\ built'[w] = built[w] /\ built[w] \in 1..Len(inners)
        BY <1>7, <2>2, <3>2, SlugStep
      <4>2. inners'[built[w]].settings = inners[built[w]].settings /\ settings' = settings
        BY <1>7, <4>1, SlugStep
      <4> QED
        BY <2>1, <4>1, <4>2
    <3> QED
      BY <3>1, <3>2
  <2>3. ASSUME NEW w \in Threads, spc'[w] = "clean" PROVE inners'[inner'].settings = settings'
    <3>1. spc[w] = "clean"
      BY <1>7, <2>3, SlugStep
    <3>2. inners'[inner'].settings = inners[inner].settings /\ settings' = settings
      BY <1>7, <2>1, SlugStep
    <3> QED
      BY <2>1, <3>1, <3>2
  <2>4. dirty' \/ inners'[inner'].settings = settings' \/ \E w \in Threads : spc'[w] = "mark"
    BY <1>7, <2>1, SlugStep
  <2> QED
    BY <2>2, <2>3, <2>4
<1>8. ASSUME NEW t \in Threads, Awesome!Reset(t) PROVE SettingsInv'
  <2> SUFFICES ASSUME ~missed' PROVE SettingsInv'
    OBVIOUS
  <2>1. Len(inners) \in Nat /\ ~missed /\ inner \in 1..Len(inners)
    BY <1>8, ResetStep
  <2>2. ASSUME NEW w \in Threads, spc'[w] = "assign" PROVE inners'[built'[w]].settings = settings'
    <3>1. w # t
      BY <1>8, <2>2, ResetStep
    <3>2. CASE w # t
      <4>1. spc[w] = "assign" /\ built'[w] = built[w] /\ built[w] \in 1..Len(inners)
        BY <1>8, <2>2, <3>2, ResetStep
      <4>2. inners'[built[w]].settings = inners[built[w]].settings /\ settings' = settings
        BY <1>8, <4>1, ResetStep
      <4> QED
        BY <2>1, <4>1, <4>2
    <3> QED
      BY <3>1, <3>2
  <2>3. ASSUME NEW w \in Threads, spc'[w] = "clean" PROVE inners'[inner'].settings = settings'
    <3>1. spc[w] = "clean"
      BY <1>8, <2>3, ResetStep
    <3>2. inners'[inner'].settings = inners[inner].settings /\ settings' = settings
      BY <1>8, <2>1, ResetStep
    <3> QED
      BY <2>1, <3>1, <3>2
  <2>4. dirty' \/ inners'[inner'].settings = settings' \/ \E w \in Threads : spc'[w] = "mark"
    BY <1>8, <2>1, ResetStep
  <2> QED
    BY <2>2, <2>3, <2>4
<1>9. CASE UNCHANGED awesomeVars
  BY <1>9 DEF awesomeVars
<1> QED
  BY <1>1, <1>2, <1>3, <1>4, <1>5, <1>6, <1>7, <1>8, <1>9 DEF Awesome!Next

\* Two rebuilds at once are both overlapped, and only a rebuild wipes the mark.
LEMMA AloneKept ==
  PlainTypes /\ InnerTypes /\ AloneInv /\ [Awesome!Next]_awesomeVars => AloneInv'
<1> SUFFICES ASSUME PlainTypes, InnerTypes, AloneInv, [Awesome!Next]_awesomeVars PROVE AloneInv'
  OBVIOUS
<1> USE DEF PlainTypes, Steps, Awesome!object, Awesome!threads, Awesome!history, AloneInv, Awesome!Rebuilding
<1>1. ASSUME NEW t \in Threads, Awesome!SetThenMark(t) PROVE AloneInv'
  BY <1>1, SetterSteps
<1>2. ASSUME NEW t \in Threads, Awesome!ReadDirty(t) PROVE AloneInv'
  BY <1>2 DEF Awesome!ReadDirty, Awesome!Goto
<1>3. ASSUME NEW t \in Threads, Awesome!Build(t) PROVE AloneInv'
  <2>1. /\ spc[t] = "build" /\ spc' = [spc EXCEPT ![t] = "assign"]
        /\ UNCHANGED <<dirty, overlapped>>
    BY <1>3, BuildStep
  <2> QED
    BY <2>1
<1>4. ASSUME NEW t \in Threads, Awesome!Assign(t) PROVE AloneInv'
  BY <1>4 DEF Awesome!Assign, Awesome!Goto, Awesome!NewEra
<1>5. ASSUME NEW t \in Threads, Awesome!ClearDirty(t) PROVE AloneInv'
  BY <1>5 DEF Awesome!ClearDirty, Awesome!Goto
<1>6. ASSUME NEW t \in Threads, Awesome!Load(t) PROVE AloneInv'
  BY <1>6 DEF Awesome!Load, Awesome!Goto
<1>7. ASSUME NEW t \in Threads, Awesome!Slug(t) PROVE AloneInv'
  BY <1>7, SlugStep
<1>8. ASSUME NEW t \in Threads, Awesome!Reset(t) PROVE AloneInv'
  BY <1>8, ResetStep
<1>9. CASE UNCHANGED awesomeVars
  BY <1>9 DEF awesomeVars
<1> QED
  BY <1>1, <1>2, <1>3, <1>4, <1>5, <1>6, <1>7, <1>8, <1>9 DEF Awesome!Next

\* A slug of the era is asked of the inner object in place; a rebuild that is
\* not overlapped finds nothing given in its era.
LEMMA EraKept ==
  PlainTypes /\ InnerTypes /\ AloneInv /\ EraInv /\ [Awesome!Next]_awesomeVars => EraInv'
<1> SUFFICES ASSUME PlainTypes, InnerTypes, AloneInv, EraInv, [Awesome!Next]_awesomeVars PROVE EraInv'
  OBVIOUS
<1> USE DEF PlainTypes, Steps, Awesome!object, Awesome!threads, Awesome!history, InnerTypes, AloneInv, EraInv, Awesome!Rebuilding
<1>1. ASSUME NEW t \in Threads, Awesome!SetThenMark(t) PROVE EraInv'
  <2>1. CASE spc[t] = "idle"
    <3>1. /\ spc' = [spc EXCEPT ![t] = "mark"]
          /\ UNCHANGED <<dirty, inners, inner, using, since, era, given, repeated>>
      BY <1>1, <2>1, SetterSteps
    <3> QED
      BY <2>1, <3>1
  <2>2. CASE spc[t] = "mark"
    <3>1. /\ spc' = [spc EXCEPT ![t] = "idle"] /\ era' = era + 1 /\ given' = {}
          /\ UNCHANGED <<inners, inner, using, since, repeated>>
      BY <1>1, <2>2, SetterSteps
    <3> QED
      BY <2>2, <3>1
  <2> QED
    BY <1>1, <2>1, <2>2, SetterSteps
<1>2. ASSUME NEW t \in Threads, Awesome!ReadDirty(t) PROVE EraInv'
  <2>1. /\ spc[t] = "idle" /\ spc' = [spc EXCEPT ![t] = IF dirty THEN "build" ELSE "load"]
        /\ since' = [since EXCEPT ![t] = era]
        /\ UNCHANGED <<dirty, inners, inner, using, era, given, repeated>>
    BY <1>2 DEF Awesome!ReadDirty, Awesome!Goto
  <2>2. CASE dirty
    BY <2>1, <2>2
  <2>3. CASE ~dirty
    BY <2>1, <2>3
  <2> QED
    BY <2>2, <2>3
<1>3. ASSUME NEW t \in Threads, Awesome!Build(t) PROVE EraInv'
  <2>1. inners'[inner'] = inners[inner]
    BY <1>3, BuildStep
  <2>2. /\ spc[t] = "build" /\ spc' = [spc EXCEPT ![t] = "assign"]
        /\ UNCHANGED <<dirty, inner, using, since, era, given, repeated>>
    BY <1>3, BuildStep
  <2> QED
    BY <2>1, <2>2
<1>4. ASSUME NEW t \in Threads, Awesome!Assign(t) PROVE EraInv'
  <2>1. CASE t \in overlapped
    BY <1>4, <2>1 DEF Awesome!Assign, Awesome!Goto, Awesome!NewEra
  <2>2. CASE t \notin overlapped
    <3>1. dirty /\ given = {} /\ \A w \in Threads : spc[w] = "ask" => since[w] # era
      BY <1>4, <2>2 DEF Awesome!Assign, Awesome!Goto
    <3> QED
      BY <1>4, <2>2, <3>1 DEF Awesome!Assign, Awesome!Goto
  <2> QED
    BY <2>1, <2>2
<1>5. ASSUME NEW t \in Threads, Awesome!ClearDirty(t) PROVE EraInv'
  BY <1>5 DEF Awesome!ClearDirty, Awesome!Goto
<1>6. ASSUME NEW t \in Threads, Awesome!Load(t) PROVE EraInv'
  BY <1>6 DEF Awesome!Load, Awesome!Goto
<1>7. ASSUME NEW t \in Threads, Awesome!Slug(t) PROVE EraInv'
  <2> DEFINE slug == inners[using[t]].count + 1
  <2>1. /\ spc[t] = "ask" /\ spc' = [spc EXCEPT ![t] = "idle"] /\ using' = [using EXCEPT ![t] = 0]
        /\ UNCHANGED <<dirty, inner, since, era>>
    BY <1>7, SlugStep
  <2>2. /\ using[t] \in 1..Len(inners) /\ slug \in Nat /\ inner \in 1..Len(inners)
        /\ inners'[inner].count = IF inner = using[t] THEN slug ELSE inners[inner].count
    BY <1>7, SlugStep
  <2>3. inners[inner].count \in Nat
    <3>1. inners[inner] \in InnerObject
      OBVIOUS
    <3> QED
      BY <3>1 DEF InnerObject
  <2> HIDE DEF InnerTypes
  <2>4. CASE since[t] # era
    <3>1. UNCHANGED <<given, repeated>>
      BY <1>7, <2>4, SlugStep
    <3>2. inners[inner].count <= inners'[inner].count
      BY <2>2, <2>3
    <3>3. \A x \in given : x <= inners'[inner].count
      <4> TAKE x \in given
      <4>1. x \in Nat /\ x <= inners[inner].count /\ inners'[inner].count \in Nat
        BY <2>2, <2>3
      <4> HIDE DEF slug
      <4> QED
        BY <2>3, <3>2, <4>1
    <3> QED
      BY <2>1, <3>1, <3>3
  <2>5. CASE since[t] = era
    <3>1. using[t] = inner /\ ~dirty
      BY <2>1, <2>5
    <3>2. \A x \in given : x < slug
      BY <2>3, <3>1
    <3>3. given' = given \cup {slug} /\ ~repeated'
      <4>1. slug \notin given
        BY <2>2, <3>2
      <4>2. given' = given \cup {slug} /\ repeated' = (repeated \/ slug \in given)
        BY <1>7, <2>5, SlugStep
      <4> QED
        BY <4>1, <4>2
    <3>4. inners'[inner].count = slug
      BY <2>2, <3>1
    <3> HIDE DEF slug
    <3>5. \A x \in given' : x <= inners'[inner].count
      BY <2>2, <3>2, <3>3, <3>4
    <3> QED
      BY <2>1, <3>1, <3>3, <3>5
  <2> QED
    BY <2>4, <2>5
<1>8. ASSUME NEW t \in Threads, Awesome!Reset(t) PROVE EraInv'
  <2>1. /\ spc[t] = "ask" /\ spc' = [spc EXCEPT ![t] = "idle"] /\ using' = [using EXCEPT ![t] = 0]
        /\ era' = era + 1 /\ given' = {} /\ UNCHANGED <<dirty, inner, since, repeated>>
    BY <1>8, ResetStep
  <2> QED
    BY <2>1
<1>9. CASE UNCHANGED awesomeVars
  BY <1>9 DEF awesomeVars
<1> QED
  BY <1>1, <1>2, <1>3, <1>4, <1>5, <1>6, <1>7, <1>8, <1>9 DEF Awesome!Next

\* A step of another machine leaves the object alone.
LEMMA AwesomeKept == AwesomeInv /\ [Next]_vars => AwesomeInv'
<1>1. [Next]_vars => [Awesome!Next]_awesomeVars
  BY DEF Next, CachedStep, AwesomeStep, JavaStep, vars
<1> QED
  BY <1>1, PlainTypesKept, InnerTypesKept, SettingsInvKept, AloneKept, EraKept DEF AwesomeInv

\* The inductive invariant implies that the attributes are kept.
LEMMA AwesomeImplies == AwesomeInv => AttributesKept
BY DEF AwesomeInv, PlainTypes, SettingsInv, EraInv, AttributesKept, Awesome!AttributesKept,
   Awesome!SettingsKept, Awesome!SlugsApart

\* A clean UniqueSlugify has the settings that were set, unless a setter ran
\* during a rebuild, and gives no slug twice between two rebuilds or resets
\* (_compat.py, UniqueSlugify), whatever the threads do.
THEOREM AttributesStayKept == Spec => []AttributesKept
<1>1. Init => AwesomeInv
  BY AwesomeInit DEF Init
<1> QED
  BY <1>1, AwesomeKept, AwesomeImplies, PTL DEF Spec

-----------------------------------------------------------------------------
(***************************************************************************)
(* Proofs about the Java objects that hold a native one for every set of   *)
(* threads and objects; Java! names the definitions of Handles. The        *)
(* argument follows a handle through its life: it is given once and        *)
(* belongs to one object (NumbersInv), one thread makes the object and     *)
(* nobody else has it before it is made (MakingInv), an object is freed by *)
(* the one thread that closed it or by the Cleaner when nobody holds it    *)
(* (ClosingInv), so the registry has an object from its insertion until it *)
(* is freed and never again (FreedInv), and a lookup under its handle      *)
(* finds it or finds nothing after a close (AnswersInv).                   *)
(***************************************************************************)
\* The registries there are, and the stages of a thread that makes an object or
\* uses one.
Kinds == {"pipeline", "lexicon"}
Making == {"allocate", "insert", "wrap"}
Using == {"lookup", "clone", "close", "clean", "free", "answered"}

\* The variables have their types.
HandlesTypes ==
  /\ nextHandle \in Nat \ {0} /\ handle \in [Java!Objects -> Nat]
  /\ DOMAIN registry = Kinds
  /\ held \subseteq Java!Objects /\ closed \subseteq Java!Objects
  /\ cleaned \subseteq Java!Objects /\ freeing \subseteq Java!Objects
  /\ hpc \in [Users -> {"idle"} \cup Making \cup Using]
  /\ subject \in [Users -> Java!Objects \cup {Java!NoObject}]
  /\ fresh \in [Users -> Java!Objects \cup {Java!NoObject}]
  /\ answer \in [Users -> Java!Objects \cup {Java!NoObject, "stale"}]

\* Numbers are given once; what a registry holds under one has it.
NumbersInv ==
  /\ \A o \in Java!Objects : handle[o] < nextHandle
  /\ \A o, p \in Java!Objects : handle[o] = handle[p] /\ handle[o] # 0 => o = p
  /\ \A k \in Kinds : \A h \in DOMAIN registry[k] :
       /\ registry[k][h] \in Java!Objects
       /\ Java!Kind(registry[k][h]) = k /\ handle[registry[k][h]] = h /\ h # 0

\* An object is made by one thread, and is nobody's before.
MakingInv ==
  /\ \A u \in Users :
       /\ hpc[u] \in Making <=> fresh[u] # Java!NoObject
       /\ hpc[u] = "allocate" => handle[fresh[u]] = 0
       /\ hpc[u] \in {"insert", "wrap"} => handle[fresh[u]] # 0
  /\ \A u, w \in Users : fresh[u] = fresh[w] /\ fresh[u] # Java!NoObject => u = w
  /\ \A o \in Java!Objects :
       (o \in held \cup closed \cup cleaned \cup freeing \/ \E u \in Users : subject[u] = o)
         => handle[o] # 0 /\ \A u \in Users : fresh[u] # o

\* What is being freed was cleaned, what is cleaned is held only by those who
\* closed it, a thread that uses an object has one, and one thread at most
\* frees an object.
ClosingInv ==
  /\ freeing \subseteq cleaned
  /\ cleaned \cap held \subseteq closed
  /\ \A u \in Users :
       /\ hpc[u] \in Using => subject[u] \in Java!Objects
       /\ hpc[u] = "clean" => subject[u] \in closed
       /\ hpc[u] = "free" => subject[u] \in freeing
  /\ \A u, w \in Users : hpc[u] = "free" /\ hpc[w] = "free" /\ subject[u] = subject[w] => u = w

\* The registry holds something under the object's handle.
Registered(o) == handle[o] # 0 /\ handle[o] \in DOMAIN registry[Java!Kind(o)]

\* The registry holds an object exactly when it has been inserted and has not
\* been freed.
FreedInv ==
  \A o \in Java!Objects :
    Registered(o) <=> /\ handle[o] # 0 /\ (o \in cleaned => o \in freeing)
                      /\ \A u \in Users : ~(hpc[u] = "insert" /\ fresh[u] = o)

\* An answer is the object asked for, or is that there is none when it was
\* closed or let go; and only a thread within a call has an answer.
AnswersInv ==
  /\ Java!AnswersOwn
  /\ \A u \in Users : answer[u] # Java!NoObject =>
       hpc[u] \in Making \cup {"answered"} /\ subject[u] \in Java!Objects

\* The inductive invariant.
HandlesInv ==
  HandlesTypes /\ NumbersInv /\ MakingInv /\ ClosingInv /\ FreedInv /\ AnswersInv

\* No object is one of the names that stand for none.
LEMMA NamesApart == Java!NoObject \notin Java!Objects /\ "stale" \notin Java!Objects /\ Java!NoObject # "stale"
BY ObjectsAssumption DEF Java!Objects, Java!NoObject

\* Every object belongs to one of the registries.
LEMMA KindIsKind == \A o : Java!Kind(o) \in Kinds
BY DEF Java!Kind, Kinds

\* What a registry holds under an object's handle is that object.
LEMMA FoundIsOwn ==
  ASSUME HandlesTypes, NumbersInv, NEW u \in Users, subject[u] \in Java!Objects
  PROVE  /\ Java!Found(u) = subject[u] \/ Java!Found(u) = "stale"
         /\ Java!Found(u) = "stale" => ~Registered(subject[u])
BY NamesApart, KindIsKind DEF HandlesTypes, NumbersInv, Java!Found, Registered

\* With no object made it holds.
LEMMA HandlesInit == Java!Init => HandlesInv
BY NamesApart, KindIsKind DEF Java!Init, HandlesInv, HandlesTypes, NumbersInv, MakingInv, ClosingInv, FreedInv,
   AnswersInv, Java!AnswersOwn, Registered, Kinds, Making, Using

\* No step takes a variable out of its type.
LEMMA TypesKept ==
  HandlesTypes /\ NumbersInv /\ MakingInv /\ ClosingInv /\ [Java!Next]_javaVars => HandlesTypes'
<1> SUFFICES ASSUME HandlesTypes, NumbersInv, MakingInv, ClosingInv, [Java!Next]_javaVars PROVE HandlesTypes'
  OBVIOUS
<1> USE NamesApart DEF HandlesTypes, Making, Using, Java!natives, Java!javas, Java!users, NumbersInv, MakingInv, ClosingInv, Kinds
<1>1. ASSUME NEW u \in Users, Java!Compile(u) PROVE HandlesTypes'
  BY <1>1 DEF Java!Compile, Java!Goto, Java!Unmade
<1>2. ASSUME NEW u \in Users, Java!Allocate(u) PROVE HandlesTypes'
  BY <1>2 DEF Java!Allocate, Java!Goto, Java!NextHandle
<1>3. ASSUME NEW u \in Users, Java!Insert(u) PROVE HandlesTypes'
  BY <1>3 DEF Java!Insert, Java!Goto
<1>4. ASSUME NEW u \in Users, Java!Wrap(u) PROVE HandlesTypes'
  BY <1>4 DEF Java!Wrap, Java!Goto
<1>5. ASSUME NEW u \in Users, Java!BeginCall(u) PROVE HandlesTypes'
  BY <1>5 DEF Java!BeginCall, Java!Goto, Java!CheckOpen
<1>6. ASSUME NEW u \in Users, Java!BeginCopy(u) PROVE HandlesTypes'
  BY <1>6 DEF Java!BeginCopy, Java!Goto, Java!CheckOpen
<1>7. ASSUME NEW u \in Users, Java!Lookup(u) PROVE HandlesTypes'
  BY <1>7, FoundIsOwn DEF Java!Lookup, Java!Goto
<1>8. ASSUME NEW u \in Users, Java!Clone(u) PROVE HandlesTypes'
  <2> Pipelines \subseteq Java!Objects
    BY DEF Java!Objects
  <2> QED
    BY <1>8, FoundIsOwn DEF Java!Clone
<1>9. ASSUME NEW u \in Users, Java!CloneRefused(u) PROVE HandlesTypes'
  BY <1>9, FoundIsOwn DEF Java!CloneRefused, Java!Goto
<1>10. ASSUME NEW u \in Users, Java!EndCall(u) PROVE HandlesTypes'
  BY <1>10 DEF Java!EndCall, Java!Goto
<1>11. ASSUME NEW u \in Users, Java!BeginClose(u) PROVE HandlesTypes'
  BY <1>11 DEF Java!BeginClose, Java!Goto, Java!CheckOpen
<1>12. ASSUME NEW u \in Users, Java!WriteClosed(u) PROVE HandlesTypes'
  BY <1>12 DEF Java!WriteClosed, Java!Goto
<1>13. ASSUME NEW u \in Users, Java!Clean(u) PROVE HandlesTypes'
  BY <1>13 DEF Java!Clean
<1>14. ASSUME NEW u \in Users, Java!FreeClosed(u) PROVE HandlesTypes'
  BY <1>14 DEF Java!FreeClosed, Java!Goto, Java!Remove
<1>15. ASSUME NEW o \in Java!Objects, Java!LetGo(o) PROVE HandlesTypes'
  BY <1>15 DEF Java!LetGo
<1>16. ASSUME NEW o \in Java!Objects, Java!Collect(o) PROVE HandlesTypes'
  BY <1>16 DEF Java!Collect
<1>17. ASSUME NEW o \in Java!Objects, Java!FreeCollected(o) PROVE HandlesTypes'
  BY <1>17 DEF Java!FreeCollected, Java!Remove
<1>18. CASE UNCHANGED javaVars
  BY <1>18 DEF javaVars
<1> QED
  BY <1>1, <1>2, <1>3, <1>4, <1>5, <1>6, <1>7, <1>8, <1>9, <1>10,
     <1>11, <1>12, <1>13, <1>14, <1>15, <1>16, <1>17, <1>18
  DEF Java!Next

\* The counter gives every object a number no other has, and a registry is
\* filled under an object's own number.
LEMMA NumbersKept ==
  HandlesTypes /\ NumbersInv /\ MakingInv /\ ClosingInv /\ [Java!Next]_javaVars => NumbersInv'
<1> SUFFICES ASSUME HandlesTypes, NumbersInv, MakingInv, ClosingInv, [Java!Next]_javaVars PROVE NumbersInv'
  OBVIOUS
<1> USE NamesApart DEF HandlesTypes, Making, Using, Java!natives, Java!javas, Java!users, NumbersInv, MakingInv, ClosingInv, Kinds
<1>1. ASSUME NEW u \in Users, Java!Compile(u) PROVE NumbersInv'
  BY <1>1 DEF Java!Compile, Java!Goto, Java!Unmade
<1>2. ASSUME NEW u \in Users, Java!Allocate(u) PROVE NumbersInv'
  BY <1>2 DEF Java!Allocate, Java!Goto, Java!NextHandle
<1>3. ASSUME NEW u \in Users, Java!Insert(u) PROVE NumbersInv'
  BY <1>3 DEF Java!Insert, Java!Goto
<1>4. ASSUME NEW u \in Users, Java!Wrap(u) PROVE NumbersInv'
  BY <1>4 DEF Java!Wrap, Java!Goto
<1>5. ASSUME NEW u \in Users, Java!BeginCall(u) PROVE NumbersInv'
  BY <1>5 DEF Java!BeginCall, Java!Goto, Java!CheckOpen
<1>6. ASSUME NEW u \in Users, Java!BeginCopy(u) PROVE NumbersInv'
  BY <1>6 DEF Java!BeginCopy, Java!Goto, Java!CheckOpen
<1>7. ASSUME NEW u \in Users, Java!Lookup(u) PROVE NumbersInv'
  BY <1>7 DEF Java!Lookup, Java!Goto, Java!Found
<1>8. ASSUME NEW u \in Users, Java!Clone(u) PROVE NumbersInv'
  BY <1>8 DEF Java!Clone, Java!Found, Java!Unmade
<1>9. ASSUME NEW u \in Users, Java!CloneRefused(u) PROVE NumbersInv'
  BY <1>9 DEF Java!CloneRefused, Java!Goto, Java!Found
<1>10. ASSUME NEW u \in Users, Java!EndCall(u) PROVE NumbersInv'
  BY <1>10 DEF Java!EndCall, Java!Goto
<1>11. ASSUME NEW u \in Users, Java!BeginClose(u) PROVE NumbersInv'
  BY <1>11 DEF Java!BeginClose, Java!Goto, Java!CheckOpen
<1>12. ASSUME NEW u \in Users, Java!WriteClosed(u) PROVE NumbersInv'
  BY <1>12 DEF Java!WriteClosed, Java!Goto
<1>13. ASSUME NEW u \in Users, Java!Clean(u) PROVE NumbersInv'
  BY <1>13 DEF Java!Clean
<1>14. ASSUME NEW u \in Users, Java!FreeClosed(u) PROVE NumbersInv'
  BY <1>14 DEF Java!FreeClosed, Java!Goto, Java!Remove
<1>15. ASSUME NEW o \in Java!Objects, Java!LetGo(o) PROVE NumbersInv'
  BY <1>15 DEF Java!LetGo
<1>16. ASSUME NEW o \in Java!Objects, Java!Collect(o) PROVE NumbersInv'
  BY <1>16 DEF Java!Collect
<1>17. ASSUME NEW o \in Java!Objects, Java!FreeCollected(o) PROVE NumbersInv'
  BY <1>17 DEF Java!FreeCollected, Java!Remove
<1>18. CASE UNCHANGED javaVars
  BY <1>18 DEF javaVars
<1> QED
  BY <1>1, <1>2, <1>3, <1>4, <1>5, <1>6, <1>7, <1>8, <1>9, <1>10,
     <1>11, <1>12, <1>13, <1>14, <1>15, <1>16, <1>17, <1>18
  DEF Java!Next

\* An object is nobody's until it is wrapped, and only one thread wraps it.
LEMMA MakingKept ==
  HandlesTypes /\ NumbersInv /\ MakingInv /\ ClosingInv /\ [Java!Next]_javaVars => MakingInv'
<1> SUFFICES ASSUME HandlesTypes, NumbersInv, MakingInv, ClosingInv, [Java!Next]_javaVars PROVE MakingInv'
  OBVIOUS
<1> USE NamesApart DEF HandlesTypes, Making, Using, Java!natives, Java!javas, Java!users, MakingInv, ClosingInv
<1>1. ASSUME NEW u \in Users, Java!Compile(u) PROVE MakingInv'
  BY <1>1 DEF Java!Compile, Java!Goto, Java!Unmade
<1>2. ASSUME NEW u \in Users, Java!Allocate(u) PROVE MakingInv'
  BY <1>2 DEF Java!Allocate, Java!Goto, Java!NextHandle
<1>3. ASSUME NEW u \in Users, Java!Insert(u) PROVE MakingInv'
  BY <1>3 DEF Java!Insert, Java!Goto
<1>4. ASSUME NEW u \in Users, Java!Wrap(u) PROVE MakingInv'
  BY <1>4 DEF Java!Wrap, Java!Goto
<1>5. ASSUME NEW u \in Users, Java!BeginCall(u) PROVE MakingInv'
  BY <1>5 DEF Java!BeginCall, Java!Goto, Java!CheckOpen
<1>6. ASSUME NEW u \in Users, Java!BeginCopy(u) PROVE MakingInv'
  BY <1>6 DEF Java!BeginCopy, Java!Goto, Java!CheckOpen
<1>7. ASSUME NEW u \in Users, Java!Lookup(u) PROVE MakingInv'
  BY <1>7 DEF Java!Lookup, Java!Goto, Java!Found
<1>8. ASSUME NEW u \in Users, Java!Clone(u) PROVE MakingInv'
  BY <1>8 DEF Java!Clone, Java!Found, Java!Unmade
<1>9. ASSUME NEW u \in Users, Java!CloneRefused(u) PROVE MakingInv'
  BY <1>9 DEF Java!CloneRefused, Java!Goto, Java!Found
<1>10. ASSUME NEW u \in Users, Java!EndCall(u) PROVE MakingInv'
  BY <1>10 DEF Java!EndCall, Java!Goto
<1>11. ASSUME NEW u \in Users, Java!BeginClose(u) PROVE MakingInv'
  BY <1>11 DEF Java!BeginClose, Java!Goto, Java!CheckOpen
<1>12. ASSUME NEW u \in Users, Java!WriteClosed(u) PROVE MakingInv'
  BY <1>12 DEF Java!WriteClosed, Java!Goto
<1>13. ASSUME NEW u \in Users, Java!Clean(u) PROVE MakingInv'
  BY <1>13 DEF Java!Clean
<1>14. ASSUME NEW u \in Users, Java!FreeClosed(u) PROVE MakingInv'
  BY <1>14 DEF Java!FreeClosed, Java!Goto, Java!Remove
<1>15. ASSUME NEW o \in Java!Objects, Java!LetGo(o) PROVE MakingInv'
  BY <1>15 DEF Java!LetGo
<1>16. ASSUME NEW o \in Java!Objects, Java!Collect(o) PROVE MakingInv'
  BY <1>16 DEF Java!Collect
<1>17. ASSUME NEW o \in Java!Objects, Java!FreeCollected(o) PROVE MakingInv'
  BY <1>17 DEF Java!FreeCollected, Java!Remove
<1>18. CASE UNCHANGED javaVars
  BY <1>18 DEF javaVars
<1> QED
  BY <1>1, <1>2, <1>3, <1>4, <1>5, <1>6, <1>7, <1>8, <1>9, <1>10,
     <1>11, <1>12, <1>13, <1>14, <1>15, <1>16, <1>17, <1>18
  DEF Java!Next

\* The first to close an object frees it; the Cleaner frees what nobody holds
\* and nobody has cleaned.
LEMMA ClosingKept ==
  HandlesTypes /\ MakingInv /\ ClosingInv /\ [Java!Next]_javaVars => ClosingInv'
<1> SUFFICES ASSUME HandlesTypes, MakingInv, ClosingInv, [Java!Next]_javaVars PROVE ClosingInv'
  OBVIOUS
<1> USE NamesApart DEF HandlesTypes, Making, Using, Java!natives, Java!javas, Java!users, MakingInv, ClosingInv
<1>1. ASSUME NEW u \in Users, Java!Compile(u) PROVE ClosingInv'
  BY <1>1 DEF Java!Compile, Java!Goto, Java!Unmade
<1>2. ASSUME NEW u \in Users, Java!Allocate(u) PROVE ClosingInv'
  BY <1>2 DEF Java!Allocate, Java!Goto, Java!NextHandle
<1>3. ASSUME NEW u \in Users, Java!Insert(u) PROVE ClosingInv'
  BY <1>3 DEF Java!Insert, Java!Goto
<1>4. ASSUME NEW u \in Users, Java!Wrap(u) PROVE ClosingInv'
  BY <1>4 DEF Java!Wrap, Java!Goto
<1>5. ASSUME NEW u \in Users, Java!BeginCall(u) PROVE ClosingInv'
  BY <1>5 DEF Java!BeginCall, Java!Goto, Java!CheckOpen
<1>6. ASSUME NEW u \in Users, Java!BeginCopy(u) PROVE ClosingInv'
  BY <1>6 DEF Java!BeginCopy, Java!Goto, Java!CheckOpen
<1>7. ASSUME NEW u \in Users, Java!Lookup(u) PROVE ClosingInv'
  BY <1>7 DEF Java!Lookup, Java!Goto, Java!Found
<1>8. ASSUME NEW u \in Users, Java!Clone(u) PROVE ClosingInv'
  BY <1>8 DEF Java!Clone, Java!Found, Java!Unmade
<1>9. ASSUME NEW u \in Users, Java!CloneRefused(u) PROVE ClosingInv'
  BY <1>9 DEF Java!CloneRefused, Java!Goto, Java!Found
<1>10. ASSUME NEW u \in Users, Java!EndCall(u) PROVE ClosingInv'
  BY <1>10 DEF Java!EndCall, Java!Goto
<1>11. ASSUME NEW u \in Users, Java!BeginClose(u) PROVE ClosingInv'
  BY <1>11 DEF Java!BeginClose, Java!Goto, Java!CheckOpen
<1>12. ASSUME NEW u \in Users, Java!WriteClosed(u) PROVE ClosingInv'
  BY <1>12 DEF Java!WriteClosed, Java!Goto
<1>13. ASSUME NEW u \in Users, Java!Clean(u) PROVE ClosingInv'
  BY <1>13 DEF Java!Clean
<1>14. ASSUME NEW u \in Users, Java!FreeClosed(u) PROVE ClosingInv'
  BY <1>14 DEF Java!FreeClosed, Java!Goto, Java!Remove
<1>15. ASSUME NEW o \in Java!Objects, Java!LetGo(o) PROVE ClosingInv'
  BY <1>15 DEF Java!LetGo
<1>16. ASSUME NEW o \in Java!Objects, Java!Collect(o) PROVE ClosingInv'
  BY <1>16 DEF Java!Collect
<1>17. ASSUME NEW o \in Java!Objects, Java!FreeCollected(o) PROVE ClosingInv'
  BY <1>17 DEF Java!FreeCollected, Java!Remove
<1>18. CASE UNCHANGED javaVars
  BY <1>18 DEF javaVars
<1> QED
  BY <1>1, <1>2, <1>3, <1>4, <1>5, <1>6, <1>7, <1>8, <1>9, <1>10,
     <1>11, <1>12, <1>13, <1>14, <1>15, <1>16, <1>17, <1>18
  DEF Java!Next

\* An object enters its registry when inserted and leaves it when freed, and
\* nothing else does either.
LEMMA FreedKept ==
  HandlesTypes /\ NumbersInv /\ MakingInv /\ ClosingInv /\ FreedInv /\ [Java!Next]_javaVars => FreedInv'
<1> SUFFICES ASSUME HandlesTypes, NumbersInv, MakingInv, ClosingInv, FreedInv, [Java!Next]_javaVars PROVE FreedInv'
  OBVIOUS
<1> USE NamesApart, KindIsKind DEF HandlesTypes, Making, Using, Java!natives, Java!javas, Java!users, NumbersInv, MakingInv, ClosingInv, FreedInv, Registered
<1>1. ASSUME NEW u \in Users, Java!Compile(u) PROVE FreedInv'
  BY <1>1 DEF Java!Compile, Java!Goto, Java!Unmade
<1>2. ASSUME NEW u \in Users, Java!Allocate(u) PROVE FreedInv'
  BY <1>2 DEF Java!Allocate, Java!Goto, Java!NextHandle
<1>3. ASSUME NEW u \in Users, Java!Insert(u) PROVE FreedInv'
  BY <1>3 DEF Java!Insert, Java!Goto
<1>4. ASSUME NEW u \in Users, Java!Wrap(u) PROVE FreedInv'
  BY <1>4 DEF Java!Wrap, Java!Goto
<1>5. ASSUME NEW u \in Users, Java!BeginCall(u) PROVE FreedInv'
  BY <1>5 DEF Java!BeginCall, Java!Goto, Java!CheckOpen
<1>6. ASSUME NEW u \in Users, Java!BeginCopy(u) PROVE FreedInv'
  BY <1>6 DEF Java!BeginCopy, Java!Goto, Java!CheckOpen
<1>7. ASSUME NEW u \in Users, Java!Lookup(u) PROVE FreedInv'
  BY <1>7 DEF Java!Lookup, Java!Goto
<1>8. ASSUME NEW u \in Users, Java!Clone(u) PROVE FreedInv'
  BY <1>8 DEF Java!Clone, Java!Unmade
<1>9. ASSUME NEW u \in Users, Java!CloneRefused(u) PROVE FreedInv'
  BY <1>9 DEF Java!CloneRefused, Java!Goto
<1>10. ASSUME NEW u \in Users, Java!EndCall(u) PROVE FreedInv'
  BY <1>10 DEF Java!EndCall, Java!Goto
<1>11. ASSUME NEW u \in Users, Java!BeginClose(u) PROVE FreedInv'
  BY <1>11 DEF Java!BeginClose, Java!Goto, Java!CheckOpen
<1>12. ASSUME NEW u \in Users, Java!WriteClosed(u) PROVE FreedInv'
  BY <1>12 DEF Java!WriteClosed, Java!Goto
<1>13. ASSUME NEW u \in Users, Java!Clean(u) PROVE FreedInv'
  BY <1>13 DEF Java!Clean
<1>14. ASSUME NEW u \in Users, Java!FreeClosed(u) PROVE FreedInv'
  BY <1>14 DEF Java!FreeClosed, Java!Goto, Java!Remove
<1>15. ASSUME NEW o \in Java!Objects, Java!LetGo(o) PROVE FreedInv'
  BY <1>15 DEF Java!LetGo
<1>16. ASSUME NEW o \in Java!Objects, Java!Collect(o) PROVE FreedInv'
  BY <1>16 DEF Java!Collect
<1>17. ASSUME NEW o \in Java!Objects, Java!FreeCollected(o) PROVE FreedInv'
  BY <1>17 DEF Java!FreeCollected, Java!Remove
<1>18. CASE UNCHANGED javaVars
  BY <1>18 DEF javaVars
<1> QED
  BY <1>1, <1>2, <1>3, <1>4, <1>5, <1>6, <1>7, <1>8, <1>9, <1>10,
     <1>11, <1>12, <1>13, <1>14, <1>15, <1>16, <1>17, <1>18
  DEF Java!Next

\* A lookup finds the object under its own handle or nothing, and nothing only
\* when the object was closed or let go.
LEMMA AnswersKept ==
  HandlesTypes /\ NumbersInv /\ MakingInv /\ ClosingInv /\ FreedInv /\ AnswersInv /\ [Java!Next]_javaVars => AnswersInv'
<1> SUFFICES ASSUME HandlesTypes, NumbersInv, MakingInv, ClosingInv, FreedInv, AnswersInv, [Java!Next]_javaVars PROVE AnswersInv'
  OBVIOUS
<1> USE NamesApart DEF HandlesTypes, Making, Using, Java!natives, Java!javas, Java!users, MakingInv, AnswersInv, Java!AnswersOwn
<1>1. ASSUME NEW u \in Users, Java!Compile(u) PROVE AnswersInv'
  BY <1>1 DEF Java!Compile, Java!Goto, Java!Unmade
<1>2. ASSUME NEW u \in Users, Java!Allocate(u) PROVE AnswersInv'
  BY <1>2 DEF Java!Allocate, Java!Goto, Java!NextHandle
<1>3. ASSUME NEW u \in Users, Java!Insert(u) PROVE AnswersInv'
  BY <1>3 DEF Java!Insert, Java!Goto
<1>4. ASSUME NEW u \in Users, Java!Wrap(u) PROVE AnswersInv'
  BY <1>4 DEF Java!Wrap, Java!Goto
<1>5. ASSUME NEW u \in Users, Java!BeginCall(u) PROVE AnswersInv'
  BY <1>5 DEF Java!BeginCall, Java!Goto, Java!CheckOpen
<1>6. ASSUME NEW u \in Users, Java!BeginCopy(u) PROVE AnswersInv'
  BY <1>6 DEF Java!BeginCopy, Java!Goto, Java!CheckOpen
<1>7. ASSUME NEW u \in Users, Java!Lookup(u) PROVE AnswersInv'
  <2>1. subject[u] \in Java!Objects
    BY <1>7 DEF Java!Lookup, Java!Goto, ClosingInv
  <2>2. /\ Java!Found(u) = subject[u] \/ Java!Found(u) = "stale"
        /\ Java!Found(u) = "stale" => ~Registered(subject[u])
    BY <2>1, FoundIsOwn
  <2>3. ~Registered(subject[u]) => subject[u] \in closed \/ subject[u] \notin held
    BY <2>1 DEF FreedInv, ClosingInv, MakingInv
  <2> QED
    BY <1>7, <2>1, <2>2, <2>3 DEF Java!Lookup, Java!Goto
<1>8. ASSUME NEW u \in Users, Java!Clone(u) PROVE AnswersInv'
  <2>1. subject[u] \in Java!Objects
    BY <1>8 DEF Java!Clone, ClosingInv
  <2>2. /\ Java!Found(u) = subject[u] \/ Java!Found(u) = "stale"
        /\ Java!Found(u) = "stale" => ~Registered(subject[u])
    BY <2>1, FoundIsOwn
  <2>3. ~Registered(subject[u]) => subject[u] \in closed \/ subject[u] \notin held
    BY <2>1 DEF FreedInv, ClosingInv, MakingInv
  <2> QED
    BY <1>8, <2>1, <2>2, <2>3 DEF Java!Clone
<1>9. ASSUME NEW u \in Users, Java!CloneRefused(u) PROVE AnswersInv'
  <2>1. subject[u] \in Java!Objects
    BY <1>9 DEF Java!CloneRefused, Java!Goto, ClosingInv
  <2>2. /\ Java!Found(u) = subject[u] \/ Java!Found(u) = "stale"
        /\ Java!Found(u) = "stale" => ~Registered(subject[u])
    BY <2>1, FoundIsOwn
  <2>3. ~Registered(subject[u]) => subject[u] \in closed \/ subject[u] \notin held
    BY <2>1 DEF FreedInv, ClosingInv, MakingInv
  <2> QED
    BY <1>9, <2>1, <2>2, <2>3 DEF Java!CloneRefused, Java!Goto
<1>10. ASSUME NEW u \in Users, Java!EndCall(u) PROVE AnswersInv'
  BY <1>10 DEF Java!EndCall, Java!Goto
<1>11. ASSUME NEW u \in Users, Java!BeginClose(u) PROVE AnswersInv'
  BY <1>11 DEF Java!BeginClose, Java!Goto, Java!CheckOpen
<1>12. ASSUME NEW u \in Users, Java!WriteClosed(u) PROVE AnswersInv'
  BY <1>12 DEF Java!WriteClosed, Java!Goto
<1>13. ASSUME NEW u \in Users, Java!Clean(u) PROVE AnswersInv'
  BY <1>13 DEF Java!Clean
<1>14. ASSUME NEW u \in Users, Java!FreeClosed(u) PROVE AnswersInv'
  BY <1>14 DEF Java!FreeClosed, Java!Goto, Java!Remove
<1>15. ASSUME NEW o \in Java!Objects, Java!LetGo(o) PROVE AnswersInv'
  BY <1>15 DEF Java!LetGo
<1>16. ASSUME NEW o \in Java!Objects, Java!Collect(o) PROVE AnswersInv'
  BY <1>16 DEF Java!Collect
<1>17. ASSUME NEW o \in Java!Objects, Java!FreeCollected(o) PROVE AnswersInv'
  BY <1>17 DEF Java!FreeCollected, Java!Remove
<1>18. CASE UNCHANGED javaVars
  BY <1>18 DEF javaVars
<1> QED
  BY <1>1, <1>2, <1>3, <1>4, <1>5, <1>6, <1>7, <1>8, <1>9, <1>10,
     <1>11, <1>12, <1>13, <1>14, <1>15, <1>16, <1>17, <1>18
  DEF Java!Next

\* A step of another machine leaves the Java objects alone.
LEMMA HandlesKept == HandlesInv /\ [Next]_vars => HandlesInv'
<1>1. [Next]_vars => [Java!Next]_javaVars
  BY DEF Next, CachedStep, AwesomeStep, JavaStep, vars
<1> QED
  BY <1>1, TypesKept, NumbersKept, MakingKept, ClosingKept, FreedKept, AnswersKept DEF HandlesInv

\* The inductive invariant implies what the handles stand for.
LEMMA HandlesImplies == HandlesInv => HandlesSound
<1> SUFFICES ASSUME HandlesInv PROVE HandlesSound
  OBVIOUS
<1>1. ASSUME NEW o \in Java!Objects
      PROVE  (\E h \in DOMAIN registry[Java!Kind(o)] : registry[Java!Kind(o)][h] = o) <=> Registered(o)
  BY KindIsKind DEF HandlesInv, HandlesTypes, NumbersInv, Registered
<1>2. Java!FreedOnce
  BY <1>1 DEF HandlesInv, FreedInv, Java!FreedOnce
<1> QED
  BY <1>2 DEF HandlesInv, AnswersInv, HandlesSound, Java!HandlesSound

\* A call on a Java object is answered from the native object that is its own,
\* or is told that there is none when it was closed or nobody holds it any
\* more; and a registry holds an object from its insertion until it is freed,
\* once and for all (bindings/java, Pipeline.java, Lexicon.java and
\* rust/src/lib.rs), whatever the threads and the Cleaner do.
THEOREM HandlesStaySound == Spec => []HandlesSound
<1>1. Init => HandlesInv
  BY HandlesInit DEF Init
<1> QED
  BY <1>1, HandlesKept, HandlesImplies, PTL DEF Spec
=============================================================================
