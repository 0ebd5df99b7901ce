------------------------- MODULE RegistrationProofs -------------------------
(***************************************************************************)
(* Proofs about Registration for every set of threads, every table and     *)
(* every limit.  Each theorem adds a conjunct to the inductive invariant,  *)
(* which says who may be where: a thread is past "gate" exactly when it    *)
(* holds the gate, and the inner locks belong to the thread inside their   *)
(* critical sections (LockInv), a mutator past its seal check excludes a   *)
(* set latch (SealInv), and a thread about to insert has room (RoomInv).   *)
(* The last theorem maps every step to a step of AtomicRegistration or to  *)
(* a stutter: what a mutator has checked still holds when its write lands, *)
(* for nobody else is inside the gate.                                     *)
(***************************************************************************)
EXTENDS Registration, FiniteSetTheorems, TLAPS

\* Where register_lang is between the gate and its reply, and the others.
LangLabels == {"count", "has_lang", "validate", "insert", "store_has_langs"}
TableLabels == {"table", "automaton", "store_has_replacements"}

\* The fields a call has, by its operation.
LEMMA CallFields ==
  ASSUME NEW c \in AllCalls
  PROVE  /\ c.op = "register_lang" => c.lang \in Langs /\ c.map \in Maps \cup {BadMap}
         /\ c.op = "register_replacements" => c.new \in ReplacementTable
         /\ c.op = "remove_replacement" => c.key \in Keys
BY DEF AllCalls, RegisterLangCalls, RegisterReplacementsCalls, RemoveCalls,
       ClearCalls, SealCalls

\* Which operations a thread at a label can be executing.
CallInv ==
  \A t \in Threads :
    /\ pc[t] # "idle" => call[t] \in Calls
    /\ pc[t] \in LangLabels => call[t].op = "register_lang"
    /\ pc[t] \in {"insert", "store_has_langs"} => call[t].map # BadMap
    /\ pc[t] \in {"check_seal"} \cup TableLabels => call[t].op # "seal_registrations"
    /\ pc[t] \in TableLabels => call[t].op # "register_lang"

\* The part of the inductive invariant every other part needs.
TypeInv == TypeOK /\ CallInv

\* The initial tables, locks and calls have their types.
LEMMA TypeInit == Init => TypeInv
BY RegistrationAssumption, TablesAssumption DEF Init, TypeInv, TypeOK, CallInv, LangTable,
   ReplacementTable, NoLangs, NoReplacements, Labels, Results, LangLabels, TableLabels

\* Every step of a mutator keeps every variable in its type.
LEMMA TypeNext == TypeInv /\ [Next]_vars => TypeInv'
<1> SUFFICES ASSUME TypeInv, [Next]_vars PROVE TypeInv'
  OBVIOUS
<1> USE RegistrationAssumption, TablesAssumption
    DEF TypeInv, TypeOK, At, Goto, Reply, langVars, replacementVars, LangLabels,
        TableLabels, Labels, Results
<1>1. CASE UNCHANGED vars
  BY <1>1 DEF vars, threadVars, CallInv
<1>2. ASSUME NEW t \in Threads, Invoke(t) PROVE TypeInv'
  BY <1>2 DEF Invoke, CallInv
<1>3. ASSUME NEW t \in Threads, TakeGate(t) PROVE TypeInv'
  BY <1>3 DEF TakeGate, AfterGate, CallInv
<1>4. ASSUME NEW t \in Threads, Seal(t) PROVE TypeInv'
  BY <1>4 DEF Seal, CallInv
<1>5. ASSUME NEW t \in Threads, CheckSeal(t) PROVE TypeInv'
  BY <1>5 DEF CheckSeal, CallInv
<1>6. ASSUME NEW t \in Threads, CountLangs(t) PROVE TypeInv'
  BY <1>6 DEF CountLangs, CallInv
<1>7. ASSUME NEW t \in Threads, HasLang(t) PROVE TypeInv'
  BY <1>7 DEF HasLang, CallInv
<1>8. ASSUME NEW t \in Threads, ValidateKeys(t) PROVE TypeInv'
  BY <1>8 DEF ValidateKeys, CallInv
<1>9. ASSUME NEW t \in Threads, InsertLang(t) PROVE TypeInv'
  <2>1. call[t].lang \in Langs /\ call[t].map \in Maps
    BY <1>9, CallFields DEF InsertLang, CallInv
  <2> QED
    BY <1>9, <2>1 DEF InsertLang, CallInv, LangTable
<1>10. ASSUME NEW t \in Threads, StoreHasLangs(t) PROVE TypeInv'
  BY <1>10 DEF StoreHasLangs, CallInv
<1>11. ASSUME NEW t \in Threads, RegisterReplacements(t) PROVE TypeInv'
  <2>1. call[t].new \in ReplacementTable
    BY <1>11, CallFields DEF RegisterReplacements, CallInv
  <2>2. Extend(table, call[t].new) \in ReplacementTable
    BY <2>1 DEF Extend, ReplacementTable
  <2> QED
    BY <1>11, <2>2 DEF RegisterReplacements, MutateTable, CallInv
<1>12. ASSUME NEW t \in Threads, RemoveReplacement(t) PROVE TypeInv'
  <2>1. [table EXCEPT ![call[t].key] = Absent] \in ReplacementTable
    BY DEF ReplacementTable
  <2> QED
    BY <1>12, <2>1 DEF RemoveReplacement, MutateTable, CallInv
<1>13. ASSUME NEW t \in Threads, ClearReplacements(t) PROVE TypeInv'
  <2>1. NoReplacements \in ReplacementTable
    BY DEF ReplacementTable, NoReplacements
  <2> QED
    BY <1>13, <2>1 DEF ClearReplacements, MutateTable, CallInv
<1>14. ASSUME NEW t \in Threads, RebuildAutomaton(t) PROVE TypeInv'
  <2>1. BuildAutomaton(table) \in ReplacementTable
    BY DEF ReplacementTable, BuildAutomaton
  <2> QED
    BY <1>14, <2>1 DEF RebuildAutomaton, CallInv
<1>15. ASSUME NEW t \in Threads, BuildPanics(t) PROVE TypeInv'
  BY <1>15 DEF BuildPanics, CallInv
<1>16. ASSUME NEW t \in Threads, StoreHasReplacements(t) PROVE TypeInv'
  BY <1>16 DEF StoreHasReplacements, CallInv
<1>17. ASSUME NEW t \in Threads, ReleaseGate(t) PROVE TypeInv'
  BY <1>17 DEF ReleaseGate, CallInv
<1> QED
  BY <1>1, <1>2, <1>3, <1>4, <1>5, <1>6, <1>7, <1>8, <1>9, <1>10, <1>11, <1>12,
     <1>13, <1>14, <1>15, <1>16, <1>17 DEF Next, Progress

\* Every variable of every reachable state has its declared type.
THEOREM TypeCorrect == Spec => []TypeOK
<1>1. Init => TypeInv
  BY TypeInit
<1>2. TypeInv /\ [Next]_vars => TypeInv'
  BY TypeNext
<1>3. TypeInv => TypeOK
  BY DEF TypeInv
<1> QED
  BY <1>1, <1>2, <1>3, PTL DEF Spec

-----------------------------------------------------------------------------
\* A thread is past "gate" exactly when it holds the gate, and holds an inner
\* write lock exactly inside that lock's critical section.
LockInv ==
  \A t \in Threads :
    /\ pc[t] \notin {"idle", "gate"} <=> gate = t
    /\ langsLock = t <=> pc[t] = "store_has_langs"
    /\ tableLock = t <=> pc[t] \in {"automaton", "store_has_replacements"}

\* No step breaks the ownership of the gate or of an inner lock.
LEMMA LockNext == TypeInv /\ LockInv /\ [Next]_vars => LockInv'
<1> SUFFICES ASSUME TypeInv, LockInv, [Next]_vars PROVE LockInv'
  OBVIOUS
<1> USE RegistrationAssumption
    DEF TypeInv, TypeOK, LockInv, At, Goto, langVars, replacementVars, Labels
<1>1. CASE UNCHANGED vars
  BY <1>1 DEF vars, threadVars
<1>2. ASSUME NEW t \in Threads, Invoke(t) PROVE LockInv'
  BY <1>2 DEF Invoke
<1>3. ASSUME NEW t \in Threads, TakeGate(t) PROVE LockInv'
  BY <1>3 DEF TakeGate, AfterGate
<1>4. ASSUME NEW t \in Threads, Seal(t) PROVE LockInv'
  BY <1>4 DEF Seal
<1>5. ASSUME NEW t \in Threads, CheckSeal(t) PROVE LockInv'
  BY <1>5 DEF CheckSeal
<1>6. ASSUME NEW t \in Threads, CountLangs(t) PROVE LockInv'
  BY <1>6 DEF CountLangs
<1>7. ASSUME NEW t \in Threads, HasLang(t) PROVE LockInv'
  BY <1>7 DEF HasLang
<1>8. ASSUME NEW t \in Threads, ValidateKeys(t) PROVE LockInv'
  BY <1>8 DEF ValidateKeys
<1>9. ASSUME NEW t \in Threads, InsertLang(t) PROVE LockInv'
  BY <1>9 DEF InsertLang
<1>10. ASSUME NEW t \in Threads, StoreHasLangs(t) PROVE LockInv'
  BY <1>10 DEF StoreHasLangs
<1>11. ASSUME NEW t \in Threads, RegisterReplacements(t) PROVE LockInv'
  BY <1>11 DEF RegisterReplacements, MutateTable
<1>12. ASSUME NEW t \in Threads, RemoveReplacement(t) PROVE LockInv'
  BY <1>12 DEF RemoveReplacement, MutateTable
<1>13. ASSUME NEW t \in Threads, ClearReplacements(t) PROVE LockInv'
  BY <1>13 DEF ClearReplacements, MutateTable
<1>14. ASSUME NEW t \in Threads, RebuildAutomaton(t) PROVE LockInv'
  BY <1>14 DEF RebuildAutomaton
<1>15. ASSUME NEW t \in Threads, BuildPanics(t) PROVE LockInv'
  BY <1>15 DEF BuildPanics
<1>16. ASSUME NEW t \in Threads, StoreHasReplacements(t) PROVE LockInv'
  BY <1>16 DEF StoreHasReplacements
<1>17. ASSUME NEW t \in Threads, ReleaseGate(t) PROVE LockInv'
  BY <1>17 DEF ReleaseGate
<1> QED
  BY <1>1, <1>2, <1>3, <1>4, <1>5, <1>6, <1>7, <1>8, <1>9, <1>10, <1>11, <1>12, <1>13, <1>14,
     <1>15, <1>16, <1>17
  DEF Next, Progress

\* Once sealed, nobody is between its seal check and the end of its write.
SealInv ==
  sealed => \A t \in Threads :
              pc[t] \in {"idle", "gate", "check_seal", "seal", "release"}

\* Sealing waits for the mutation in progress, and later calls stop at the check.
LEMMA SealNext == TypeInv /\ LockInv /\ SealInv /\ [Next]_vars => SealInv'
<1> SUFFICES ASSUME TypeInv /\ LockInv, SealInv, [Next]_vars PROVE SealInv'
  OBVIOUS
<1> USE RegistrationAssumption
    DEF TypeInv, TypeOK, LockInv, SealInv, At, Goto, langVars, replacementVars, Labels
<1>1. CASE UNCHANGED vars
  BY <1>1 DEF vars, threadVars
<1>2. ASSUME NEW t \in Threads, Invoke(t) PROVE SealInv'
  BY <1>2 DEF Invoke
<1>3. ASSUME NEW t \in Threads, TakeGate(t) PROVE SealInv'
  BY <1>3 DEF TakeGate, AfterGate
<1>4. ASSUME NEW t \in Threads, Seal(t) PROVE SealInv'
  BY <1>4 DEF Seal
<1>5. ASSUME NEW t \in Threads, CheckSeal(t) PROVE SealInv'
  BY <1>5 DEF CheckSeal
<1>6. ASSUME NEW t \in Threads, CountLangs(t) PROVE SealInv'
  BY <1>6 DEF CountLangs
<1>7. ASSUME NEW t \in Threads, HasLang(t) PROVE SealInv'
  BY <1>7 DEF HasLang
<1>8. ASSUME NEW t \in Threads, ValidateKeys(t) PROVE SealInv'
  BY <1>8 DEF ValidateKeys
<1>9. ASSUME NEW t \in Threads, InsertLang(t) PROVE SealInv'
  BY <1>9 DEF InsertLang
<1>10. ASSUME NEW t \in Threads, StoreHasLangs(t) PROVE SealInv'
  BY <1>10 DEF StoreHasLangs
<1>11. ASSUME NEW t \in Threads, RegisterReplacements(t) PROVE SealInv'
  BY <1>11 DEF RegisterReplacements, MutateTable
<1>12. ASSUME NEW t \in Threads, RemoveReplacement(t) PROVE SealInv'
  BY <1>12 DEF RemoveReplacement, MutateTable
<1>13. ASSUME NEW t \in Threads, ClearReplacements(t) PROVE SealInv'
  BY <1>13 DEF ClearReplacements, MutateTable
<1>14. ASSUME NEW t \in Threads, RebuildAutomaton(t) PROVE SealInv'
  BY <1>14 DEF RebuildAutomaton
<1>15. ASSUME NEW t \in Threads, BuildPanics(t) PROVE SealInv'
  BY <1>15 DEF BuildPanics
<1>16. ASSUME NEW t \in Threads, StoreHasReplacements(t) PROVE SealInv'
  BY <1>16 DEF StoreHasReplacements
<1>17. ASSUME NEW t \in Threads, ReleaseGate(t) PROVE SealInv'
  BY <1>17 DEF ReleaseGate
<1> QED
  BY <1>1, <1>2, <1>3, <1>4, <1>5, <1>6, <1>7, <1>8, <1>9, <1>10, <1>11, <1>12, <1>13, <1>14,
     <1>15, <1>16, <1>17
  DEF Next, Progress

\* After the seal no table, automaton or flag changes: the mutation a call was
\* in the middle of had to finish before the latch could be set.
THEOREM SealedIsFrozen == Spec => Frozen
<1>1. Init => TypeInv /\ LockInv /\ SealInv
  BY TypeInit, RegistrationAssumption DEF Init, LockInv, SealInv
<1>2. TypeInv /\ LockInv /\ SealInv /\ [Next]_vars => (TypeInv /\ LockInv /\ SealInv)'
  BY TypeNext, LockNext, SealNext
<1>3. TypeInv /\ SealInv /\ [Next]_vars => [sealed => UNCHANGED tables]_vars
  <2> SUFFICES ASSUME TypeInv, SealInv, Next, sealed PROVE UNCHANGED tables
    BY DEF vars
  <2> USE DEF SealInv, At, Goto, tables, langVars, replacementVars
  <2>1. PICK t \in Threads : Invoke(t) \/ Progress(t)
    BY DEF Next
  <2>2. CASE Invoke(t) \/ TakeGate(t) \/ Seal(t) \/ CheckSeal(t) \/ ReleaseGate(t)
    BY <2>2 DEF Invoke, TakeGate, Seal, CheckSeal, ReleaseGate
  <2>3. CASE CountLangs(t) \/ HasLang(t) \/ ValidateKeys(t) \/ InsertLang(t)
             \/ StoreHasLangs(t)
    BY <2>3 DEF CountLangs, HasLang, ValidateKeys, InsertLang, StoreHasLangs
  <2>4. CASE RegisterReplacements(t) \/ RemoveReplacement(t) \/ ClearReplacements(t)
             \/ RebuildAutomaton(t) \/ BuildPanics(t) \/ StoreHasReplacements(t)
    BY <2>4 DEF RegisterReplacements, RemoveReplacement, ClearReplacements,
       RebuildAutomaton, BuildPanics, StoreHasReplacements
  <2> QED
    BY <2>1, <2>2, <2>3, <2>4 DEF Progress
<1> QED
  BY <1>1, <1>2, <1>3, PTL DEF Spec, Frozen

-----------------------------------------------------------------------------
\* Writing one language grows the table by that language at most.
LEMMA RegisteredInsert ==
  ASSUME NEW l \in Langs, NEW m \in Maps, langs \in LangTable
  PROVE  LET new == [langs EXCEPT ![l] = m] IN
         /\ Cardinality(Registered(new)) \in Nat
         /\ l \in Registered(langs) =>
              Cardinality(Registered(new)) = Cardinality(Registered(langs))
         /\ Cardinality(Registered(new)) <= Cardinality(Registered(langs)) + 1
<1> DEFINE new == [langs EXCEPT ![l] = m]
<1>1. Registered(new) = Registered(langs) \cup {l}
  BY TablesAssumption DEF Registered, LangTable
<1>2. IsFiniteSet(Registered(langs)) /\ Cardinality(Registered(langs)) \in Nat
  BY TablesAssumption, FS_Subset, FS_CardinalityType DEF Registered
<1>3. Cardinality(Registered(new)) =
        IF l \in Registered(langs) THEN Cardinality(Registered(langs))
                                   ELSE Cardinality(Registered(langs)) + 1
  BY <1>1, <1>2, FS_AddElement, Zenon
<1> QED
  BY <1>2, <1>3

\* The number of registered languages is a natural number.
LEMMA RegisteredFinite == Cardinality(Registered(langs)) \in Nat
BY TablesAssumption, FS_Subset, FS_CardinalityType DEF Registered

\* A thread about to insert has room for its language, or overwrites it.
RoomInv ==
  /\ LangCapRespected
  /\ \A t \in Threads :
       pc[t] \in {"validate", "insert"} =>
         \/ call[t].lang \in Registered(langs)
         \/ Cardinality(Registered(langs)) < MAX_REGISTERED_LANGS

\* The room a thread found is still there when it inserts: the gate is held throughout.
LEMMA RoomNext == TypeInv /\ LockInv /\ RoomInv /\ [Next]_vars => RoomInv'
<1> SUFFICES ASSUME TypeInv /\ LockInv, RoomInv, [Next]_vars PROVE RoomInv'
  OBVIOUS
<1> USE RegistrationAssumption, TablesAssumption
    DEF TypeInv, TypeOK, LockInv, RoomInv, LangCapRespected, At, Goto, langVars,
        replacementVars, Labels
<1>1. CASE UNCHANGED vars
  BY <1>1 DEF vars, threadVars
<1>2. ASSUME NEW t \in Threads, Invoke(t) PROVE RoomInv'
  BY <1>2 DEF Invoke
<1>3. ASSUME NEW t \in Threads, TakeGate(t) PROVE RoomInv'
  BY <1>3 DEF TakeGate, AfterGate
<1>4. ASSUME NEW t \in Threads, Seal(t) PROVE RoomInv'
  BY <1>4 DEF Seal
<1>5. ASSUME NEW t \in Threads, CheckSeal(t) PROVE RoomInv'
  BY <1>5 DEF CheckSeal
<1>6. ASSUME NEW t \in Threads, CountLangs(t) PROVE RoomInv'
  BY <1>6, RegisteredFinite DEF CountLangs
<1>7. ASSUME NEW t \in Threads, HasLang(t) PROVE RoomInv'
  BY <1>7 DEF HasLang
<1>8. ASSUME NEW t \in Threads, ValidateKeys(t) PROVE RoomInv'
  BY <1>8 DEF ValidateKeys
<1>9. ASSUME NEW t \in Threads, InsertLang(t) PROVE RoomInv'
  <2>1. call[t].lang \in Langs /\ call[t].map \in Maps
    BY <1>9, CallFields DEF InsertLang, CallInv, LangLabels
  <2>2. Cardinality(Registered(langs')) <= MAX_REGISTERED_LANGS
    <3>1. langs' = [langs EXCEPT ![call[t].lang] = call[t].map]
      BY <1>9 DEF InsertLang
    <3>2. /\ Cardinality(Registered(langs')) \in Nat
          /\ call[t].lang \in Registered(langs) =>
               Cardinality(Registered(langs')) = Cardinality(Registered(langs))
          /\ Cardinality(Registered(langs')) <= Cardinality(Registered(langs)) + 1
      BY <2>1, <3>1, RegisteredInsert
    <3>3. \/ call[t].lang \in Registered(langs)
          \/ Cardinality(Registered(langs)) < MAX_REGISTERED_LANGS
      BY <1>9 DEF InsertLang
    <3> QED
      BY <3>2, <3>3, RegisteredFinite
  <2>3. \A u \in Threads : pc'[u] \notin {"validate", "insert"}
    BY <1>9 DEF InsertLang
  <2> QED
    BY <2>2, <2>3
<1>10. ASSUME NEW t \in Threads, StoreHasLangs(t) PROVE RoomInv'
  BY <1>10 DEF StoreHasLangs
<1>11. ASSUME NEW t \in Threads, RegisterReplacements(t) PROVE RoomInv'
  BY <1>11 DEF RegisterReplacements, MutateTable
<1>12. ASSUME NEW t \in Threads, RemoveReplacement(t) PROVE RoomInv'
  BY <1>12 DEF RemoveReplacement, MutateTable
<1>13. ASSUME NEW t \in Threads, ClearReplacements(t) PROVE RoomInv'
  BY <1>13 DEF ClearReplacements, MutateTable
<1>14. ASSUME NEW t \in Threads, RebuildAutomaton(t) PROVE RoomInv'
  BY <1>14 DEF RebuildAutomaton
<1>15. ASSUME NEW t \in Threads, BuildPanics(t) PROVE RoomInv'
  BY <1>15 DEF BuildPanics
<1>16. ASSUME NEW t \in Threads, StoreHasReplacements(t) PROVE RoomInv'
  BY <1>16 DEF StoreHasReplacements
<1>17. ASSUME NEW t \in Threads, ReleaseGate(t) PROVE RoomInv'
  BY <1>17 DEF ReleaseGate
<1> QED
  BY <1>1, <1>2, <1>3, <1>4, <1>5, <1>6, <1>7, <1>8, <1>9, <1>10, <1>11, <1>12, <1>13, <1>14,
     <1>15, <1>16, <1>17
  DEF Next, Progress

\* With no language registered there is room.
LEMMA RoomInit == Init => RoomInv
<1> SUFFICES ASSUME Init PROVE RoomInv
  OBVIOUS
<1>1. Registered(langs) = {}
  BY DEF Init, NoLangs, Registered
<1>2. Cardinality(Registered(langs)) = 0
  BY <1>1, FS_EmptySet
<1>3. LangCapRespected
  BY <1>2, TablesAssumption DEF LangCapRespected
<1> QED
  BY <1>3 DEF Init, RoomInv

\* Racing registrations never hold more languages than the limit.
THEOREM LangCap == Spec => []LangCapRespected
<1>1. Init => TypeInv /\ LockInv /\ RoomInv
  BY TypeInit, RoomInit, RegistrationAssumption DEF Init, LockInv
<1>2. TypeInv /\ LockInv /\ RoomInv /\ [Next]_vars => (TypeInv /\ LockInv /\ RoomInv)'
  BY TypeNext, LockNext, RoomNext
<1>3. RoomInv => LangCapRespected
  BY DEF RoomInv
<1> QED
  BY <1>1, <1>2, <1>3, PTL DEF Spec

-----------------------------------------------------------------------------
\* Any set of entries is finite.
LEMMA EntriesFinite ==
  ASSUME NEW f
  PROVE  IsFiniteSet(Entries(f)) /\ Cardinality(Entries(f)) \in Nat
BY TablesAssumption, FS_Subset, FS_CardinalityType DEF Entries

\* The projected size is the exact size after the merge.
LEMMA ProjectedIsExact ==
  ASSUME NEW new \in ReplacementTable, NEW old \in ReplacementTable
  PROVE  Cardinality(Entries(Extend(old, new))) = Projected(old, new)
<1> DEFINE added == Entries(new) \ Entries(old)
<1>1. Entries(Extend(old, new)) = Entries(old) \cup added
  BY DEF Entries, Extend
<1>2. IsFiniteSet(added) /\ Cardinality(added) \in Nat
  BY EntriesFinite, FS_Difference, FS_CardinalityType
<1>3. Cardinality(Entries(old) \cap added) = 0
  <2>1. Entries(old) \cap added = {}
    OBVIOUS
  <2> QED
    BY <2>1, FS_EmptySet
<1>4. Cardinality(Entries(old) \cup added) =
        Cardinality(Entries(old)) + Cardinality(added) - Cardinality(Entries(old) \cap added)
  BY <1>2, EntriesFinite, FS_Union, Zenon
<1> QED
  BY <1>1, <1>2, <1>3, <1>4, EntriesFinite DEF Projected

\* Racing registrations never push the replacement table over its limit.
THEOREM ReplacementCap == Spec => []ReplacementCapRespected
<1>1. Init => TypeInv /\ ReplacementCapRespected
  <2>1. ASSUME Init PROVE Entries(table) = {}
    BY <2>1 DEF Init, NoReplacements, Entries
  <2> QED
    BY <2>1, TypeInit, TablesAssumption, FS_EmptySet DEF ReplacementCapRespected
<1>2. TypeInv /\ ReplacementCapRespected /\ [Next]_vars => ReplacementCapRespected'
  <2> SUFFICES ASSUME TypeInv, ReplacementCapRespected, [Next]_vars
               PROVE  ReplacementCapRespected'
    OBVIOUS
  <2> USE DEF ReplacementCapRespected, langVars, replacementVars
  <2>1. CASE table' = table
    BY <2>1 DEF Entries
  <2>2. ASSUME NEW t \in Threads, RegisterReplacements(t), table' # table
        PROVE  ReplacementCapRespected'
    <3>1. call[t].new \in ReplacementTable /\ table \in ReplacementTable
      BY <2>2, CallFields, RegistrationAssumption
      DEF RegisterReplacements, TypeInv, TypeOK, CallInv, At
    <3>2. /\ Projected(table, call[t].new) <= MAX_REPLACEMENTS
          /\ table' = Extend(table, call[t].new)
      BY <2>2 DEF RegisterReplacements, MutateTable
    <3> QED
      BY <3>1, <3>2, ProjectedIsExact
  <2>3. ASSUME NEW t \in Threads, RemoveReplacement(t) PROVE ReplacementCapRespected'
    <3>1. Entries(table') \in SUBSET Entries(table)
      BY <2>3 DEF RemoveReplacement, MutateTable, Entries, TypeInv, TypeOK, ReplacementTable
    <3>2. Cardinality(Entries(table')) <= Cardinality(Entries(table))
      BY <3>1, EntriesFinite, FS_Subset
    <3> QED
      BY <3>2, EntriesFinite, TablesAssumption
  <2>4. ASSUME NEW t \in Threads, ClearReplacements(t) PROVE ReplacementCapRespected'
    <3>1. Entries(table') = {}
      BY <2>4 DEF ClearReplacements, MutateTable, Entries, NoReplacements
    <3> QED
      BY <3>1, FS_EmptySet, TablesAssumption
  <2>5. CASE UNCHANGED vars
    BY <2>1, <2>5 DEF vars
  <2> QED
    BY <2>1, <2>2, <2>3, <2>4, <2>5
    DEF Next, Progress, Invoke, TakeGate, Seal, CheckSeal, CountLangs, HasLang,
        ValidateKeys, InsertLang, StoreHasLangs, RebuildAutomaton, BuildPanics,
        StoreHasReplacements, ReleaseGate
<1> QED
  BY <1>1, <1>2, TypeNext, PTL DEF Spec

-----------------------------------------------------------------------------
\* What agrees with the tables while a mutation is part-way.
SyncInv ==
  /\ (\A t \in Threads : pc[t] # "store_has_langs") =>
       hasLangs = (Registered(langs) # {})
  /\ (\A t \in Threads : pc[t] \notin {"automaton", "store_has_replacements"}) =>
       torn \/ /\ automaton = BuildAutomaton(table)
               /\ hasReplacements = (Entries(table) # {})
  /\ \A t \in Threads :
       /\ pc[t] = "store_has_replacements" => automaton = BuildAutomaton(table)
       /\ pc[t] \in {"automaton", "store_has_replacements"}
            /\ call[t].op = "clear_replacements" => Entries(table) = {}

\* A mutation brings automaton and flags back in step before it lets the table go.
LEMMA SyncNext == TypeInv /\ LockInv /\ SyncInv /\ [Next]_vars => SyncInv'
<1> SUFFICES ASSUME TypeInv /\ LockInv, SyncInv, [Next]_vars PROVE SyncInv'
  OBVIOUS
<1> USE RegistrationAssumption, TablesAssumption
    DEF TypeInv, TypeOK, LockInv, SyncInv, At, Goto, langVars, replacementVars, Labels
<1>1. CASE UNCHANGED vars
  BY <1>1 DEF vars, threadVars
<1>2. ASSUME NEW t \in Threads, Invoke(t) PROVE SyncInv'
  BY <1>2 DEF Invoke
<1>3. ASSUME NEW t \in Threads, TakeGate(t) PROVE SyncInv'
  BY <1>3 DEF TakeGate, AfterGate
<1>4. ASSUME NEW t \in Threads, Seal(t) PROVE SyncInv'
  BY <1>4 DEF Seal
<1>5. ASSUME NEW t \in Threads, CheckSeal(t) PROVE SyncInv'
  BY <1>5 DEF CheckSeal
<1>6. ASSUME NEW t \in Threads, CountLangs(t) PROVE SyncInv'
  BY <1>6 DEF CountLangs
<1>7. ASSUME NEW t \in Threads, HasLang(t) PROVE SyncInv'
  BY <1>7 DEF HasLang
<1>8. ASSUME NEW t \in Threads, ValidateKeys(t) PROVE SyncInv'
  BY <1>8 DEF ValidateKeys
<1>9. ASSUME NEW t \in Threads, InsertLang(t) PROVE SyncInv'
  BY <1>9 DEF InsertLang
<1>10. ASSUME NEW t \in Threads, StoreHasLangs(t) PROVE SyncInv'
  BY <1>10 DEF StoreHasLangs
<1>11. ASSUME NEW t \in Threads, RegisterReplacements(t) PROVE SyncInv'
  BY <1>11 DEF RegisterReplacements, MutateTable
<1>12. ASSUME NEW t \in Threads, RemoveReplacement(t) PROVE SyncInv'
  BY <1>12 DEF RemoveReplacement, MutateTable
<1>13. ASSUME NEW t \in Threads, ClearReplacements(t) PROVE SyncInv'
  <2>1. Entries(table') = {}
    BY <1>13 DEF ClearReplacements, MutateTable, Entries, NoReplacements
  <2> QED
    BY <1>13, <2>1 DEF ClearReplacements, MutateTable
<1>14. ASSUME NEW t \in Threads, RebuildAutomaton(t) PROVE SyncInv'
  BY <1>14 DEF RebuildAutomaton
<1>15. ASSUME NEW t \in Threads, BuildPanics(t) PROVE SyncInv'
  BY <1>15 DEF BuildPanics
<1>16. ASSUME NEW t \in Threads, StoreHasReplacements(t) PROVE SyncInv'
  BY <1>16 DEF StoreHasReplacements
<1>17. ASSUME NEW t \in Threads, ReleaseGate(t) PROVE SyncInv'
  BY <1>17 DEF ReleaseGate
<1> QED
  BY <1>1, <1>2, <1>3, <1>4, <1>5, <1>6, <1>7, <1>8, <1>9, <1>10, <1>11, <1>12, <1>13, <1>14,
     <1>15, <1>16, <1>17
  DEF Next, Progress

\* With no call inside the gate, automaton and flags agree with the tables.
THEOREM QuiescentSync == Spec => []QuiescentInSync
<1>1. Init => TypeInv /\ LockInv /\ SyncInv
  <2> SUFFICES ASSUME Init PROVE LockInv /\ SyncInv
    BY TypeInit
  <2>1. LockInv
    BY RegistrationAssumption DEF Init, LockInv
  <2>2. \A t \in Threads : pc[t] = "idle"
    BY DEF Init
  <2>3. hasLangs = (Registered(langs) # {})
    BY DEF Init, NoLangs, Registered
  <2>4. automaton = BuildAutomaton(table) /\ hasReplacements = (Entries(table) # {})
    BY DEF Init, NoReplacements, Entries, BuildAutomaton
  <2>5. SyncInv
    BY <2>2, <2>3, <2>4 DEF SyncInv
  <2> QED
    BY <2>1, <2>5
<1>2. TypeInv /\ LockInv /\ SyncInv /\ [Next]_vars => (TypeInv /\ LockInv /\ SyncInv)'
  BY TypeNext, LockNext, SyncNext
<1>3. TypeInv /\ LockInv /\ SyncInv => QuiescentInSync
  BY RegistrationAssumption DEF LockInv, SyncInv, QuiescentInSync
<1> QED
  BY <1>1, <1>2, <1>3, PTL DEF Spec

\* Registrations that race for the last place of either table never pass its limit.
THEOREM Caps == Spec => []CapsRespected
<1>1. LangCapRespected /\ ReplacementCapRespected => CapsRespected
  BY DEF CapsRespected
<1> QED
  BY <1>1, LangCap, ReplacementCap, PTL

-----------------------------------------------------------------------------
\* A thread on its way to asking for its language found the table full; and only
\* a call that seals is about to.
LimitInv ==
  \A t \in Threads :
    /\ pc[t] = "has_lang" => Cardinality(Registered(langs)) >= MAX_REGISTERED_LANGS
    /\ pc[t] = "seal" => call[t].op = "seal_registrations"

\* The table stays as full while the gate is held.
LEMMA LimitNext == TypeInv /\ LockInv /\ LimitInv /\ [Next]_vars => LimitInv'
<1> SUFFICES ASSUME TypeInv /\ LockInv, LimitInv, [Next]_vars PROVE LimitInv'
  OBVIOUS
<1> USE RegistrationAssumption, TablesAssumption
    DEF TypeInv, TypeOK, LockInv, LimitInv, At, Goto, langVars, replacementVars, Labels
<1>1. CASE UNCHANGED vars
  BY <1>1 DEF vars, threadVars
<1>2. ASSUME NEW t \in Threads, Invoke(t) PROVE LimitInv'
  BY <1>2 DEF Invoke
<1>3. ASSUME NEW t \in Threads, TakeGate(t) PROVE LimitInv'
  BY <1>3 DEF TakeGate, AfterGate
<1>4. ASSUME NEW t \in Threads, Seal(t) PROVE LimitInv'
  BY <1>4 DEF Seal
<1>5. ASSUME NEW t \in Threads, CheckSeal(t) PROVE LimitInv'
  BY <1>5 DEF CheckSeal
<1>6. ASSUME NEW t \in Threads, CountLangs(t) PROVE LimitInv'
  BY <1>6, RegisteredFinite DEF CountLangs
<1>7. ASSUME NEW t \in Threads, HasLang(t) PROVE LimitInv'
  BY <1>7 DEF HasLang
<1>8. ASSUME NEW t \in Threads, ValidateKeys(t) PROVE LimitInv'
  BY <1>8 DEF ValidateKeys
<1>9. ASSUME NEW t \in Threads, InsertLang(t) PROVE LimitInv'
  BY <1>9 DEF InsertLang
<1>10. ASSUME NEW t \in Threads, StoreHasLangs(t) PROVE LimitInv'
  BY <1>10 DEF StoreHasLangs
<1>11. ASSUME NEW t \in Threads, RegisterReplacements(t) PROVE LimitInv'
  BY <1>11 DEF RegisterReplacements, MutateTable
<1>12. ASSUME NEW t \in Threads, RemoveReplacement(t) PROVE LimitInv'
  BY <1>12 DEF RemoveReplacement, MutateTable
<1>13. ASSUME NEW t \in Threads, ClearReplacements(t) PROVE LimitInv'
  BY <1>13 DEF ClearReplacements, MutateTable
<1>14. ASSUME NEW t \in Threads, RebuildAutomaton(t) PROVE LimitInv'
  BY <1>14 DEF RebuildAutomaton
<1>15. ASSUME NEW t \in Threads, BuildPanics(t) PROVE LimitInv'
  BY <1>15 DEF BuildPanics
<1>16. ASSUME NEW t \in Threads, StoreHasReplacements(t) PROVE LimitInv'
  BY <1>16 DEF StoreHasReplacements
<1>17. ASSUME NEW t \in Threads, ReleaseGate(t) PROVE LimitInv'
  BY <1>17 DEF ReleaseGate
<1> QED
  BY <1>1, <1>2, <1>3, <1>4, <1>5, <1>6, <1>7, <1>8, <1>9, <1>10, <1>11, <1>12, <1>13, <1>14,
     <1>15, <1>16, <1>17
  DEF Next, Progress

\* The operators of RegistrationTables as the instance names them.
LEMMA AtomicTables ==
  /\ \A f : Atomic!Registered(f) = Registered(f)
  /\ \A S : Atomic!Cardinality(S) = Cardinality(S)
  /\ \A f : Atomic!Entries(f) = Entries(f)
  /\ \A f, g : Atomic!Extend(f, g) = Extend(f, g)
  /\ \A f, g : Atomic!Projected(f, g) = Projected(f, g)
  /\ Atomic!NoLangs = NoLangs
      /\ Atomic!NoReplacements = NoReplacements /\ Atomic!NoCall = NoCall
<1>1. \A S : Atomic!Cardinality(S) = Cardinality(S)
  BY DEF Atomic!Cardinality, Cardinality
<1>2. /\ \A f : Atomic!Registered(f) = Registered(f)
      /\ \A f : Atomic!Entries(f) = Entries(f)
      /\ \A f, g : Atomic!Extend(f, g) = Extend(f, g)
      /\ Atomic!NoLangs = NoLangs
      /\ Atomic!NoReplacements = NoReplacements /\ Atomic!NoCall = NoCall
  BY DEF Atomic!Registered, Registered, Atomic!Entries, Entries, Atomic!Extend, Extend,
     Atomic!NoLangs, NoLangs,
     Atomic!NoReplacements, NoReplacements, Atomic!NoCall, NoCall
<1>3. \A f, g : Atomic!Projected(f, g) = Projected(f, g)
  BY <1>1, <1>2 DEF Atomic!Projected, Projected
<1> QED
  BY <1>1, <1>2, <1>3

\* Where a thread at a label is in its call.
StatusAt(label) ==
  CASE label = "idle" -> "idle"
    [] label \in {"gate", "check_seal", "seal", "count", "has_lang",
                  "validate", "insert", "table"} -> "pending"
    [] OTHER -> "done"

\* The status of every call, as the abstract specification keeps it.
StatusMap == [t \in Threads |-> Status(t)]

\* A step of one thread moves the status of its own call only.
LEMMA StatusStep ==
  ASSUME TypeOK, NEW t \in Threads, NEW label \in Labels, Goto(t, label)
  PROVE  /\ StatusMap' = [StatusMap EXCEPT ![t] = StatusAt(label)]
         /\ StatusMap[t] = StatusAt(pc[t])
BY DEF TypeOK, Goto, StatusMap, Status, StatusAt, Labels

\* What a step must find to be a step of the abstract specification.
AtomicInv == TypeInv /\ LockInv /\ SealInv /\ RoomInv /\ LimitInv

\* With no call made both specifications start alike.
LEMMA AtomicInit == Init => Atomic!Init
<1> SUFFICES ASSUME Init PROVE Atomic!Init
  OBVIOUS
<1>1. StatusMap = [t \in Threads |-> "idle"]
  BY DEF Init, StatusMap, Status
<1> QED
  BY <1>1, AtomicTables DEF Init, Atomic!Init, StatusMap

\* Every step of a mutator is a step of the abstract specification or none.
LEMMA AtomicStep == AtomicInv /\ [Next]_vars => [Atomic!Next]_(Atomic!vars)
<1> SUFFICES ASSUME AtomicInv, [Next]_vars PROVE [Atomic!Next]_(Atomic!vars)
  OBVIOUS
<1> DEFINE Kept == /\ UNCHANGED <<sealed, langs, table, call, result>>
                   /\ StatusMap' = StatusMap
           Stutter == Atomic!Next \/ Kept
<1>0. ASSUME NEW t \in Threads, NEW label \in Labels, Goto(t, label)
      PROVE  /\ StatusMap' = [StatusMap EXCEPT ![t] = StatusAt(label)]
             /\ StatusMap[t] = StatusAt(pc[t])
             /\ StatusAt(label) = StatusAt(pc[t]) => StatusMap' = StatusMap
  BY <1>0, StatusStep DEF AtomicInv, TypeInv, StatusMap
<1> USE DEF At, langVars, replacementVars, Labels, StatusAt
<1>1. ASSUME UNCHANGED vars PROVE Kept
  BY <1>1 DEF vars, threadVars, StatusMap, Status
<1>2. ASSUME NEW t \in Threads, Invoke(t) PROVE Atomic!Invoke(t)
  BY <1>0, <1>2 DEF Invoke, Atomic!Invoke, StatusMap
<1>3. ASSUME NEW t \in Threads, TakeGate(t) PROVE Kept
  BY <1>0, <1>3 DEF TakeGate, AfterGate
<1>4. ASSUME NEW t \in Threads, Seal(t) PROVE Atomic!Seal(t)
  BY <1>0, <1>4 DEF Seal, Reply, Atomic!Seal, Atomic!Answer, StatusMap, AtomicInv, LimitInv
<1>5. ASSUME NEW t \in Threads, CheckSeal(t) PROVE Atomic!Refuse(t) \/ Kept
  BY <1>0, <1>5 DEF CheckSeal, Reply, Atomic!Refuse, Atomic!Answer, StatusMap, AtomicInv, TypeInv,
     CallInv
<1>6. ASSUME NEW t \in Threads, CountLangs(t) PROVE Kept
  BY <1>0, <1>6 DEF CountLangs
<1>7. ASSUME NEW t \in Threads, HasLang(t) PROVE Atomic!RegisterLang(t) \/ Kept
  BY <1>0, <1>7, AtomicTables DEF HasLang, Reply, Atomic!RegisterLang, Atomic!OverLangLimit,
     Atomic!Answer, StatusMap, AtomicInv, LimitInv, SealInv, TypeInv, CallInv, LangLabels
<1>8. ASSUME NEW t \in Threads, pc[t] \in {"validate", "insert"}
       PROVE  ~sealed /\ call[t].op = "register_lang" /\ ~Atomic!OverLangLimit(call[t].lang)
  <2>1. Cardinality(Registered(langs)) < MAX_REGISTERED_LANGS
          => ~(Cardinality(Registered(langs)) >= MAX_REGISTERED_LANGS)
    BY RegisteredFinite, TablesAssumption
  <2> QED
    BY <1>8, <2>1, AtomicTables DEF Atomic!OverLangLimit, AtomicInv, RoomInv, SealInv, TypeInv,
       CallInv, LangLabels
<1>9. ASSUME NEW t \in Threads, ValidateKeys(t) PROVE Atomic!RegisterLang(t) \/ Kept
  BY <1>0, <1>8, <1>9, AtomicTables DEF ValidateKeys, Reply, Atomic!RegisterLang, Atomic!Answer,
     StatusMap
<1>19. ASSUME NEW t \in Threads, InsertLang(t) PROVE Atomic!RegisterLang(t)
  BY <1>0, <1>8, <1>19, AtomicTables DEF InsertLang, Reply, Atomic!RegisterLang, Atomic!Answer,
     StatusMap,
     AtomicInv, TypeInv, CallInv
<1>10. ASSUME NEW t \in Threads, StoreHasLangs(t) PROVE Kept
  BY <1>0, <1>10 DEF StoreHasLangs
<1>11. ASSUME NEW t \in Threads, RegisterReplacements(t) PROVE Atomic!RegisterReplacements(t)
  BY <1>0, <1>11, AtomicTables DEF RegisterReplacements, MutateTable, Reply,
     Atomic!RegisterReplacements,
     Atomic!Answer, StatusMap, AtomicInv, SealInv
<1>12. ASSUME NEW t \in Threads, RemoveReplacement(t) PROVE Atomic!RemoveReplacement(t)
  BY <1>0, <1>12, AtomicTables DEF RemoveReplacement, MutateTable, Reply, Atomic!RemoveReplacement,
     Atomic!Answer, StatusMap, AtomicInv, SealInv
<1>13. ASSUME NEW t \in Threads, ClearReplacements(t) PROVE Atomic!ClearReplacements(t)
  BY <1>0, <1>13, AtomicTables DEF ClearReplacements, MutateTable, Reply, Atomic!ClearReplacements,
     Atomic!Answer, StatusMap, AtomicInv, SealInv
<1>14. ASSUME NEW t \in Threads, RebuildAutomaton(t) PROVE Kept
  BY <1>0, <1>14 DEF RebuildAutomaton
<1>15. ASSUME NEW t \in Threads, BuildPanics(t) PROVE Atomic!Panic(t)
  BY <1>0, <1>15 DEF BuildPanics, Reply, Atomic!Panic, StatusMap
<1>16. ASSUME NEW t \in Threads, StoreHasReplacements(t) PROVE Kept
  BY <1>0, <1>16 DEF StoreHasReplacements
<1>17. ASSUME NEW t \in Threads, ReleaseGate(t) PROVE Atomic!Return(t)
  BY <1>0, <1>17, AtomicTables DEF ReleaseGate, Reply, Atomic!Return, StatusMap
<1>18. Kept => UNCHANGED Atomic!vars
  BY DEF Atomic!vars, StatusMap
<1> HIDE DEF Kept
<1> QED
  BY <1>1, <1>2, <1>3, <1>4, <1>5, <1>6, <1>7, <1>8, <1>9, <1>10, <1>11, <1>12, <1>13, <1>14,
     <1>15, <1>16, <1>17, <1>18, <1>19
  DEF Next, Progress, Atomic!Next
\* Registration implements AtomicRegistration: with its locks, flags, automaton
\* and interleavings, every call takes effect at one instant between invocation
\* and return, with the answer of that instant (transliterate.rs, the mutators).
THEOREM RegistrationIsAtomic == Spec => ImplementsAtomic
<1>1. Init => AtomicInv
  <2>1. Init => TypeInv /\ LockInv /\ SealInv /\ LimitInv
    BY TypeInit, RegistrationAssumption DEF Init, LockInv, SealInv, LimitInv
  <2>2. Init => RoomInv
    BY RoomInit
  <2> QED
    BY <2>1, <2>2 DEF AtomicInv
<1>2. AtomicInv /\ [Next]_vars => AtomicInv'
  BY TypeNext, LockNext, SealNext, RoomNext, LimitNext DEF AtomicInv
<1> QED
  BY <1>1, <1>2, AtomicInit, AtomicStep, PTL DEF Spec, ImplementsAtomic, Atomic!Spec
=============================================================================
