---------------------------- MODULE CallsProofs -----------------------------
(***************************************************************************)
(* Proofs about TransliterateCalls for every set of mutators, readers and  *)
(* languages, every table and every limit.  A reader takes no gate, so     *)
(* what it finds in the derived automaton and the flags is related to what *)
(* mutators have finished: unless a mutator is between its table and its   *)
(* flag, both are those of the last settled table, which is the table      *)
(* unless a panic has torn it (SettledInv).  From there a load finds what  *)
(* is settled or what is there (LoadedTables), a mutator's step adds what  *)
(* it writes to the window of every read under way (WindowInv), no step    *)
(* takes a language or the raised flag back (ValidInv), and under the seal *)
(* no step changes the table (SealedReadInv).                              *)
(***************************************************************************)
EXTENDS TransliterateCalls, RegistrationProofs

\* Where a reader has its item's replacements and looks for its language.
Looking == {"lookup", "read_lang", "looked"}

\* The readers and the history have their types, and a call has a language.
ReadersInv ==
  /\ rpc \in [Readers -> ReaderLabels]
  /\ lang \in [Readers -> Langs \cup {NoMap}]
  /\ prepass \in [Readers -> ReplacementTable]
  /\ seen \in [Readers -> Maps \cup {NoMap}]
  /\ settledTable \in ReplacementTable /\ settledLangs \in LangTable
  /\ window \in [Readers -> SUBSET ReplacementTable]
  /\ mapWindow \in [Readers -> SUBSET (Maps \cup {NoMap})]
  /\ sinceSeal \in [Readers -> BOOLEAN]
  /\ \A r \in Readers : rpc[r] # "idle" => lang[r] \in Langs

\* Automaton and flag are those of replacements.
Derived(replacements) ==
  /\ automaton = BuildAutomaton(replacements)
  /\ hasReplacements = (Entries(replacements) # {})

\* How far the flags and the automaton are from what is settled, by where the
\* mutator inside the gate has come to.
SettledInv ==
  /\ (\A t \in Threads : pc[t] \notin {"automaton", "store_has_replacements", "release"}) =>
       Derived(settledTable) /\ (torn \/ settledTable = table)
  /\ \A t \in Threads :
       /\ pc[t] = "automaton" => Derived(settledTable)
       /\ pc[t] = "store_has_replacements" => hasReplacements = (Entries(settledTable) # {})
       /\ pc[t] = "release" /\ torn => Derived(settledTable)
       /\ pc[t] = "release" /\ ~torn => Derived(table)
  /\ (\A t \in Threads : pc[t] \notin {"store_has_langs", "release"}) => settledLangs = langs
  /\ \A t \in Threads : pc[t] = "store_has_langs" => hasLangs = (Registered(settledLangs) # {})

\* What a reader will find, or has found, is in its window.
WindowInv ==
  \A r \in Readers :
    /\ rpc[r] = "automaton" => automaton \in {BuildAutomaton(w) : w \in window[r]}
    /\ rpc[r] \in Looking => prepass[r] \in {BuildAutomaton(w) : w \in window[r]}
    /\ rpc[r] = "read_lang" => langs[lang[r]] \in mapWindow[r]
    /\ rpc[r] = "looked" => seen[r] \in mapWindow[r]

\* A registered language that a call has validated is there, and is found.
ValidInv ==
  \A r \in Readers :
    rpc[r] \notin {"idle", "validate"} /\ lang[r] \notin BuiltinLangs =>
      /\ langs[lang[r]] # NoMap /\ hasLangs
      /\ rpc[r] = "looked" => seen[r] # NoMap

\* An item begun under the seal has the automaton of the table.
SealedReadInv ==
  \A r \in Readers :
    /\ sinceSeal[r] => sealed
    /\ rpc[r] \in Looking /\ sinceSeal[r] /\ ~torn => prepass[r] = BuildAutomaton(table)

\* What RegistrationProofs has proved of the mutators.
TablesInv == TypeInv /\ LockInv /\ SealInv /\ SyncInv

\* What is known of every read.
ReadInv == ReadersInv /\ WindowInv /\ ValidInv /\ SealedReadInv

\* The inductive invariant.
CallsInv == TablesInv /\ SettledInv /\ ReadInv

\* One thread is inside the gate at a time.
LEMMA OneInside ==
  ASSUME TablesInv, NEW t \in Threads, pc[t] \notin {"idle", "gate"}
  PROVE  /\ gate = t /\ t # NoThread
         /\ \A u \in Threads \ {t} : pc[u] \in {"idle", "gate"}
BY RegistrationAssumption DEF TablesInv, LockInv

\* RecordMutation's part that says what is settled.
Recorded ==
  /\ settledTable' = IF gate' = NoThread /\ ~torn' THEN table' ELSE settledTable
  /\ settledLangs' = IF gate' = NoThread THEN langs' ELSE settledLangs

\* A mutator's step keeps SettledInv: what it has changed is settled only as it
\* leaves the gate, with nothing torn.
LEMMA SettledNext == TablesInv /\ SettledInv /\ Next /\ Recorded => SettledInv'
<1> SUFFICES ASSUME TablesInv, SettledInv, Next, Recorded PROVE SettledInv'
  OBVIOUS
<1> USE RegistrationAssumption DEF At, Goto, langVars, replacementVars
<1>a. pc \in [Threads -> Labels]
  BY DEF TablesInv, TypeInv, TypeOK
<1>1. ASSUME NEW t \in Threads, Invoke(t) PROVE SettledInv'
  <2>1. pc[t] = "idle" /\ pc' = [pc EXCEPT ![t] = "gate"] /\ gate' = gate
        /\ UNCHANGED <<table, torn, automaton, hasReplacements, langs, hasLangs>>
    BY <1>1 DEF Invoke
  <2>2. gate = NoThread => \A u \in Threads : pc[u] \in {"idle", "gate"}
    BY DEF TablesInv, LockInv
  <2>3. settledTable' = settledTable /\ settledLangs' = settledLangs
    BY <2>1, <2>2 DEF Recorded, SettledInv
  <2> QED
    BY <1>a, <2>1, <2>3 DEF SettledInv, Derived
<1>2. ASSUME NEW t \in Threads, TakeGate(t) PROVE SettledInv'
  <2>1. settledTable' = settledTable /\ settledLangs' = settledLangs
    BY <1>2 DEF TakeGate, AfterGate, Recorded
  <2>2. \A u \in Threads : pc[u] \in {"idle", "gate"}
    BY <1>2 DEF TakeGate, AfterGate, TablesInv, LockInv
  <2> QED
    BY <1>2, <1>a, <2>1, <2>2 DEF TakeGate, AfterGate, SettledInv, Derived
<1>3. ASSUME NEW t \in Threads, Seal(t) PROVE SettledInv'
  <2>1. /\ gate = t /\ t # NoThread /\ \A u \in Threads \ {t} : pc[u] \in {"idle", "gate"}
        /\ gate' = gate
    BY <1>3, OneInside DEF Seal, Reply
  <2>2. settledTable' = settledTable /\ settledLangs' = settledLangs
    BY <2>1 DEF Recorded
  <2> QED
    BY <1>3, <1>a, <2>1, <2>2 DEF Seal, Reply, SettledInv, Derived
<1>4. ASSUME NEW t \in Threads, CheckSeal(t) PROVE SettledInv'
  <2>1. /\ gate = t /\ t # NoThread /\ \A u \in Threads \ {t} : pc[u] \in {"idle", "gate"}
        /\ gate' = gate
    BY <1>4, OneInside DEF CheckSeal, Reply
  <2>2. settledTable' = settledTable /\ settledLangs' = settledLangs
    BY <2>1 DEF Recorded
  <2> QED
    BY <1>4, <1>a, <2>1, <2>2 DEF CheckSeal, Reply, SettledInv, Derived, TablesInv, SyncInv
<1>5. ASSUME NEW t \in Threads, CountLangs(t) PROVE SettledInv'
  <2>1. /\ gate = t /\ t # NoThread /\ \A u \in Threads \ {t} : pc[u] \in {"idle", "gate"}
        /\ gate' = gate
    BY <1>5, OneInside DEF CountLangs
  <2>2. settledTable' = settledTable /\ settledLangs' = settledLangs
    BY <2>1 DEF Recorded
  <2> QED
    BY <1>5, <1>a, <2>1, <2>2 DEF CountLangs, SettledInv, Derived
<1>6. ASSUME NEW t \in Threads, HasLang(t) PROVE SettledInv'
  <2>1. /\ gate = t /\ t # NoThread /\ \A u \in Threads \ {t} : pc[u] \in {"idle", "gate"}
        /\ gate' = gate
    BY <1>6, OneInside DEF HasLang, Reply
  <2>2. settledTable' = settledTable /\ settledLangs' = settledLangs
    BY <2>1 DEF Recorded
  <2> QED
    BY <1>6, <1>a, <2>1, <2>2 DEF HasLang, Reply, SettledInv, Derived
<1>7. ASSUME NEW t \in Threads, ValidateKeys(t) PROVE SettledInv'
  <2>1. /\ gate = t /\ t # NoThread /\ \A u \in Threads \ {t} : pc[u] \in {"idle", "gate"}
        /\ gate' = gate
    BY <1>7, OneInside DEF ValidateKeys, Reply
  <2>2. settledTable' = settledTable /\ settledLangs' = settledLangs
    BY <2>1 DEF Recorded
  <2> QED
    BY <1>7, <1>a, <2>1, <2>2 DEF ValidateKeys, Reply, SettledInv, Derived
<1>8. ASSUME NEW t \in Threads, InsertLang(t) PROVE SettledInv'
  <2>1. /\ gate = t /\ t # NoThread /\ \A u \in Threads \ {t} : pc[u] \in {"idle", "gate"}
        /\ gate' = gate
    BY <1>8, OneInside DEF InsertLang, Reply
  <2>2. settledTable' = settledTable /\ settledLangs' = settledLangs
    BY <2>1 DEF Recorded
  <2> QED
    BY <1>8, <1>a, <2>1, <2>2 DEF InsertLang, Reply, SettledInv, Derived, TablesInv, SyncInv
<1>9. ASSUME NEW t \in Threads, StoreHasLangs(t) PROVE SettledInv'
  <2>1. /\ gate = t /\ t # NoThread /\ \A u \in Threads \ {t} : pc[u] \in {"idle", "gate"}
        /\ gate' = gate
    BY <1>9, OneInside DEF StoreHasLangs
  <2>2. settledTable' = settledTable /\ settledLangs' = settledLangs
    BY <2>1 DEF Recorded
  <2> QED
    BY <1>9, <1>a, <2>1, <2>2 DEF StoreHasLangs, SettledInv, Derived, TablesInv, SyncInv
<1>10. ASSUME NEW t \in Threads, RegisterReplacements(t) PROVE SettledInv'
  <2>1. /\ gate = t /\ t # NoThread /\ \A u \in Threads \ {t} : pc[u] \in {"idle", "gate"}
        /\ gate' = gate
    BY <1>10, OneInside DEF RegisterReplacements, MutateTable, Reply
  <2>2. settledTable' = settledTable /\ settledLangs' = settledLangs
    BY <2>1 DEF Recorded
  <2> QED
    BY <1>10, <1>a, <2>1, <2>2 DEF RegisterReplacements, MutateTable, Reply, SettledInv, Derived
<1>11. ASSUME NEW t \in Threads, RemoveReplacement(t) PROVE SettledInv'
  <2>1. /\ gate = t /\ t # NoThread /\ \A u \in Threads \ {t} : pc[u] \in {"idle", "gate"}
        /\ gate' = gate
    BY <1>11, OneInside DEF RemoveReplacement, MutateTable, Reply
  <2>2. settledTable' = settledTable /\ settledLangs' = settledLangs
    BY <2>1 DEF Recorded
  <2> QED
    BY <1>11, <1>a, <2>1, <2>2 DEF RemoveReplacement, MutateTable, Reply, SettledInv, Derived
<1>12. ASSUME NEW t \in Threads, ClearReplacements(t) PROVE SettledInv'
  <2>1. /\ gate = t /\ t # NoThread /\ \A u \in Threads \ {t} : pc[u] \in {"idle", "gate"}
        /\ gate' = gate
    BY <1>12, OneInside DEF ClearReplacements, MutateTable, Reply
  <2>2. settledTable' = settledTable /\ settledLangs' = settledLangs
    BY <2>1 DEF Recorded
  <2> QED
    BY <1>12, <1>a, <2>1, <2>2 DEF ClearReplacements, MutateTable, Reply, SettledInv, Derived
<1>13. ASSUME NEW t \in Threads, RebuildAutomaton(t) PROVE SettledInv'
  <2>1. /\ gate = t /\ t # NoThread /\ \A u \in Threads \ {t} : pc[u] \in {"idle", "gate"}
        /\ gate' = gate
    BY <1>13, OneInside DEF RebuildAutomaton
  <2>2. settledTable' = settledTable /\ settledLangs' = settledLangs
    BY <2>1 DEF Recorded
  <2> QED
    BY <1>13, <1>a, <2>1, <2>2 DEF RebuildAutomaton, SettledInv, Derived, TablesInv, SyncInv
<1>14. ASSUME NEW t \in Threads, BuildPanics(t) PROVE SettledInv'
  <2>1. /\ gate = t /\ t # NoThread /\ \A u \in Threads \ {t} : pc[u] \in {"idle", "gate"}
        /\ gate' = gate
    BY <1>14, OneInside DEF BuildPanics, Reply
  <2>2. settledTable' = settledTable /\ settledLangs' = settledLangs
    BY <2>1 DEF Recorded
  <2> QED
    BY <1>14, <1>a, <2>1, <2>2 DEF BuildPanics, Reply, SettledInv, Derived, TablesInv, SyncInv
<1>15. ASSUME NEW t \in Threads, StoreHasReplacements(t) PROVE SettledInv'
  <2>1. /\ gate = t /\ t # NoThread /\ \A u \in Threads \ {t} : pc[u] \in {"idle", "gate"}
        /\ gate' = gate
    BY <1>15, OneInside DEF StoreHasReplacements
  <2>2. settledTable' = settledTable /\ settledLangs' = settledLangs
    BY <2>1 DEF Recorded
  <2> QED
    BY <1>15, <1>a, <2>1, <2>2 DEF StoreHasReplacements, SettledInv, Derived, TablesInv, SyncInv
<1>16. ASSUME NEW t \in Threads, ReleaseGate(t) PROVE SettledInv'
  <2>1. pc[t] = "release" /\ \A u \in Threads \ {t} : pc[u] \in {"idle", "gate"}
    BY <1>16, OneInside DEF ReleaseGate, Reply
  <2>2. \A u \in Threads : pc'[u] \in {"idle", "gate"}
    BY <1>16, <1>a, <2>1 DEF ReleaseGate, Reply
  <2>3. settledTable' = (IF torn THEN settledTable ELSE table) /\ settledLangs' = langs
    BY <1>16 DEF ReleaseGate, Reply, Recorded
  <2> QED
    BY <1>16, <2>1, <2>2, <2>3 DEF ReleaseGate, Reply, SettledInv, Derived
<1> QED
  BY <1>1, <1>2, <1>3, <1>4, <1>5, <1>6, <1>7, <1>8, <1>9, <1>10, <1>11, <1>12, <1>13, <1>14,
     <1>15, <1>16 DEF Next, Progress

\* What a mutator's step does to what readers load.
LEMMA TablesStep ==
  ASSUME TablesInv, Next
  PROVE  /\ automaton' = automaton \/ automaton' = BuildAutomaton(table')
         /\ \A l \in Langs : langs[l] # NoMap => langs'[l] # NoMap /\ (hasLangs => hasLangs')
         /\ sealed => sealed' /\ table' = table /\ torn' = torn
<1>1. PICK t \in Threads : Invoke(t) \/ Progress(t)
  BY DEF Next
<1> USE DEF At, Goto, langVars, replacementVars
<1>2. automaton' = automaton \/ automaton' = BuildAutomaton(table')
  BY <1>1 DEF Progress, Invoke, TakeGate, Seal, CheckSeal, CountLangs, HasLang, ValidateKeys,
     InsertLang, StoreHasLangs, RegisterReplacements, RemoveReplacement, ClearReplacements,
     MutateTable, RebuildAutomaton, BuildPanics, StoreHasReplacements, ReleaseGate
<1>3. ASSUME NEW l \in Langs, langs[l] # NoMap PROVE langs'[l] # NoMap /\ (hasLangs => hasLangs')
  <2>1. CASE InsertLang(t)
    <3>1. call[t].map \in Maps
      BY <2>1, CallFields, RegistrationAssumption DEF InsertLang, TablesInv, TypeInv, CallInv,
         LangLabels
    <3> QED
      BY <1>3, <2>1, <3>1, TablesAssumption DEF InsertLang, TablesInv, TypeInv, TypeOK, LangTable
  <2>2. CASE StoreHasLangs(t)
    BY <1>3, <2>2 DEF StoreHasLangs, Registered
  <2>3. CASE ~InsertLang(t) /\ ~StoreHasLangs(t)
    <3>1. CASE Invoke(t) \/ TakeGate(t) \/ Seal(t) \/ CheckSeal(t) \/ ReleaseGate(t)
      BY <1>3, <3>1 DEF Invoke, TakeGate, Seal, CheckSeal, ReleaseGate
    <3>2. CASE CountLangs(t) \/ HasLang(t) \/ ValidateKeys(t)
      BY <1>3, <3>2 DEF CountLangs, HasLang, ValidateKeys
    <3>3. CASE RegisterReplacements(t) \/ RemoveReplacement(t) \/ ClearReplacements(t)
      BY <1>3, <3>3 DEF RegisterReplacements, RemoveReplacement, ClearReplacements, MutateTable
    <3>4. CASE RebuildAutomaton(t) \/ BuildPanics(t) \/ StoreHasReplacements(t)
      <4>1. UNCHANGED <<langs, hasLangs>>
        BY <3>4 DEF RebuildAutomaton, BuildPanics, StoreHasReplacements
      <4> QED
        BY <1>3, <4>1
    <3> QED
      BY <1>1, <2>3, <3>1, <3>2, <3>3, <3>4 DEF Progress
  <2> QED
    BY <2>1, <2>2, <2>3
<1>4. ASSUME sealed PROVE sealed' /\ table' = table /\ torn' = torn
  <2>1. pc[t] \in {"idle", "gate", "check_seal", "seal", "release"}
    BY <1>4 DEF TablesInv, SealInv
  <2>2. CASE Invoke(t) \/ TakeGate(t) \/ Seal(t) \/ CheckSeal(t) \/ ReleaseGate(t)
    BY <1>4, <2>2 DEF Invoke, TakeGate, Seal, CheckSeal, ReleaseGate
  <2>3. CASE CountLangs(t) \/ HasLang(t) \/ ValidateKeys(t) \/ InsertLang(t) \/ StoreHasLangs(t)
    BY <2>1, <2>3 DEF CountLangs, HasLang, ValidateKeys, InsertLang, StoreHasLangs
  <2>4. CASE RegisterReplacements(t) \/ RemoveReplacement(t) \/ ClearReplacements(t)
             \/ RebuildAutomaton(t) \/ BuildPanics(t) \/ StoreHasReplacements(t)
    BY <2>1, <2>4 DEF RegisterReplacements, RemoveReplacement, ClearReplacements,
       RebuildAutomaton, BuildPanics, StoreHasReplacements
  <2> QED
    BY <1>1, <2>2, <2>3, <2>4 DEF Progress
<1> QED
  BY <1>2, <1>3, <1>4

\* What a load may find of the replacements: an automaton that is settled or
\* of the table as it stands, and with the flag down a table without entries.
LEMMA LoadedTables ==
  ASSUME TablesInv, SettledInv, settledTable \in ReplacementTable
  PROVE  /\ automaton \in {BuildAutomaton(settledTable), BuildAutomaton(table)}
         /\ ~hasReplacements =>
              NoReplacements \in {BuildAutomaton(settledTable), BuildAutomaton(table)}
         /\ sealed /\ ~torn => /\ automaton = BuildAutomaton(table)
                               /\ ~hasReplacements => NoReplacements = BuildAutomaton(table)
<1>1. ASSUME NEW replacements \in ReplacementTable, Entries(replacements) = {}
      PROVE  NoReplacements = BuildAutomaton(replacements)
  BY <1>1 DEF Entries, NoReplacements, BuildAutomaton, ReplacementTable
<1>2. table \in ReplacementTable
  BY DEF TablesInv, TypeInv, TypeOK
<1>3. CASE \A t \in Threads : pc[t] \notin {"automaton", "store_has_replacements", "release"}
  <2>1. Derived(settledTable) /\ (torn \/ settledTable = table)
    BY <1>3 DEF SettledInv
  <2> QED
    BY <1>1, <1>2, <2>1 DEF Derived
<1>4. ASSUME NEW t \in Threads, pc[t] \in {"automaton", "store_has_replacements", "release"}
      PROVE  /\ automaton \in {BuildAutomaton(settledTable), BuildAutomaton(table)}
             /\ ~hasReplacements =>
                  NoReplacements \in {BuildAutomaton(settledTable), BuildAutomaton(table)}
  BY <1>1, <1>2, <1>4 DEF SettledInv, Derived, TablesInv, SyncInv
<1>5. ASSUME sealed, ~torn PROVE Derived(table)
  <2>1. \A t \in Threads : pc[t] \notin {"automaton", "store_has_replacements"}
    BY <1>5 DEF TablesInv, SealInv
  <2> QED
    BY <1>5, <2>1 DEF TablesInv, SyncInv, Derived
<1> QED
  BY <1>1, <1>2, <1>3, <1>4, <1>5 DEF Derived

\* And of the languages: with the flag down none is settled, or none is there.
LEMMA LoadedLangs ==
  ASSUME TablesInv, SettledInv
  PROVE  ~hasLangs => \/ \A l \in Langs : settledLangs[l] = NoMap
                      \/ \A l \in Langs : langs[l] = NoMap
BY DEF TablesInv, SettledInv, SyncInv, Registered

\* A mutator's step leaves every reader an answer it may give.
LEMMA ReadMutation ==
  TablesInv /\ SettledInv /\ ReadInv /\ Next /\ RecordMutation /\ UNCHANGED readerVars /\ TablesInv'
    => ReadInv'
<1> SUFFICES ASSUME TablesInv, SettledInv, ReadInv, Next, RecordMutation, UNCHANGED readerVars,
                    TablesInv'
             PROVE  ReadInv'
  OBVIOUS
<1>a. ReadersInv /\ WindowInv /\ ValidInv /\ SealedReadInv
  BY DEF ReadInv
<1>1. UNCHANGED <<rpc, lang, prepass, seen, sinceSeal>>
  BY DEF readerVars, RecordMutation
<1>2. ASSUME NEW r \in Readers
      PROVE  /\ window'[r] = (IF rpc[r] = "automaton" THEN window[r] \cup {table'} ELSE window[r])
             /\ mapWindow'[r] = (IF rpc[r] = "read_lang" THEN mapWindow[r] \cup {langs'[lang[r]]}
                                 ELSE mapWindow[r])
  BY DEF RecordMutation
<1>3. ReadersInv'
  <2>1. table' \in ReplacementTable /\ langs' \in LangTable
    BY DEF TablesInv, TypeInv, TypeOK
  <2>2. \A r \in Readers : rpc[r] = "read_lang" => langs'[lang[r]] \in Maps \cup {NoMap}
    BY <1>a, <2>1 DEF ReadersInv, LangTable
  <2>3. settledTable' \in ReplacementTable /\ settledLangs' \in LangTable
    BY <1>a, <2>1 DEF ReadersInv, RecordMutation
  <2>4. window' \in [Readers -> SUBSET ReplacementTable]
    BY <1>a, <2>1 DEF ReadersInv, RecordMutation
  <2>5. mapWindow' \in [Readers -> SUBSET (Maps \cup {NoMap})]
    BY <1>a, <2>2 DEF ReadersInv, RecordMutation
  <2> QED
    BY <1>a, <1>1, <2>3, <2>4, <2>5 DEF ReadersInv
<1>4. WindowInv'
  <2> SUFFICES ASSUME NEW r \in Readers
               PROVE  /\ rpc[r] = "automaton" =>
                           automaton' \in {BuildAutomaton(w) : w \in window'[r]}
                      /\ rpc[r] \in Looking => prepass[r] \in {BuildAutomaton(w) : w \in window'[r]}
                      /\ rpc[r] = "read_lang" => langs'[lang[r]] \in mapWindow'[r]
                      /\ rpc[r] = "looked" => seen[r] \in mapWindow'[r]
    BY <1>1 DEF WindowInv
  <2>1. rpc[r] = "automaton" => automaton' \in {BuildAutomaton(w) : w \in window'[r]}
    BY <1>a, <1>2, TablesStep DEF WindowInv
  <2> QED
    BY <1>a, <1>2, <2>1 DEF WindowInv, Looking
<1>5. ValidInv'
  BY <1>a, <1>1, TablesStep DEF ValidInv, ReadersInv, ReaderLabels
<1>6. SealedReadInv'
  BY <1>a, <1>1, TablesStep DEF SealedReadInv
<1> QED
  BY <1>3, <1>4, <1>5, <1>6 DEF ReadInv

\* A reader's step keeps what is known of every read.
LEMMA ReadStep ==
  ASSUME TablesInv, SettledInv, ReadInv, NEW r \in Readers, ReaderStep(r)
  PROVE  ReadInv'
<1>a. ReadersInv /\ WindowInv /\ ValidInv /\ SealedReadInv
  BY DEF ReadInv
<1>b. /\ table \in ReplacementTable /\ automaton \in ReplacementTable /\ langs \in LangTable
       /\ NoReplacements \in ReplacementTable
  BY DEF TablesInv, TypeInv, TypeOK, NoReplacements, ReplacementTable
<1> USE DEF ReaderAt, ReaderGoto
<1>e. ASSUME EndOfCall(r) PROVE ReadInv'
  <2>1. UNCHANGED <<automaton, table, torn, sealed, langs, hasLangs>>
    BY <1>e DEF EndOfCall, vars, langVars, replacementVars
  <2>2. ReadersInv'
    BY <1>e, <1>a, <1>b DEF EndOfCall, ReadersInv, ReaderLabels
  <2>3. WindowInv'
    BY <1>e, <1>a, <2>1 DEF EndOfCall, ReadersInv, WindowInv, Looking
  <2>4. ValidInv'
    BY <1>e, <1>a, <2>1 DEF EndOfCall, ReadersInv, ValidInv
  <2>5. SealedReadInv'
    BY <1>e, <1>a, <2>1 DEF EndOfCall, ReadersInv, SealedReadInv, Looking
  <2> QED
    BY <2>2, <2>3, <2>4, <2>5 DEF ReadInv
<1>1. ASSUME NEW l \in Langs, StartCall(r, l) PROVE ReadInv'
  <2>1. UNCHANGED <<automaton, table, torn, sealed, langs, hasLangs>>
    BY <1>1 DEF StartCall, vars, langVars, replacementVars
  <2>2. ReadersInv'
    BY <1>1, <1>a, <1>b DEF StartCall, historyVars, ReadersInv, ReaderLabels
  <2>3. WindowInv'
    BY <1>1, <1>a, <2>1 DEF StartCall, historyVars, ReadersInv, WindowInv, Looking
  <2>4. ValidInv'
    BY <1>1, <1>a, <2>1 DEF StartCall, historyVars, ReadersInv, ValidInv
  <2>5. SealedReadInv'
    BY <1>1, <1>a, <2>1 DEF StartCall, historyVars, ReadersInv, SealedReadInv, Looking
  <2> QED
    BY <2>2, <2>3, <2>4, <2>5 DEF ReadInv
<1>2. ASSUME ValidateLang(r), ~EndOfCall(r) PROVE ReadInv'
  <2>1. UNCHANGED <<automaton, table, torn, sealed, langs, hasLangs>>
    BY <1>2 DEF ValidateLang, vars, langVars, replacementVars
  <2>a. lang[r] \notin BuiltinLangs => langs[lang[r]] # NoMap /\ hasLangs
    <3>1. lang[r] \notin BuiltinLangs => langsLock = NoThread /\ lang[r] \in Registered(langs)
      BY <1>2 DEF ValidateLang
    <3>2. langsLock = NoThread => \A t \in Threads : pc[t] # "store_has_langs"
      BY RegistrationAssumption DEF TablesInv, LockInv
    <3> QED
      BY <3>1, <3>2 DEF TablesInv, SyncInv, Registered
  <2>2. ReadersInv'
    BY <1>2, <1>a, <1>b, <2>a DEF ValidateLang, historyVars, ReadersInv, ReaderLabels
  <2>3. WindowInv'
    BY <1>2, <1>a, <2>1, <2>a DEF ValidateLang, historyVars, ReadersInv, WindowInv, Looking
  <2>4. ValidInv'
    BY <1>2, <1>a, <2>1, <2>a DEF ValidateLang, historyVars, ReadersInv, ValidInv
  <2>5. SealedReadInv'
    BY <1>2, <1>a, <2>1, <2>a DEF ValidateLang, historyVars, ReadersInv, SealedReadInv, Looking
  <2> QED
    BY <2>2, <2>3, <2>4, <2>5 DEF ReadInv
<1>3. ASSUME LoadHasReplacements(r) PROVE ReadInv'
  <2>1. UNCHANGED <<automaton, table, torn, sealed, langs, hasLangs>>
    BY <1>3 DEF LoadHasReplacements, vars, langVars, replacementVars
  <2>a. /\ ~hasReplacements =>
             NoReplacements \in {BuildAutomaton(settledTable), BuildAutomaton(table)}
        /\ automaton \in {BuildAutomaton(settledTable), BuildAutomaton(table)}
        /\ sealed /\ ~torn /\ ~hasReplacements => NoReplacements = BuildAutomaton(table)
    BY <1>a, LoadedTables DEF ReadersInv
  <2>2. ReadersInv'
    <3>1. window' \in [Readers -> SUBSET ReplacementTable]
      BY <1>3, <1>a, <1>b DEF LoadHasReplacements, ReadersInv
    <3>2. mapWindow' \in [Readers -> SUBSET (Maps \cup {NoMap})]
      BY <1>3, <1>a DEF LoadHasReplacements, ReadersInv
    <3>3. sinceSeal' \in [Readers -> BOOLEAN]
      BY <1>3, <1>a DEF LoadHasReplacements, ReadersInv, TablesInv, TypeInv, TypeOK
    <3>4. /\ prepass' \in [Readers -> ReplacementTable]
          /\ seen' \in [Readers -> Maps \cup {NoMap}]
      BY <1>3, <1>a, <1>b DEF LoadHasReplacements, ReadersInv
    <3>5. /\ rpc' \in [Readers -> ReaderLabels]
          /\ \A q \in Readers : rpc'[q] # "idle" => lang[q] \in Langs
      BY <1>3, <1>a DEF LoadHasReplacements, ReadersInv, ReaderLabels
    <3>6. UNCHANGED <<lang, settledTable, settledLangs>>
      BY <1>3 DEF LoadHasReplacements
    <3> QED
      BY <1>a, <3>1, <3>2, <3>3, <3>4, <3>5, <3>6 DEF ReadersInv
  <2>3. WindowInv'
    BY <1>3, <1>a, <2>1, <2>a DEF LoadHasReplacements, historyVars, ReadersInv, WindowInv, Looking
  <2>4. ValidInv'
    BY <1>3, <1>a, <2>1, <2>a DEF LoadHasReplacements, historyVars, ReadersInv, ValidInv
  <2>5. SealedReadInv'
    BY <1>3, <1>a, <2>1, <2>a DEF LoadHasReplacements, historyVars, ReadersInv, SealedReadInv,
       Looking
  <2> QED
    BY <2>2, <2>3, <2>4, <2>5 DEF ReadInv
<1>4. ASSUME ReadAutomaton(r) PROVE ReadInv'
  <2>1. UNCHANGED <<automaton, table, torn, sealed, langs, hasLangs>>
    BY <1>4 DEF ReadAutomaton, vars, langVars, replacementVars
  <2>a. sealed /\ ~torn => automaton = BuildAutomaton(table)
    BY <1>a, LoadedTables DEF ReadersInv
  <2>2. ReadersInv'
    BY <1>4, <1>a, <1>b, <2>a DEF ReadAutomaton, historyVars, ReadersInv, ReaderLabels
  <2>3. WindowInv'
    BY <1>4, <1>a, <2>1, <2>a DEF ReadAutomaton, historyVars, ReadersInv, WindowInv, Looking
  <2>4. ValidInv'
    BY <1>4, <1>a, <2>1, <2>a DEF ReadAutomaton, historyVars, ReadersInv, ValidInv
  <2>5. SealedReadInv'
    BY <1>4, <1>a, <2>1, <2>a DEF ReadAutomaton, historyVars, ReadersInv, SealedReadInv, Looking
  <2> QED
    BY <2>2, <2>3, <2>4, <2>5 DEF ReadInv
<1>5. CASE OutputTooLarge(r)
  BY <1>5, <1>e DEF OutputTooLarge
<1>6. ASSUME LoadHasLangs(r) PROVE ReadInv'
  <2>1. UNCHANGED <<automaton, table, torn, sealed, langs, hasLangs>>
    BY <1>6 DEF LoadHasLangs, vars, langVars, replacementVars
  <2>a. lang[r] \in Langs /\ (~hasLangs => NoMap \in {settledLangs[lang[r]], langs[lang[r]]})
    BY <1>6, <1>a, LoadedLangs DEF LoadHasLangs, ReadersInv
  <2>2. ReadersInv'
    BY <1>6, <1>a, <1>b, <2>a DEF LoadHasLangs, historyVars, ReadersInv, ReaderLabels, LangTable
  <2>3. WindowInv'
    BY <1>6, <1>a, <2>1, <2>a DEF LoadHasLangs, historyVars, ReadersInv, WindowInv, Looking
  <2>4. ValidInv'
    BY <1>6, <1>a, <2>1, <2>a DEF LoadHasLangs, historyVars, ReadersInv, ValidInv
  <2>5. SealedReadInv'
    BY <1>6, <1>a, <2>1, <2>a DEF LoadHasLangs, historyVars, ReadersInv, SealedReadInv, Looking
  <2> QED
    BY <2>2, <2>3, <2>4, <2>5 DEF ReadInv
<1>7. ASSUME ReadLang(r) PROVE ReadInv'
  <2>1. UNCHANGED <<automaton, table, torn, sealed, langs, hasLangs>>
    BY <1>7 DEF ReadLang, vars, langVars, replacementVars
  <2>a. lang[r] \in Langs
    BY <1>7, <1>a DEF ReadLang, ReadersInv
  <2>2. ReadersInv'
    BY <1>7, <1>a, <1>b, <2>a DEF ReadLang, historyVars, ReadersInv, ReaderLabels, LangTable
  <2>3. WindowInv'
    BY <1>7, <1>a, <2>1, <2>a DEF ReadLang, historyVars, ReadersInv, WindowInv, Looking
  <2>4. ValidInv'
    BY <1>7, <1>a, <2>1, <2>a DEF ReadLang, historyVars, ReadersInv, ValidInv
  <2>5. SealedReadInv'
    BY <1>7, <1>a, <2>1, <2>a DEF ReadLang, historyVars, ReadersInv, SealedReadInv, Looking
  <2> QED
    BY <2>2, <2>3, <2>4, <2>5 DEF ReadInv
<1>8. ASSUME NextCharacter(r) PROVE ReadInv'
  <2>1. UNCHANGED <<automaton, table, torn, sealed, langs, hasLangs>>
    BY <1>8 DEF NextCharacter, vars, langVars, replacementVars
  <2>2. ReadersInv'
    BY <1>8, <1>a, <1>b DEF NextCharacter, historyVars, ReadersInv, ReaderLabels
  <2>3. WindowInv'
    BY <1>8, <1>a, <2>1 DEF NextCharacter, historyVars, ReadersInv, WindowInv, Looking
  <2>4. ValidInv'
    BY <1>8, <1>a, <2>1 DEF NextCharacter, historyVars, ReadersInv, ValidInv
  <2>5. SealedReadInv'
    BY <1>8, <1>a, <2>1 DEF NextCharacter, historyVars, ReadersInv, SealedReadInv, Looking
  <2> QED
    BY <2>2, <2>3, <2>4, <2>5 DEF ReadInv
<1>9. ASSUME NextItem(r) PROVE ReadInv'
  <2>1. UNCHANGED <<automaton, table, torn, sealed, langs, hasLangs>>
    BY <1>9 DEF NextItem, vars, langVars, replacementVars
  <2>2. ReadersInv'
    BY <1>9, <1>a, <1>b DEF NextItem, historyVars, ReadersInv, ReaderLabels
  <2>3. WindowInv'
    BY <1>9, <1>a, <2>1 DEF NextItem, historyVars, ReadersInv, WindowInv, Looking
  <2>4. ValidInv'
    BY <1>9, <1>a, <2>1 DEF NextItem, historyVars, ReadersInv, ValidInv
  <2>5. SealedReadInv'
    BY <1>9, <1>a, <2>1 DEF NextItem, historyVars, ReadersInv, SealedReadInv, Looking
  <2> QED
    BY <2>2, <2>3, <2>4, <2>5 DEF ReadInv
<1>10. CASE ReturnCall(r)
  BY <1>10, <1>e DEF ReturnCall
<1> QED
  BY <1>e, <1>1, <1>2, <1>3, <1>4, <1>5, <1>6, <1>7, <1>8, <1>9, <1>10 DEF ReaderStep

\* Every step of a mutator or a reader keeps the invariant.
LEMMA CallsStep == CallsInv /\ [CallsNext]_allVars => CallsInv'
<1> SUFFICES ASSUME CallsInv, [CallsNext]_allVars PROVE CallsInv'
  OBVIOUS
<1>a. TablesInv /\ SettledInv /\ ReadInv
  BY DEF CallsInv
<1>1. ASSUME [Next]_vars PROVE TablesInv'
  BY <1>a, <1>1, TypeNext, LockNext, SealNext, SyncNext DEF TablesInv
<1>2. ASSUME UNCHANGED vars, UNCHANGED <<settledTable, settledLangs>> PROVE SettledInv'
  BY <1>a, <1>2 DEF vars, langVars, replacementVars, threadVars, SettledInv, Derived
<1>3. ASSUME Next, RecordMutation, UNCHANGED readerVars PROVE CallsInv'
  <2>1. TablesInv' /\ Recorded
    BY <1>1, <1>3 DEF RecordMutation, Recorded
  <2> QED
    BY <1>a, <1>3, <2>1, SettledNext, ReadMutation DEF CallsInv
<1>4. ASSUME NEW r \in Readers, ReaderStep(r) PROVE CallsInv'
  <2>1. UNCHANGED vars /\ UNCHANGED <<settledTable, settledLangs>>
    BY <1>4 DEF ReaderStep, StartCall, ValidateLang, EndOfCall, LoadHasReplacements, ReadAutomaton,
       OutputTooLarge, LoadHasLangs, ReadLang, NextCharacter, NextItem, ReturnCall, historyVars
  <2> QED
    BY <1>a, <1>1, <1>2, <1>4, <2>1, ReadStep DEF CallsInv
<1>5. CASE UNCHANGED allVars
  <2>1. /\ UNCHANGED vars
        /\ UNCHANGED <<rpc, lang, prepass, seen, settledTable, settledLangs,
                       window, mapWindow, sinceSeal>>
    BY <1>5 DEF allVars, readerVars, historyVars
  <2>2. ReadInv'
    BY <1>a, <2>1 DEF vars, langVars, replacementVars, ReadInv, ReadersInv, WindowInv, ValidInv,
       SealedReadInv
  <2> QED
    BY <1>a, <1>1, <1>2, <2>1, <2>2 DEF CallsInv
<1> QED
  BY <1>3, <1>4, <1>5 DEF CallsNext

\* Initially nothing is registered and nobody reads.
LEMMA CallsStart == CallsInit => CallsInv
<1> SUFFICES ASSUME CallsInit PROVE CallsInv
  OBVIOUS
<1>1. Init /\ TypeInv
  BY TypeInit DEF CallsInit
<1>2. TablesInv
  BY <1>1, RegistrationAssumption DEF TablesInv, Init, LockInv, SealInv, SyncInv, NoLangs,
     NoReplacements, Registered, Entries, BuildAutomaton
<1>3. SettledInv
  BY <1>1 DEF CallsInit, Init, SettledInv, Derived, NoReplacements, Entries, BuildAutomaton
<1>4. NoReplacements \in ReplacementTable /\ NoLangs \in LangTable
  BY DEF NoReplacements, ReplacementTable, NoLangs, LangTable
<1>5. ReadInv
  BY <1>4 DEF CallsInit, ReadInv, ReadersInv, WindowInv, ValidInv, SealedReadInv, Looking,
     ReaderLabels
<1> QED
  BY <1>2, <1>3, <1>5 DEF CallsInv

\* The properties are among the invariant's conjuncts.
LEMMA CallsImplies == CallsInv => AnswersRegular /\ SealedItemsAgree
BY DEF CallsInv, ReadInv, WindowInv, ValidInv, SealedReadInv, Looking, AnswersRegular,
   PrePassRegular, LookupRegular, ValidatedLangAnswers, SealedItemsAgree

\* A reader's item is replaced with a table that a mutator has written, its
\* language is looked up in a map that was there during the lookup, and a
\* language that was validated answers to the end of the call
\* (transliterate.rs, tables/mod.rs), whatever the mutators do in between.
THEOREM AnswersStayRegular == CallsSpec => []AnswersRegular
<1>1. CallsSpec => []CallsInv
  BY CallsStart, CallsStep, PTL DEF CallsSpec
<1> QED
  BY <1>1, CallsImplies, PTL

\* An item begun after sealing is replaced with the table as it stays (#64),
\* unless a panic has torn it, whoever was registering when the seal was set.
THEOREM SealedItemsAlwaysAgree == CallsSpec => []SealedItemsAgree
<1>1. CallsSpec => []CallsInv
  BY CallsStart, CallsStep, PTL DEF CallsSpec
<1> QED
  BY <1>1, CallsImplies, PTL
=============================================================================
