---------------------------- MODULE Registration ----------------------------
(***************************************************************************)
(* The registration mutators of src/src/transliterate.rs over the statics  *)
(* of src/src/tables/mod.rs, one action per lock acquisition or atomic     *)
(* store, so that every interleaving the Rust API allows is a behaviour    *)
(* (the Python binding holds the GIL across a call and allows fewer).      *)
(*                                                                         *)
(*   gate           REGISTRATION_GATE (Mutex<()>): its holder or NoThread  *)
(*   sealed         REGISTRATIONS_SEALED                                   *)
(*   langs          LANG_TABLES          langsLock  its write guard        *)
(*   hasLangs       HAS_REGISTERED_LANGS                                   *)
(*   table          GLOBAL_REPLACEMENTS  tableLock  its write guard        *)
(*   automaton      GLOBAL_REPLACEMENTS_AC, written under tableLock        *)
(*   hasReplacements HAS_REPLACEMENTS                                      *)
(*   pc, call, result   where each thread is, in which call, its answer    *)
(*   torn           a panic interrupted the last replacement mutation      *)
(*                  (history variable: lock poisoning is what the code     *)
(*                  leaves behind, and recover_lock ignores it)            *)
(***************************************************************************)
EXTENDS RegistrationTables

CONSTANTS Threads, NoThread, Calls, MayPanic

ASSUME RegistrationAssumption ==
  /\ NoThread \notin Threads
  /\ Calls \subseteq AllCalls
  /\ MayPanic \in BOOLEAN

VARIABLES
  gate, sealed, langs, langsLock, hasLangs, table, tableLock, automaton,
  hasReplacements, pc, call, result, torn

langVars == <<langs, langsLock, hasLangs>>
replacementVars == <<table, tableLock, automaton, hasReplacements, torn>>
threadVars == <<pc, call, result>>
tables == <<langs, hasLangs, table, automaton, hasReplacements>>
vars == <<gate, sealed, langVars, replacementVars, threadVars>>

Labels ==
  {"idle", "gate", "check_seal", "seal", "count", "has_lang", "validate",
   "insert", "store_has_langs", "table", "automaton",
   "store_has_replacements", "release"}

TypeOK ==
  /\ gate \in Threads \cup {NoThread}
  /\ sealed \in BOOLEAN
  /\ langs \in LangTable
  /\ langsLock \in Threads \cup {NoThread}
  /\ hasLangs \in BOOLEAN
  /\ table \in ReplacementTable
  /\ tableLock \in Threads \cup {NoThread}
  /\ automaton \in ReplacementTable
  /\ hasReplacements \in BOOLEAN
  /\ pc \in [Threads -> Labels]
  /\ call \in [Threads -> Calls \cup {NoCall}]
  /\ result \in [Threads -> Results]
  /\ torn \in BOOLEAN

Init ==
  /\ gate = NoThread
  /\ sealed = FALSE
  /\ langs = NoLangs /\ langsLock = NoThread /\ hasLangs = FALSE
  /\ table = NoReplacements /\ tableLock = NoThread
  /\ automaton = NoReplacements /\ hasReplacements = FALSE
  /\ pc = [t \in Threads |-> "idle"]
  /\ call = [t \in Threads |-> NoCall]
  /\ result = [t \in Threads |-> "none"]
  /\ torn = FALSE

At(t, label) == pc[t] = label
Goto(t, label) == pc' = [pc EXCEPT ![t] = label]
Reply(t, r) == result' = [result EXCEPT ![t] = r]

-----------------------------------------------------------------------------
(***************************************************************************)
(* Calling in: unsealed_gate and seal_registrations both start by taking   *)
(* the gate.  A poisoned gate is simply taken, so no guard mentions torn.  *)
(***************************************************************************)
Invoke(t) ==
  /\ At(t, "idle")
  /\ Goto(t, "gate")
  /\ \E c \in Calls : call' = [call EXCEPT ![t] = c]
  /\ UNCHANGED <<gate, sealed, langVars, replacementVars, result>>

AfterGate(c) == IF c.op = "seal_registrations" THEN "seal" ELSE "check_seal"

\* Mutant: sealing stores the flag without waiting for the gate.
TakeGateSealUngated(t) ==
  /\ At(t, "gate")
  /\ call[t].op = "seal_registrations" \/ gate = NoThread
  /\ gate' = IF call[t].op = "seal_registrations" THEN gate ELSE t
  /\ Goto(t, AfterGate(call[t]))
  /\ UNCHANGED <<sealed, langVars, replacementVars, call, result>>

\* Mutant: the gate of one call does not keep another out.
TakeGateShared(t) ==
  /\ At(t, "gate")
  /\ gate' = t
  /\ Goto(t, AfterGate(call[t]))
  /\ UNCHANGED <<sealed, langVars, replacementVars, call, result>>

TakeGate(t) ==
  /\ At(t, "gate")
  /\ gate = NoThread
  /\ gate' = t
  /\ Goto(t, AfterGate(call[t]))
  /\ UNCHANGED <<sealed, langVars, replacementVars, call, result>>

Seal(t) ==
  /\ At(t, "seal")
  /\ Goto(t, "release")
  /\ sealed' = TRUE
  /\ Reply(t, "ok")
  /\ UNCHANGED <<gate, langVars, replacementVars, call>>

CheckSeal(t) ==
  /\ At(t, "check_seal")
  /\ \/ /\ sealed
        /\ Goto(t, "release")
        /\ Reply(t, "sealed")
     \/ /\ ~sealed
        /\ Goto(t, IF call[t].op = "register_lang" THEN "count" ELSE "table")
        /\ UNCHANGED result
  /\ UNCHANGED <<gate, sealed, langVars, replacementVars, call>>

-----------------------------------------------------------------------------
(***************************************************************************)
(* register_lang: the cap is checked under two read locks taken one after  *)
(* the other, the keys are validated under none, the insert and the flag   *)
(* store happen under one write lock.                                      *)
(***************************************************************************)
\* Mutant: the read guard of the count lives until the end of the call.
CountLangsKeepsGuard(t) ==
  /\ At(t, "count")
  /\ langsLock = NoThread
  /\ langsLock' = t
  /\ Goto(t, "validate")
  /\ UNCHANGED <<gate, sealed, langs, hasLangs, replacementVars, call, result>>

CountLangs(t) ==
  /\ At(t, "count")
  /\ langsLock = NoThread
  /\ Goto(t, IF Cardinality(Registered(langs)) < MAX_REGISTERED_LANGS
          THEN "validate" ELSE "has_lang")
  /\ UNCHANGED <<gate, sealed, langVars, replacementVars, call, result>>

\* Mutant: at the limit, overwriting a registered language is refused too.
HasLangNoOverwrite(t) ==
  /\ At(t, "has_lang")
  /\ langsLock = NoThread
  /\ Goto(t, "release")
  /\ Reply(t, "limit")
  /\ UNCHANGED <<gate, sealed, langVars, replacementVars, call>>

HasLang(t) ==
  /\ At(t, "has_lang")
  /\ langsLock = NoThread
  /\ \/ /\ call[t].lang \in Registered(langs)
        /\ Goto(t, "validate")
        /\ UNCHANGED result
     \/ /\ call[t].lang \notin Registered(langs)
        /\ Goto(t, "release")
        /\ Reply(t, "limit")
  /\ UNCHANGED <<gate, sealed, langVars, replacementVars, call>>

ValidateKeys(t) ==
  /\ At(t, "validate")
  /\ \/ /\ call[t].map = BadMap
        /\ Goto(t, "release")
        /\ Reply(t, "bad_keys")
     \/ /\ call[t].map # BadMap
        /\ Goto(t, "insert")
        /\ UNCHANGED result
  /\ UNCHANGED <<gate, sealed, langVars, replacementVars, call>>

InsertLang(t) ==
  /\ At(t, "insert")
  /\ langsLock = NoThread
  /\ langsLock' = t
  /\ langs' = [langs EXCEPT ![call[t].lang] = call[t].map]
  /\ Goto(t, "store_has_langs")
  /\ Reply(t, "ok")
  /\ UNCHANGED <<gate, sealed, hasLangs, replacementVars, call>>

\* Mutant: the flag says what the table held before the insert.
StoreHasLangsOneBehind(t) ==
  /\ At(t, "store_has_langs")
  /\ Goto(t, "release")
  /\ hasLangs' = (Registered(langs) \ {call[t].lang} # {})
  /\ langsLock' = NoThread
  /\ UNCHANGED <<gate, sealed, langs, replacementVars, call, result>>

StoreHasLangs(t) ==
  /\ At(t, "store_has_langs")
  /\ Goto(t, "release")
  /\ hasLangs' = (Registered(langs) # {})
  /\ langsLock' = NoThread
  /\ UNCHANGED <<gate, sealed, langs, replacementVars, call, result>>

-----------------------------------------------------------------------------
(***************************************************************************)
(* The replacement mutators: table, automaton and flag, in that order,     *)
(* all three under the table's write lock.                                 *)
(***************************************************************************)
MutateTable(t, new, r) ==
  /\ tableLock = NoThread
  /\ tableLock' = t
  /\ table' = new
  /\ Goto(t, "automaton")
  /\ Reply(t, r)
  /\ UNCHANGED <<gate, sealed, langVars, automaton, hasReplacements, torn, call>>

RegisterReplacements(t) ==
  LET new == call[t].new
  IN /\ At(t, "table")
     /\ call[t].op = "register_replacements"
     /\ \/ /\ Projected(table, new) > MAX_REPLACEMENTS
           /\ tableLock = NoThread
           /\ Goto(t, "release")
           /\ Reply(t, "limit")
           /\ UNCHANGED <<gate, sealed, langVars, replacementVars, call>>
        \/ /\ Projected(table, new) <= MAX_REPLACEMENTS
           /\ MutateTable(t, Extend(table, new), "ok")

RemoveReplacement(t) ==
  LET k == call[t].key
  IN /\ At(t, "table")
     /\ call[t].op = "remove_replacement"
     /\ MutateTable(t, [table EXCEPT ![k] = Absent],
                    IF k \in Entries(table) THEN "removed" ELSE "missing")

ClearReplacements(t) ==
  /\ At(t, "table")
  /\ call[t].op = "clear_replacements"
  /\ MutateTable(t, NoReplacements, "ok")

RebuildAutomaton(t) ==
  /\ At(t, "automaton")
  /\ Goto(t, "store_has_replacements")
  /\ automaton' = BuildAutomaton(table)
  /\ UNCHANGED <<gate, sealed, langVars, table, tableLock, hasReplacements,
                 torn, call, result>>

\* `.expect("replacement keys are valid aho-corasick patterns")` fires: the
\* unwinding thread drops, and so poisons, the table lock and then the gate.
BuildPanics(t) ==
  /\ At(t, "automaton")
  /\ MayPanic
  /\ Goto(t, "release")
  /\ tableLock' = NoThread
  /\ torn' = TRUE
  /\ Reply(t, "panicked")
  /\ UNCHANGED <<gate, sealed, langVars, table, automaton, hasReplacements, call>>

\* Mutant: removals leave the flag raised.
StoreHasReplacementsOnlyRaises(t) ==
  /\ At(t, "store_has_replacements")
  /\ Goto(t, "release")
  /\ hasReplacements' = (hasReplacements \/ Entries(table) # {})
  /\ tableLock' = NoThread
  /\ torn' = FALSE
  /\ UNCHANGED <<gate, sealed, langVars, table, automaton, call, result>>

StoreHasReplacements(t) ==
  /\ At(t, "store_has_replacements")
  /\ Goto(t, "release")
  /\ hasReplacements' = IF call[t].op = "clear_replacements"
                        THEN FALSE ELSE Entries(table) # {}
  /\ tableLock' = NoThread
  /\ torn' = FALSE
  /\ UNCHANGED <<gate, sealed, langVars, table, automaton, call, result>>

-----------------------------------------------------------------------------
\* The guard bound by `let _gate` is dropped as the call returns its answer.
ReleaseGate(t) ==
  /\ At(t, "release")
  /\ Goto(t, "idle")
  /\ gate' = NoThread
  /\ call' = [call EXCEPT ![t] = NoCall]
  /\ Reply(t, "none")
  /\ UNCHANGED <<sealed, langVars, replacementVars>>

Progress(t) ==
  \/ TakeGate(t) \/ Seal(t) \/ CheckSeal(t)
  \/ CountLangs(t) \/ HasLang(t) \/ ValidateKeys(t)
  \/ InsertLang(t) \/ StoreHasLangs(t)
  \/ RegisterReplacements(t) \/ RemoveReplacement(t) \/ ClearReplacements(t)
  \/ RebuildAutomaton(t) \/ BuildPanics(t) \/ StoreHasReplacements(t)
  \/ ReleaseGate(t)

Next == \E t \in Threads : Invoke(t) \/ Progress(t)

Spec == Init /\ [][Next]_vars

\* A started call keeps running; nobody is obliged to call.  The gate is a
\* std Mutex, which promises no order among waiters, so fairness is weak.
FairSpec == Spec /\ \A t \in Threads : WF_vars(Progress(t))

-----------------------------------------------------------------------------
(***************************************************************************)
(* What the mutators promise.                                              *)
(***************************************************************************)

\* Once the latch is set no table, automaton or flag ever changes again, not
\* even by a call that had passed its seal check before (mod.rs, the comment
\* on REGISTRATION_GATE).
Frozen == [][sealed => UNCHANGED tables]_vars

\* Racing registrations never share the last language slot: the check is two
\* reads and an insert under three separate lock acquisitions.
LangCapRespected == Cardinality(Registered(langs)) <= MAX_REGISTERED_LANGS

\* Racing registrations never push the replacement table over its limit.
ReplacementCapRespected == Cardinality(Entries(table)) <= MAX_REPLACEMENTS

\* Neither table passes its limit, whoever races with whom for the last place.
CapsRespected == LangCapRespected /\ ReplacementCapRespected

\* Whenever no call is inside the gate, everything derived from the tables
\* agrees with them: the compiled automaton ("the two never diverge") and
\* both fast-path flags ("kept in sync by every mutator").  A panic leaves
\* the replacement half torn until the next replacement mutation completes.
QuiescentInSync ==
  gate = NoThread =>
    /\ hasLangs = (Registered(langs) # {})
    /\ torn \/ /\ automaton = BuildAutomaton(table)
               /\ hasReplacements = (Entries(table) # {})

\* A call that holds the gate lets go of it: no early return, panic or inner
\* lock keeps it, so no later registration or seal waits forever behind it.
GateReleased == \A t \in Threads : (gate = t) ~> (gate # t)

Status(t) ==
  CASE pc[t] = "idle" -> "idle"
    [] pc[t] \in {"gate", "check_seal", "seal", "count", "has_lang",
                  "validate", "insert", "table"} -> "pending"
    [] OTHER -> "done"

Atomic == INSTANCE AtomicRegistration
            WITH status <- [t \in Threads |-> Status(t)]

\* Every call takes effect at one instant with the answer of that instant:
\* the seal, limit and key checks are never overtaken by another call.
ImplementsAtomic == Atomic!Spec
=============================================================================
