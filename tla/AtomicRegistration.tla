------------------------- MODULE AtomicRegistration -------------------------
(***************************************************************************)
(* What the registration API promises its callers: every call takes effect *)
(* at one instant between its invocation and its return, wholly or not at  *)
(* all, its answer is the one that instant justifies, and sealing is a     *)
(* one-way latch.  There are no locks and no caches here; Registration     *)
(* implements this with four locks, two flags and a compiled automaton.    *)
(***************************************************************************)
EXTENDS RegistrationTables

CONSTANTS
  Threads,
  Calls      \* the calls they make, a subset of AllCalls

VARIABLES sealed, langs, table, call, status, result

vars == <<sealed, langs, table, call, status, result>>

TypeOK ==
  /\ sealed \in BOOLEAN
  /\ langs \in LangTable
  /\ table \in ReplacementTable
  /\ call \in [Threads -> Calls \cup {NoCall}]
  /\ status \in [Threads -> {"idle", "pending", "done"}]
  /\ result \in [Threads -> Results]

Init ==
  /\ sealed = FALSE
  /\ langs = NoLangs
  /\ table = NoReplacements
  /\ call = [t \in Threads |-> NoCall]
  /\ status = [t \in Threads |-> "idle"]
  /\ result = [t \in Threads |-> "none"]

Invoke(t) ==
  /\ status[t] = "idle"
  /\ \E c \in Calls : call' = [call EXCEPT ![t] = c]
  /\ status' = [status EXCEPT ![t] = "pending"]
  /\ UNCHANGED <<sealed, langs, table, result>>

\* The instant of a pending call: it answers r and leaves the state given.
Answer(t, r) ==
  /\ status[t] = "pending"
  /\ status' = [status EXCEPT ![t] = "done"]
  /\ result' = [result EXCEPT ![t] = r]
  /\ UNCHANGED call

Refuse(t) ==
  /\ call[t].op # "seal_registrations"
  /\ sealed
  /\ Answer(t, "sealed")
  /\ UNCHANGED <<sealed, langs, table>>

OverLangLimit(l) ==
  /\ l \notin Registered(langs)
  /\ Cardinality(Registered(langs)) >= MAX_REGISTERED_LANGS

RegisterLang(t) ==
  LET l == call[t].lang
      m == call[t].map
  IN /\ call[t].op = "register_lang"
     /\ ~sealed
     /\ \/ /\ OverLangLimit(l)
           /\ Answer(t, "limit")
           /\ UNCHANGED langs
        \/ /\ ~OverLangLimit(l)
           /\ m = BadMap
           /\ Answer(t, "bad_keys")
           /\ UNCHANGED langs
        \/ /\ ~OverLangLimit(l)
           /\ m # BadMap
           /\ langs' = [langs EXCEPT ![l] = m]
           /\ Answer(t, "ok")
     /\ UNCHANGED <<sealed, table>>

RegisterReplacements(t) ==
  /\ call[t].op = "register_replacements"
  /\ ~sealed
  /\ \/ /\ Projected(table, call[t].new) > MAX_REPLACEMENTS
        /\ Answer(t, "limit")
        /\ UNCHANGED table
     \/ /\ Projected(table, call[t].new) <= MAX_REPLACEMENTS
        /\ table' = Extend(table, call[t].new)
        /\ Answer(t, "ok")
  /\ UNCHANGED <<sealed, langs>>

RemoveReplacement(t) ==
  /\ call[t].op = "remove_replacement"
  /\ ~sealed
  /\ table' = [table EXCEPT ![call[t].key] = Absent]
  /\ Answer(t, IF call[t].key \in Entries(table) THEN "removed" ELSE "missing")
  /\ UNCHANGED <<sealed, langs>>

ClearReplacements(t) ==
  /\ call[t].op = "clear_replacements"
  /\ ~sealed
  /\ table' = NoReplacements
  /\ Answer(t, "ok")
  /\ UNCHANGED <<sealed, langs>>

Seal(t) ==
  /\ call[t].op = "seal_registrations"
  /\ sealed' = TRUE
  /\ Answer(t, "ok")
  /\ UNCHANGED <<langs, table>>

\* A panic after the instant: the effect stays, the answer is lost.
Panic(t) ==
  /\ status[t] = "done"
  /\ result' = [result EXCEPT ![t] = "panicked"]
  /\ UNCHANGED <<sealed, langs, table, call, status>>

Return(t) ==
  /\ status[t] = "done"
  /\ status' = [status EXCEPT ![t] = "idle"]
  /\ call' = [call EXCEPT ![t] = NoCall]
  /\ result' = [result EXCEPT ![t] = "none"]
  /\ UNCHANGED <<sealed, langs, table>>

Next ==
  \E t \in Threads :
    \/ Invoke(t) \/ Refuse(t) \/ RegisterLang(t) \/ RegisterReplacements(t)
    \/ RemoveReplacement(t) \/ ClearReplacements(t) \/ Seal(t)
    \/ Panic(t) \/ Return(t)

Spec == Init /\ [][Next]_vars
=============================================================================
