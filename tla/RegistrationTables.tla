------------------------- MODULE RegistrationTables -------------------------
(***************************************************************************)
(* The data of disarm's process-global registration tables                 *)
(* (src/src/tables/mod.rs): the constants every registration module shares *)
(* and the pure operators on a table.  A language's `char -> String` map   *)
(* is one value of Maps, a replacement's string one value of Values.       *)
(***************************************************************************)
EXTENDS Integers, FiniteSets

CONSTANTS
  Langs,                  \* language codes a caller may register
  Maps,                   \* mappings whose keys are all single characters
  BadMap,                 \* a mapping with a key of zero or several characters
  NoMap,                  \* "not registered"
  Keys,                   \* replacement keys
  EmptyKey,               \* the key "" (a member of Keys or not)
  Values,                 \* replacement values
  Absent,                 \* "no such key"
  MAX_REGISTERED_LANGS,   \* limits.rs: 100
  MAX_REPLACEMENTS        \* limits.rs: 10 000

ASSUME TablesAssumption ==
  /\ IsFiniteSet(Langs) /\ IsFiniteSet(Keys)
  /\ NoMap \notin Maps \cup {BadMap}
  /\ BadMap \notin Maps
  /\ Absent \notin Values
  /\ MAX_REGISTERED_LANGS \in Nat /\ MAX_REPLACEMENTS \in Nat

LangTable == [Langs -> Maps \cup {NoMap}]
ReplacementTable == [Keys -> Values \cup {Absent}]

NoLangs == [l \in Langs |-> NoMap]
NoReplacements == [k \in Keys |-> Absent]

\* The languages present in a LANG_TABLES value.
Registered(langs) == {l \in Langs : langs[l] # NoMap}

\* The keys present in a GLOBAL_REPLACEMENTS value.
Entries(table) == {k \in Keys : table[k] # Absent}

\* `HashMap::extend`: new entries win.
Extend(table, new) ==
  [k \in Keys |-> IF new[k] # Absent THEN new[k] ELSE table[k]]

\* The size register_replacements compares with the limit.
Projected(table, new) ==
  Cardinality(Entries(table)) + Cardinality(Entries(new) \ Entries(table))

\* The automaton holds every non-empty key; NoReplacements is its `None`.
BuildAutomaton(table) ==
  [k \in Keys |-> IF k = EmptyKey THEN Absent ELSE table[k]]

(***************************************************************************)
(* The calls of the registration API, and the answers they return.         *)
(***************************************************************************)
RegisterLangCalls ==
  [op : {"register_lang"}, lang : Langs, map : Maps \cup {BadMap}]
RegisterReplacementsCalls ==
  [op : {"register_replacements"}, new : ReplacementTable]
RemoveCalls == [op : {"remove_replacement"}, key : Keys]
ClearCalls == [op : {"clear_replacements"}]
SealCalls == [op : {"seal_registrations"}]

AllCalls ==
  RegisterLangCalls \cup RegisterReplacementsCalls \cup RemoveCalls
    \cup ClearCalls \cup SealCalls

NoCall == [op |-> "none"]

Results ==
  {"none", "ok", "sealed", "limit", "bad_keys", "removed", "missing", "panicked"}
=============================================================================
