------------------------- MODULE TransliterateCalls -------------------------
(***************************************************************************)
(* transliterate() calls running beside the registration mutators: the     *)
(* eager language check, the replacement pre-pass (flag, then automaton)   *)
(* and the per-character lookup of a registered language (flag, then       *)
(* table), each load and each read lock a step of its own.  A call handles *)
(* any number of items (a batch validates `lang` once), an item any number *)
(* of characters, so the engine's restart over a composed buffer is just   *)
(* more lookups.  Atomics are sequentially consistent here: what an        *)
(* Acquire load may still miss is left out.                                *)
(*                                                                         *)
(*   rpc, lang      where reader r is, the language of its call            *)
(*   prepass        the automaton its current item was replaced with       *)
(*   seen           the map its last lookup found, or NoMap                *)
(*                                                                         *)
(* The rest is history.  settledTable and settledLangs are what the last   *)
(* completed mutation left; window[r] and mapWindow[r] collect what a read *)
(* in progress may return: what was settled when it began, and everything  *)
(* written since.                                                          *)
(***************************************************************************)
EXTENDS Registration

CONSTANTS Readers, BuiltinLangs

ASSUME ReadersAssumption ==
  /\ BuiltinLangs \subseteq Langs
  /\ Readers \cap (Threads \cup {NoThread}) = {}

VARIABLES rpc, lang, prepass, seen,
          settledTable, settledLangs, window, mapWindow, sinceSeal

readerVars == <<rpc, lang, prepass, seen>>
historyVars == <<settledTable, settledLangs, window, mapWindow, sinceSeal>>
allVars == <<vars, readerVars, historyVars>>

ReaderLabels ==
  {"idle", "validate", "item", "automaton", "lookup", "read_lang", "looked"}

ReadersTypeOK ==
  /\ rpc \in [Readers -> ReaderLabels]
  /\ lang \in [Readers -> Langs \cup {NoMap}]
  /\ prepass \in [Readers -> ReplacementTable]
  /\ seen \in [Readers -> Maps \cup {NoMap}]
  /\ settledTable \in ReplacementTable
  /\ settledLangs \in LangTable
  /\ window \in [Readers -> SUBSET ReplacementTable]
  /\ mapWindow \in [Readers -> SUBSET (Maps \cup {NoMap})]
  /\ sinceSeal \in [Readers -> BOOLEAN]

CallsInit ==
  /\ Init
  /\ rpc = [r \in Readers |-> "idle"]
  /\ lang = [r \in Readers |-> NoMap]
  /\ prepass = [r \in Readers |-> NoReplacements]
  /\ seen = [r \in Readers |-> NoMap]
  /\ settledTable = NoReplacements /\ settledLangs = NoLangs
  /\ window = [r \in Readers |-> {}] /\ mapWindow = [r \in Readers |-> {}]
  /\ sinceSeal = [r \in Readers |-> FALSE]

ReaderAt(r, label) == rpc[r] = label
ReaderGoto(r, label) == rpc' = [rpc EXCEPT ![r] = label]

-----------------------------------------------------------------------------
StartCall(r, l) ==
  /\ ReaderAt(r, "idle")
  /\ ReaderGoto(r, "validate")
  /\ lang' = [lang EXCEPT ![r] = l]
  /\ UNCHANGED <<vars, prepass, seen, historyVars>>

EndOfCall(r) ==
  /\ ReaderGoto(r, "idle")
  /\ lang' = [lang EXCEPT ![r] = NoMap]
  /\ prepass' = [prepass EXCEPT ![r] = NoReplacements]
  /\ seen' = [seen EXCEPT ![r] = NoMap]
  /\ window' = [window EXCEPT ![r] = {}]
  /\ mapWindow' = [mapWindow EXCEPT ![r] = {}]
  /\ sinceSeal' = [sinceSeal EXCEPT ![r] = FALSE]
  /\ UNCHANGED <<vars, settledTable, settledLangs>>

\* is_valid_lang: a built-in needs no lock; an unknown code ends the call.
ValidateLang(r) ==
  /\ ReaderAt(r, "validate")
  /\ \/ /\ lang[r] \in BuiltinLangs \/ (langsLock = NoThread /\ lang[r] \in Registered(langs))
        /\ ReaderGoto(r, "item")
        /\ UNCHANGED <<vars, lang, prepass, seen, historyVars>>
     \/ /\ lang[r] \notin BuiltinLangs
        /\ langsLock = NoThread
        /\ lang[r] \notin Registered(langs)
        /\ EndOfCall(r)

-----------------------------------------------------------------------------
\* apply_replacements begins an item: with the flag down it borrows the text.
LoadHasReplacements(r) ==
  /\ ReaderAt(r, "item")
  /\ window' = [window EXCEPT ![r] = {settledTable, table}]
  /\ mapWindow' = [mapWindow EXCEPT ![r] = {}]
  /\ sinceSeal' = [sinceSeal EXCEPT ![r] = sealed]
  /\ prepass' = [prepass EXCEPT ![r] = NoReplacements]
  /\ seen' = [seen EXCEPT ![r] = NoMap]
  /\ ReaderGoto(r, IF hasReplacements THEN "automaton" ELSE "lookup")
  /\ UNCHANGED <<vars, lang, settledTable, settledLangs>>

\* The automaton's read lock is never contended for longer than one step.
ReadAutomaton(r) ==
  /\ ReaderAt(r, "automaton")
  /\ prepass' = [prepass EXCEPT ![r] = automaton]
  /\ ReaderGoto(r, "lookup")
  /\ UNCHANGED <<vars, lang, seen, historyVars>>

\* The replaced text would pass MAX_REPLACEMENT_OUTPUT_BYTES: the call fails.
OutputTooLarge(r) ==
  /\ ReaderAt(r, "automaton")
  /\ automaton # NoReplacements
  /\ EndOfCall(r)

\* lookup_registered, reached for a character the built-in map does not have.
LoadHasLangs(r) ==
  /\ ReaderAt(r, "lookup")
  /\ mapWindow' = [mapWindow EXCEPT ![r] = {settledLangs[lang[r]], langs[lang[r]]}]
  /\ seen' = [seen EXCEPT ![r] = NoMap]
  /\ ReaderGoto(r, IF hasLangs THEN "read_lang" ELSE "looked")
  /\ UNCHANGED <<vars, lang, prepass, settledTable, settledLangs, window, sinceSeal>>

ReadLang(r) ==
  /\ ReaderAt(r, "read_lang")
  /\ langsLock = NoThread
  /\ seen' = [seen EXCEPT ![r] = langs[lang[r]]]
  /\ ReaderGoto(r, "looked")
  /\ UNCHANGED <<vars, lang, prepass, historyVars>>

NextCharacter(r) ==
  /\ ReaderAt(r, "looked")
  /\ ReaderGoto(r, "lookup")
  /\ UNCHANGED <<vars, lang, prepass, seen, historyVars>>

NextItem(r) ==
  /\ rpc[r] \in {"lookup", "looked"}
  /\ ReaderGoto(r, "item")
  /\ UNCHANGED <<vars, lang, prepass, seen, historyVars>>

ReturnCall(r) ==
  /\ rpc[r] \in {"lookup", "looked"}
  /\ EndOfCall(r)

ReaderStep(r) ==
  \/ \E l \in Langs : StartCall(r, l)
  \/ ValidateLang(r)
  \/ LoadHasReplacements(r) \/ ReadAutomaton(r) \/ OutputTooLarge(r)
  \/ LoadHasLangs(r) \/ ReadLang(r)
  \/ NextCharacter(r) \/ NextItem(r) \/ ReturnCall(r)

-----------------------------------------------------------------------------
\* What a registration step adds to the history.
RecordMutation ==
  /\ settledTable' = IF gate' = NoThread /\ ~torn' THEN table' ELSE settledTable
  /\ settledLangs' = IF gate' = NoThread THEN langs' ELSE settledLangs
  /\ window' = [r \in Readers |->
       IF rpc[r] = "automaton" THEN window[r] \cup {table'} ELSE window[r]]
  /\ mapWindow' = [r \in Readers |->
       IF rpc[r] = "read_lang" THEN mapWindow[r] \cup {langs'[lang[r]]} ELSE mapWindow[r]]
  /\ UNCHANGED sinceSeal

CallsNext ==
  \/ Next /\ RecordMutation /\ UNCHANGED readerVars
  \/ \E r \in Readers : ReaderStep(r)

CallsSpec == CallsInit /\ [][CallsNext]_allVars

-----------------------------------------------------------------------------
(***************************************************************************)
(* What a reader may see.                                                  *)
(***************************************************************************)

\* The pre-pass of an item uses the replacements of one table version: the
\* one settled when the item began, or one written while it ran.  Two racing
\* sources (the flag and the automaton) never add up to a table nobody wrote.
PrePassRegular ==
  \A r \in Readers :
    rpc[r] \in {"lookup", "read_lang", "looked"} =>
      prepass[r] \in {BuildAutomaton(w) : w \in window[r]}

\* So does the lookup of each character in a registered language.
LookupRegular ==
  \A r \in Readers : rpc[r] = "looked" => seen[r] \in mapWindow[r]

\* A registered language that passed validate_lang answers every later lookup
\* of the call: validation happens once, the flag and the table are read anew
\* for each character, and no later state of either drops the language.
ValidatedLangAnswers ==
  \A r \in Readers :
    rpc[r] = "looked" /\ lang[r] \notin BuiltinLangs => seen[r] # NoMap

\* What a call is answered from is something a mutator has written and finished
\* writing: the table one item is replaced with, the map of each lookup, and the
\* language that was there when the call began.
AnswersRegular == PrePassRegular /\ LookupRegular /\ ValidatedLangAnswers

\* An item begun after sealing is replaced with the table as it stays for ever,
\* whatever was running when the seal was set (#64).
SealedItemsAgree ==
  \A r \in Readers :
    /\ rpc[r] \in {"lookup", "read_lang", "looked"}
    /\ sinceSeal[r] /\ ~torn
    => prepass[r] = BuildAutomaton(table)
=============================================================================
