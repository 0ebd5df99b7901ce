-------------------------- MODULE ContextDictionary -------------------------
(***************************************************************************)
(* Context-aware transliteration (context.rs): unpointed Arabic, Persian   *)
(* and Hebrew words are looked up in a dictionary by their skeleton, with  *)
(* the word before them where that decides, and the pointed form is        *)
(* transliterated.  A dictionary file is <<>> where there is none, else    *)
(* <<f>>; what is kept of it is <<>>, or <<state>> with state.corrupt.     *)
(***************************************************************************)
EXTENDS Transliteration

CONSTANTS
  ContextWord,    \* the characters of Arabic and Hebrew words
  Niqqud,         \* the Hebrew vowel points
  Tashkeel,       \* the Arabic ones, and the tatweel
  HardBoundaries  \* newlines and what ends a sentence

-----------------------------------------------------------------------------
(***************************************************************************)
(* A dictionary file is its header and the records behind it; what is      *)
(* built of it, with the first record of every key, is looked up in.       *)
(***************************************************************************)
HEADER == 24   \* bytes

\* Records claimed and not there are reads past the end.
IsMalformed(f) ==
  \/ f.magic # "TRLD" \/ f.version # 1
  \/ f.unigramOffset < HEADER \/ f.bigramOffset < HEADER
  \/ f.unigramCount > Len(f.unigrams) \/ f.bigramCount > Len(f.bigrams)

\* Sorted and deduplicated: the first of a key's values.
ByKey(pairs) ==
  LET place(key) == Min({i \in DOMAIN pairs : pairs[i][1] = key})
  IN [key \in {pairs[i][1] : i \in DOMAIN pairs} |-> pairs[place(key)][2]]

\* A skeleton without forms is left out.
Build(f) ==
  LET unigrams == SelectSeq(SubSeq(f.unigrams, 1, f.unigramCount), LAMBDA r : r.forms # <<>>)
      bigrams == SubSeq(f.bigrams, 1, f.bigramCount)
  IN IF IsMalformed(f) THEN [corrupt |-> TRUE]
     ELSE [corrupt |-> FALSE,
           unigrams |-> ByKey([i \in DOMAIN unigrams |-> <<unigrams[i].skeleton, unigrams[i].forms[1]>>]),
           bigrams |-> ByKey([i \in DOMAIN bigrams |-> << <<bigrams[i].prev, bigrams[i].curr>>, bigrams[i].form>>])]

\* <<form>>, or <<>>; `prev` is <<>> or <<the skeleton before>>.
Resolve(dict, prev, skeleton) ==
  IF prev # <<>> /\ <<prev[1], skeleton>> \in DOMAIN dict.bigrams THEN <<dict.bigrams[<<prev[1], skeleton>>]>>
  ELSE IF skeleton \in DOMAIN dict.unigrams THEN <<dict.unigrams[skeleton]>>
  ELSE <<>>

StripDiacritics(word, lang) ==
  SelectSeq(word, LAMBDA c : c \notin (IF lang = "he" THEN Niqqud ELSE Tashkeel))

\* tokenize: runs of word characters and runs of the others.
Tokens(s) ==
  LET take(tokens, c) ==
        IF tokens # <<>> /\ Last(tokens).isWord = (c \in ContextWord)
        THEN Append(Front(tokens), [Last(tokens) EXCEPT !.text = Append(@, c)])
        ELSE Append(tokens, [text |-> <<c>>, isWord |-> c \in ContextWord])
  IN FoldLeft(take, <<>>, s)

IsContextBoundary(s) == \E i \in DOMAIN s : s[i] \in HardBoundaries

\* The walk over the tokens: what is written, and the skeleton before.
Contextual(s, how, dict, fallback) ==
  LET spell(t) == Transliterate(how.lang, how.errors, how.replacement, t)
      given(prev, skeleton) ==
        LET own == Resolve(dict, prev, skeleton)
        IN IF own # <<>> \/ fallback = <<>> THEN own ELSE Resolve(fallback[1], prev, skeleton)
      word(w, t) ==
        LET skeleton == StripDiacritics(t, how.lang)
            form == given(w.prev, skeleton)
        IN [out |-> w.out \o spell(IF form = <<>> THEN t ELSE form[1]), prev |-> <<skeleton>>]
      other(w, t) ==
        [out |-> w.out \o spell(t), prev |-> IF IsContextBoundary(t) THEN <<>> ELSE w.prev]
      step(w, t) == IF t.isWord THEN word(w, t.text) ELSE other(w, t.text)
  IN FoldLeft(step, [out |-> <<>>, prev |-> <<>>], Tokens(s)).out

-----------------------------------------------------------------------------
(***************************************************************************)
(* Which dictionaries a call reads.  Each is read once in the life of the  *)
(* process: `loaded` has <<state>> for those that were, and `disk` the     *)
(* files in the order they are searched.                                   *)
(***************************************************************************)
\* load_dict_from_fs: the first file there is decides, malformed or not.
FromDisk(files) == LET there == SelectSeq(files, LAMBDA f : f # <<>>)
                   IN IF there = <<>> THEN <<>> ELSE <<Build(there[1][1])>>

\* Mutant: a dictionary that was not there is looked for again.
LoadFoundOnly(loaded, disk, name) ==
  IF loaded[name] \notin {<<>>, << <<>> >>} THEN loaded
  ELSE [loaded EXCEPT ![name] = <<FromDisk(disk[name])>>]
\* get_arabic_dict and its like: a dictionary that was read stays what it was.
Load(loaded, disk, name) ==
  IF loaded[name] # <<>> THEN loaded ELSE [loaded EXCEPT ![name] = <<FromDisk(disk[name])>>]

IsCorrupt(state) == state # <<>> /\ state[1].corrupt

\* The dictionaries read for a language: the Arabic one is not looked at when
\* the Persian is corrupt.
LoadFor(loaded, disk, lang) ==
  IF lang = "he" THEN Load(loaded, disk, "hebrew")
  ELSE IF lang # "fa" THEN Load(loaded, disk, "arabic")
  ELSE LET persian == Load(loaded, disk, "persian")
       IN IF IsCorrupt(persian["persian"][1]) THEN persian
          ELSE Load(persian, disk, "arabic")

\* <<first, fallback>> of the dictionaries that are there.
Consulted(state, lang) ==
  IF lang = "he" THEN state["hebrew"]
  ELSE IF lang # "fa" THEN state["arabic"]
  ELSE state["persian"] \o state["arabic"]

\* The answer, given what LoadFor left: "corrupt", "not found" or a text.
TransliterateContext(s, how, state) ==
  LET lang == LangOf(how.lang, s)
      dicts == Consulted([n \in DOMAIN state |-> IF state[n] = <<>> THEN <<>> ELSE state[n][1]], lang)
  IN IF \E i \in DOMAIN dicts : dicts[i].corrupt THEN [kind |-> "corrupt"]
     ELSE IF dicts = <<>> THEN [kind |-> "not found"]
     ELSE [kind |-> "text", text |-> Contextual(s, [how EXCEPT !.lang = lang], dicts[1], Tail(dicts))]
=============================================================================
