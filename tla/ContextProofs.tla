---------------------------- MODULE ContextProofs ---------------------------
(***************************************************************************)
(* Proofs about the calls that transliterate in context, for every set of  *)
(* calls and of files.  That a call has one answer in the life of a        *)
(* process needs to be known of every answer given: it is the answer the   *)
(* call would get now, and what it was read from will not be read again.   *)
(* A call refused for a corrupt Persian dictionary may be followed by one  *)
(* that reads the Arabic, and stays refused.                               *)
(***************************************************************************)
EXTENDS TextCalls, TLAPS

\* Something or nothing.
IsOption(x) == x = <<>> \/ x = <<x[1]>>

\* What is kept of the dictionaries: nothing, or <<what was there>>.
IsKept(state) ==
  /\ state = [n \in DOMAIN Files |-> state[n]]
  /\ \A n \in DOMAIN Files : IsOption(state[n]) /\ (state[n] # <<>> => IsOption(state[n][1]))

\* The dictionaries a language is answered from have been read.
Settled(state, lang) ==
  IF lang = "he" THEN state["hebrew"] # <<>>
  ELSE IF lang # "fa" THEN state["arabic"] # <<>>
  ELSE state["persian"] # <<>> /\ (IsCorrupt(state["persian"][1]) \/ state["arabic"] # <<>>)

\* Nothing that was read is read again.
KeepsAll(old, new) == \A n \in DOMAIN Files : old[n] # <<>> => new[n] = old[n]

\* The language a call is answered in.
LangOfCall(c) == LangOf(c.option.lang, c.text)

\* Every answer given is the one the call would get now, and always.
AnswersStand ==
  \A g \in given :
    /\ g[2] = TransliterateContext(g[1].text, g[1].option, loaded)
    /\ Settled(loaded, LangOfCall(g[1]))

\* The inductive invariant.
IInv == IsKept(loaded) /\ AnswersStand

-----------------------------------------------------------------------------
(***************************************************************************)
(* Reading dictionaries.                                                   *)
(***************************************************************************)
\* One dictionary is read, and only if it was not.
LEMMA LoadKeeps ==
  ASSUME NEW state, NEW files, NEW name \in DOMAIN Files, IsKept(state)
  PROVE  LET new == Load(state, files, name)
         IN IsKept(new) /\ KeepsAll(state, new) /\ new[name] # <<>>
<1> DEFINE read == FromDisk(files[name])
<1>1. IsOption(read)
  BY DEF FromDisk, IsOption
<1>2. CASE state[name] # <<>>
  BY <1>2 DEF Load, KeepsAll
<1>3. CASE state[name] = <<>>
  <2>1. Load(state, files, name) = [state EXCEPT ![name] = <<read>>]
    BY <1>3 DEF Load
  <2> HIDE DEF read
  <2>2. /\ <<read>>[1] = read
        /\ <<read>> # <<>>
        /\ IsOption(<<read>>)
    BY DEF IsOption
  <2> QED
    BY <1>1, <1>3, <2>1, <2>2 DEF IsKept, KeepsAll
<1> QED
  BY <1>2, <1>3

\* A call reads every dictionary it is answered from, and nothing again.
LEMMA LoadForSettles ==
  ASSUME NEW state, NEW files, NEW lang, IsKept(state)
  PROVE  LET new == LoadFor(state, files, lang)
         IN IsKept(new) /\ KeepsAll(state, new) /\ Settled(new, lang)
<1> DEFINE persian == Load(state, files, "persian")
<1>1. {"arabic", "persian", "hebrew"} \subseteq DOMAIN Files
  BY TextCallsAssumption
<1>2. CASE lang # "fa"
  BY <1>1, <1>2, LoadKeeps DEF LoadFor, Settled
<1>3. CASE lang = "fa"
  <2>1. IsKept(persian) /\ KeepsAll(state, persian) /\ persian["persian"] # <<>>
    BY <1>1, LoadKeeps
  <2>2. CASE IsCorrupt(persian["persian"][1])
    BY <1>3, <2>1, <2>2 DEF LoadFor, Settled
  <2>3. CASE ~IsCorrupt(persian["persian"][1])
    <3> DEFINE both == Load(persian, files, "arabic")
    <3>1. IsKept(both) /\ KeepsAll(persian, both) /\ both["arabic"] # <<>>
      BY <1>1, <2>1, LoadKeeps
    <3>2. LoadFor(state, files, lang) = both
      BY <1>3, <2>3 DEF LoadFor
    <3> HIDE DEF both, persian
    <3>3. KeepsAll(state, both) /\ both["persian"] # <<>>
      BY <1>1, <2>1, <3>1 DEF KeepsAll
    <3> QED
      BY <1>3, <3>1, <3>2, <3>3 DEF Settled
  <2> QED
    BY <2>2, <2>3
<1> QED
  BY <1>2, <1>3

-----------------------------------------------------------------------------
(***************************************************************************)
(* What the answer of a call depends on.                                   *)
(***************************************************************************)
\* What there is of each dictionary, as TransliterateContext takes it.
Present(state) == [n \in DOMAIN state |-> IF state[n] = <<>> THEN <<>> ELSE state[n][1]]

\* What is settled for a language stays settled.
LEMMA SettledStays ==
  ASSUME NEW old, NEW new, NEW lang, KeepsAll(old, new), Settled(old, lang)
  PROVE  Settled(new, lang)
BY TextCallsAssumption DEF KeepsAll, Settled

\* Whether a corrupt dictionary is among those consulted, and which they are
\* when none is, does not change once they have been read.
LEMMA ConsultedStays ==
  ASSUME NEW old, NEW new, NEW lang,
         IsKept(old), IsKept(new), KeepsAll(old, new), Settled(old, lang)
  PROVE  \/ Consulted(Present(new), lang) = Consulted(Present(old), lang)
         \/ /\ \E i \in DOMAIN Consulted(Present(old), lang) :
                 Consulted(Present(old), lang)[i].corrupt
            /\ \E i \in DOMAIN Consulted(Present(new), lang) :
                 Consulted(Present(new), lang)[i].corrupt
<1>1. {"arabic", "persian", "hebrew"} \subseteq DOMAIN Files
  BY TextCallsAssumption
<1>2. DOMAIN old = DOMAIN Files /\ DOMAIN new = DOMAIN Files
  BY DEF IsKept
<1>3. ASSUME NEW n \in DOMAIN Files, old[n] # <<>>
      PROVE  Present(new)[n] = Present(old)[n]
  BY <1>2, <1>3 DEF KeepsAll, Present
<1>4. CASE lang # "fa"
  BY <1>1, <1>3, <1>4 DEF Settled, Consulted
<1>5. CASE lang = "fa" /\ old["arabic"] # <<>>
  BY <1>1, <1>3, <1>5 DEF Settled, Consulted
<1>6. CASE lang = "fa" /\ old["persian"] # <<>> /\ IsCorrupt(old["persian"][1])
  <2>1. PICK d : old["persian"][1] = <<d>> /\ d.corrupt
    BY <1>1, <1>6 DEF IsCorrupt, IsKept, IsOption
  <2>2. /\ Present(old)["persian"] = <<d>>
        /\ Present(new)["persian"] = <<d>>
    BY <1>1, <1>2, <1>3, <1>6, <2>1 DEF Present
  <2>3. ASSUME NEW state, IsKept(state), Present(state)["persian"] = <<d>>
        PROVE  \E i \in DOMAIN Consulted(Present(state), lang) :
                 Consulted(Present(state), lang)[i].corrupt
    <3> DEFINE arabic == Present(state)["arabic"]
    <3>1. IsOption(arabic)
      BY <1>1, <2>3 DEF IsKept, IsOption, Present
    <3>2. Consulted(Present(state), lang) = <<d>> \o arabic
      BY <1>6, <2>3 DEF Consulted
    <3> HIDE DEF arabic
    <3>3. 1 \in DOMAIN (<<d>> \o arabic) /\ (<<d>> \o arabic)[1] = d
      <4>1. CASE arabic = <<>>
        BY <4>1
      <4>2. CASE arabic = <<arabic[1]>>
        BY <4>2
      <4> QED
        BY <3>1, <4>1, <4>2 DEF IsOption
    <3> QED
      BY <2>1, <3>2, <3>3
  <2> QED
    BY <2>2, <2>3
<1> QED
  BY <1>4, <1>5, <1>6 DEF Settled

\* What is answered stays the answer.
LEMMA AnswerStays ==
  ASSUME NEW s, NEW how, NEW old, NEW new, IsKept(old), IsKept(new), KeepsAll(old, new),
         Settled(old, LangOf(how.lang, s))
  PROVE  TransliterateContext(s, how, new) = TransliterateContext(s, how, old)
<1> DEFINE lang == LangOf(how.lang, s)
<1>1. \/ Consulted(Present(new), lang) = Consulted(Present(old), lang)
      \/ /\ \E i \in DOMAIN Consulted(Present(old), lang) :
              Consulted(Present(old), lang)[i].corrupt
         /\ \E i \in DOMAIN Consulted(Present(new), lang) :
              Consulted(Present(new), lang)[i].corrupt
  BY ConsultedStays
<1> QED
  BY <1>1 DEF TransliterateContext, Present

-----------------------------------------------------------------------------
(***************************************************************************)
(* The invariant.                                                          *)
(***************************************************************************)
\* At first nothing has been read and no answer given.
LEMMA Initially == Init => IInv
BY DEF Init, IInv, IsKept, IsOption, AnswersStand

\* A call in context keeps what was read and answers from what it leaves.
LEMMA ReadKeeps ==
  ASSUME IInv, ReadInContext
  PROVE  IInv'
<1> DEFINE lang == LangOf(call.option.lang, call.text)
<1>1. loaded' = LoadFor(loaded, disk, lang)
  BY DEF ReadInContext
<1>2. IsKept(loaded') /\ KeepsAll(loaded, loaded') /\ Settled(loaded', lang)
  BY <1>1, LoadForSettles DEF IInv
<1>3. ASSUME NEW g \in given
      PROVE  /\ g[2] = TransliterateContext(g[1].text, g[1].option, loaded')
             /\ Settled(loaded', LangOfCall(g[1]))
  <2>1. /\ g[2] = TransliterateContext(g[1].text, g[1].option, loaded)
        /\ Settled(loaded, LangOf(g[1].option.lang, g[1].text))
    BY DEF IInv, AnswersStand, LangOfCall
  <2> QED
    BY <1>2, <2>1, AnswerStays, SettledStays DEF IInv, LangOfCall
<1> DEFINE new == <<call, TransliterateContext(call.text, call.option, loaded')>>
<1>4. given' = given \cup {new}
  BY DEF ReadInContext
<1>5. /\ new[2] = TransliterateContext(new[1].text, new[1].option, loaded')
      /\ Settled(loaded', LangOfCall(new[1]))
  BY <1>2 DEF LangOfCall
<1> HIDE DEF new
<1> QED
  BY <1>2, <1>3, <1>4, <1>5 DEF IInv, AnswersStand

\* No other step reads a dictionary or answers a call in context.
LEMMA Invariant == Spec => []IInv
<1>1. IInv /\ [Next]_vars => IInv'
  <2> SUFFICES ASSUME IInv, [Next]_vars
               PROVE  IInv'
    OBVIOUS
  <2>1. CASE ReadInContext
    BY <2>1, ReadKeeps
  <2>2. CASE UNCHANGED <<loaded, given>>
    BY <2>2 DEF IInv, IsKept, AnswersStand
  <2> QED
    BY <2>1, <2>2 DEF Next, Return, AskAgain, FilesChange, vars
<1> QED
  BY <1>1, Initially, PTL DEF Spec

\* A call in context has one answer in the life of a process (the dictionaries
\* of context.rs are read once), whatever files are installed meanwhile.
THEOREM OneAnswerInContext == Spec => []ContextKept
<1>1. IInv => ContextKept
  BY DEF IInv, AnswersStand, ContextKept
<1> QED
  BY <1>1, Invariant, PTL
=============================================================================
