--------------------------- MODULE Transliterator ---------------------------
(***************************************************************************)
(* A call of the engine, attempt by attempt (transliterate_impl_inner):    *)
(* the text itself is walked until a character appears that composition    *)
(* could change; then what was collected is dropped and the composed text  *)
(* is walked from the start.  "strict" stops at the first character that   *)
(* cannot be translated and refuses the text.                              *)
(*                                                                         *)
(*   text, kind, lang    the call                                          *)
(*   phase, buffer       the attempt and what it walks                     *)
(*   at, walk            the next character and the state of the walk      *)
(*   report              what the collector holds at the end, in places of *)
(*                       the text                                          *)
(***************************************************************************)
EXTENDS Transliteration

CONSTANTS
  Texts,
  Langs,
  ReplaceWith    \* the replacement strings a caller gives

VARIABLES text, kind, lang, phase, buffer, at, walk, report

call == <<text, kind, lang>>
vars == <<call, phase, buffer, at, walk, report>>

Kinds == {<<"find", <<>>>>, <<"strict", <<>>>>, <<"ignore", <<>>>>, <<"preserve", <<>>>>}
           \cup {<<"replace", r>> : r \in ReplaceWith}

\* find and strict walk as "ignore" does.
Errors == IF kind[1] \in {"find", "strict"} THEN "ignore" ELSE kind[1]
How == Call(LangOf(lang, buffer), Errors, kind[2])
Collects == kind[1] \in {"find", "strict"}

TypeOK ==
  /\ text \in Texts /\ kind \in Kinds /\ lang \in Langs
  /\ phase \in {"call", "fast", "composed", "done", "refused"}
  /\ buffer \in Seq(Chars) /\ at \in 1..(Len(buffer) + 1)
  /\ walk.out \in Seq(Chars) /\ Len(walk.last) <= 1
  /\ report \in Seq(Chars \X Nat)

Init ==
  /\ text \in Texts /\ kind \in Kinds /\ lang \in Langs
  /\ phase = "call" /\ buffer = text /\ at = 1 /\ walk = NewWalk /\ report = <<>>

AsciiText ==
  /\ phase = "call" /\ IsAscii(text)
  /\ phase' = "done" /\ walk' = [walk EXCEPT !.out = text]
  /\ UNCHANGED <<call, buffer, at, report>>

Begin ==
  /\ phase = "call" /\ ~IsAscii(text)
  /\ phase' = "fast"
  /\ UNCHANGED <<call, buffer, at, walk, report>>

Walking == phase \in {"fast", "composed"} /\ at <= Len(buffer)
Seen == buffer[at] \notin AsciiChars

\* What the second attempt starts from: the collector is cut back.
Restarted(w) == NewWalk
\* Mutant: the collector keeps what the attempt given up had collected.
RestartedFull(w) == [NewWalk EXCEPT !.found = w.found]
AfterBail(w) == Restarted(w)

Bail ==
  /\ phase = "fast" /\ Walking /\ Seen /\ CouldCompose(buffer[at])
  /\ phase' = "composed" /\ buffer' = Composed(text) /\ at' = 1
  /\ walk' = AfterBail(walk)
  /\ UNCHANGED <<call, report>>

CopyAscii ==
  /\ Walking /\ ~Seen
  /\ walk' = TakeAscii(walk, buffer[at]) /\ at' = at + 1
  /\ UNCHANGED <<call, phase, buffer, report>>

\* The character in hand after the Indic rule.
Now == AfterIndic(walk, buffer[at], Lookup(How.lang, buffer[at]))
Steady == Walking /\ Seen /\ ~(phase = "fast" /\ CouldCompose(buffer[at]))

Map ==
  /\ Steady /\ Now.row # <<>>
  /\ walk' = TakeMapped(Now.walk, buffer[at], Now.row[1]) /\ at' = at + 1
  /\ UNCHANGED <<call, phase, buffer, report>>

\* What the collector says of the walk, as the text's own characters.
Reported(w) ==
  LET place(k) == IF phase = "composed" THEN Origins(text)[w.found[k][2]] ELSE w.found[k][2]
  IN IF ~Collects THEN <<>>
     ELSE [k \in DOMAIN w.found |-> <<text[place(k)], place(k)>>]

Close(w) ==
  /\ report' = Reported(w)
  /\ phase' = IF kind[1] = "strict" /\ w.found # <<>> THEN "refused" ELSE "done"

\* The strict call stops here, whatever the recovery wrote.
Miss ==
  /\ Steady /\ Now.row = <<>>
  /\ \E w \in {TakeUnmapped(Now.walk, How, buffer[at], at)} :
       /\ walk' = w /\ at' = at + 1
       /\ IF kind[1] = "strict" /\ w.found # walk.found
          THEN Close(w)
          ELSE UNCHANGED <<phase, report>>
  /\ UNCHANGED <<call, buffer>>

Finish ==
  /\ phase \in {"fast", "composed"} /\ at > Len(buffer)
  /\ Close(walk)
  /\ UNCHANGED <<call, buffer, at, walk>>

Next == AsciiText \/ Begin \/ Bail \/ CopyAscii \/ Map \/ Miss \/ Finish

Spec == Init /\ [][Next]_vars

-----------------------------------------------------------------------------
Answer(errors, replacement, s) == Transliterate(lang, errors, replacement, s)

\* Strict refuses exactly the texts find reports something of, and names the
\* first character find names; with nothing to name it answers what every error
\* mode answers.
StrictIsFirstOfFind ==
  kind[1] = "strict" =>
    LET all == Untranslatable(lang, text)
    IN /\ phase = "refused" => report = <<all[1]>>
       /\ phase = "done" => /\ all = <<>>
                            /\ \A r \in ReplaceWith : walk.out = Answer("replace", r, text)
                            /\ walk.out = Answer("preserve", <<>>, text)

\* The report says which characters an error mode acts on: none when all modes
\* answer alike, at least one when they differ, and each one is the text's own
\* character at a place of its own.
ReportMatchesOutput ==
  kind[1] = "find" /\ phase = "done" =>
    /\ report = Untranslatable(lang, text)
    /\ \A j, k \in DOMAIN report : j < k => report[j][2] # report[k][2]
    /\ \A k \in DOMAIN report : report[k][1] = text[report[k][2]]
    /\ (report = <<>>) <=> \A r \in ReplaceWith \ {<<>>} :
                             Answer("replace", r, text) = Answer("ignore", <<>>, text)

\* find, strict and the answers tell of the same characters.
ReportTrue == StrictIsFirstOfFind /\ ReportMatchesOutput

\* The answer does not depend on the normal form the text is spelled in, and a
\* composed text and its decomposed spelling are refused alike.
SpellingInvariant ==
  phase = "done" =>
    /\ walk.out = Answer(Errors, kind[2], NFD(text))
    /\ walk.out = Answer(Errors, kind[2], NFC(text))

\* Every character writes its own piece: nothing a character wrote is taken but
\* the vowel of a consonant by the sign right behind it.
Pieces(how, s) ==
  LET signed(i) == i < Len(s) /\ s[i + 1] \notin AsciiChars /\ IsSign(s[i + 1])
      row(i) == Lookup(how.lang, s[i])
      vowel(i) == i >= 1 /\ s[i] \notin AsciiChars /\ Opens(s[i], row(i)) /\ signed(i)
      piece(i) ==
        IF s[i] \in AsciiChars THEN <<s[i]>>
        ELSE IF row(i) # <<>> THEN IF vowel(i) THEN Front(row(i)[1]) ELSE row(i)[1]
        ELSE IF i > 1 /\ vowel(i - 1) THEN <<>>
        ELSE TakeUnmapped(NewWalk, how, s[i], i).out
  IN FlattenSeq([i \in DOMAIN s |-> piece(i)])

WithoutSpaces(s) == SelectSeq(s, LAMBDA c : c # Space)

OwnPieces ==
  phase = "done" =>
    WithoutSpaces(walk.out) = WithoutSpaces(Pieces(How, buffer))
=============================================================================
