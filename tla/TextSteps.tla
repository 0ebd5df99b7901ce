------------------------------ MODULE TextSteps -----------------------------
(***************************************************************************)
(* The steps a preset is a list of, each a rewriting of the text           *)
(* (presets/steps.rs and the leaves it calls), over an alphabet whose      *)
(* Unicode data are constants.                                             *)
(***************************************************************************)
EXTENDS FoldRules

CONSTANTS
  Class,             \* the predicates a character satisfies, a subset of Classes
  Script,            \* "Common", "Inherited" or the name of a script
  CaseFold,          \* full case folding: character to string
  Prototype,         \* TR39's last classes: "I" to "l", and of "1" and "0"
  Registered,        \* base and presentation selector, where Unicode registers them
  Flags,             \* the tag sequences that end a subdivision flag
  DEFAULT_MAX_MARKS, \* zalgo.rs: 3
  CONFUSABLE_FIXED_POINT_ITERS   \* presets/mod.rs: 8

Classes == {"prototype", "erase", "break", "control", "space", "blank", "bidi", "format", "zerowidth", "ignorable",
            "selector", "mongolian selector", "emoji style", "tag", "flag", "nonchar", "pua", "cgj",
            "overlay", "keycap base", "keycap"}

ASSUME TextStepsAssumption ==
  /\ Class \in [Chars -> SUBSET Classes]
  /\ DOMAIN Script = Chars
  /\ DOMAIN CaseFold \subseteq Chars /\ DOMAIN Prototype \subseteq Chars
  /\ DEFAULT_MAX_MARKS \in Nat /\ CONFUSABLE_FIXED_POINT_ITERS \in Nat \ {0}

In(c, kinds) == Class[c] \cap kinds # {}

-----------------------------------------------------------------------------
(***************************************************************************)
(* The predicates by code point: the characters that show nothing of their *)
(* own (invisibles.rs), and those that space, break and direct a text.     *)
(***************************************************************************)
IsLineBreak(cp) == cp \in 10..13 \cup {\h85, \h2028, \h2029}

IsFoldWhitespace(cp) ==
  cp \in 9..13 \cup 28..32 \cup {\h85, \hA0, \h1680, \h202F, \h205F, \h3000} \cup \h2000..\h200A \cup \h2028..\h2029

IsBlankRender(cp) == cp \in {\h2800, \h115F, \h1160, \h3164, \hFFA0}

IsControl(cp) == cp \in 0..31 \cup 127..159

IsBidiControl(cp) == cp \in {\h61C, \h200E, \h200F} \cup \h202A..\h202E \cup \h2066..\h2069

\* The soft hyphen, which the bidi strip takes too, and the deprecated controls.
IsFormat(cp) == cp \in {\hAD} \cup \h206A..\h206F \cup \hFFF9..\hFFFB

IsNoncharacter(cp) == cp \in \hFDD0..\hFDEF \/ cp % 65536 >= \hFFFE

\* Ignorable are the default-ignorable code points no other kind holds.
IsUnseen(kind, cp) ==
  CASE kind = "zerowidth" -> cp \in \h200B..\h200D \cup \h2060..\h2064 \cup {\hFEFF, \h180E}
    [] kind = "ignorable" ->
         \/ cp = \h2065 \/ cp \in \hFFF0..\hFFF8 \/ cp \in \h1BCA0..\h1BCA3 \/ cp \in \h1D173..\h1D17A
         \/ cp \in \hE0080..\hE00FF \/ cp \in \hE01F0..\hE0FFF
    [] kind = "selector" -> cp \in \hFE00..\hFE0F \/ cp \in \hE0100..\hE01EF
    [] kind = "mongolian selector" -> cp \in \h180B..\h180D \cup {\h180F}
    [] kind = "tag" -> cp \in \hE0000..\hE007F
    [] kind = "nonchar" -> IsNoncharacter(cp)
    [] kind = "pua" -> cp \in \hE000..\hF8FF \/ cp \in \hF0000..\hFFFFD \/ cp \in \h100000..\h10FFFD
    [] kind = "cgj" -> cp = \h34F
    [] kind = "flag" -> cp = \h1F3F4

\* What Class is of a character with this code point.
KindsOf(cp) ==
  LET holds(kind) ==
        CASE kind = "erase" -> cp \in {8, 127}
          [] kind = "break" -> IsLineBreak(cp)
          [] kind = "control" -> IsControl(cp) /\ ~IsFoldWhitespace(cp)
          [] kind = "space" -> IsFoldWhitespace(cp)
          [] kind = "blank" -> IsBlankRender(cp)
          [] kind = "bidi" -> IsBidiControl(cp)
          [] kind = "format" -> IsFormat(cp)
          [] kind = "emoji style" -> cp = \hFE0F
          [] kind = "overlay" -> cp \in {\h338, \h20D2}
          [] kind = "keycap base" -> cp \in {35, 42} \cup 48..57
          [] kind = "keycap" -> cp = \h20E3
          [] kind = "prototype" -> cp \in {48, 49, 73}
          [] OTHER -> IsUnseen(kind, cp)
  IN {kind \in Classes : holds(kind)}

Drop(s, kinds) == SelectSeq(s, LAMBDA c : ~In(c, kinds))

Rewrite(map, s) == FlattenSeq([i \in DOMAIN s |-> IF s[i] \in DOMAIN map THEN map[s[i]] ELSE <<s[i]>>])

-----------------------------------------------------------------------------
(***************************************************************************)
(* Deletions: BS and DEL erase the cell before them.  A cell is a base and *)
(* what attaches to it; with CR a line break like any other the cursor is  *)
(* always behind the last cell, so an erased cell is one popped.           *)
(***************************************************************************)
OccupiesCell(c) ==
  c \notin Marks /\ ~In(c, {"zerowidth", "selector", "ignorable", "tag", "bidi"})

Typed(acc) == acc.out \o acc.lead \o FlattenSeq(acc.line)

Type(acc, c) ==
  CASE In(c, {"erase"}) -> [acc EXCEPT !.line = IF @ = <<>> THEN @ ELSE Front(@)]
    [] In(c, {"break"}) ->
         [out |-> Typed(acc) \o <<c>>, lead |-> <<>>, line |-> <<>>]
    [] ~In(c, {"erase", "break"}) /\ OccupiesCell(c) -> [acc EXCEPT !.line = Append(@, <<c>>)]
    [] ~In(c, {"erase", "break"}) /\ ~OccupiesCell(c) /\ acc.line # <<>> ->
         [acc EXCEPT !.line[Len(acc.line)] = Append(@, c)]
    [] OTHER -> [acc EXCEPT !.lead = Append(@, c)]

ResolveDeletions(s) == Typed(FoldLeft(Type, [out |-> <<>>, lead |-> <<>>, line |-> <<>>], s))

-----------------------------------------------------------------------------
(***************************************************************************)
(* Invisible characters and whitespace.                                    *)
(***************************************************************************)
StripBidi(s) == Drop(s, {"bidi", "format"})
StripControl(s) == Drop(s, {"control"})
StripZeroWidth(s) == Drop(s, {"zerowidth", "ignorable"})

\* A tag stands only in the tail of a flag.
InFlag(s, j) ==
  \E i \in 1..(j - 1), f \in Flags :
    /\ In(s[i], {"flag"})
    /\ i + Len(f) <= Len(s) /\ j <= i + Len(f)
    /\ SubSeq(s, i + 1, i + Len(f)) = f

\* rendering: keep the Private Use Area, and the selectors Unicode registers.
StripInvisible(rendering, s) ==
  LET gone(out, j) ==
        \/ In(s[j], {"tag"}) /\ ~InFlag(s, j)
        \/ In(s[j], {"cgj", "nonchar", "ignorable"})
        \/ In(s[j], {"pua"}) /\ ~rendering
        \/ In(s[j], {"selector"})
           /\ ~(rendering /\ out # <<>> /\ <<Last(out), s[j]>> \in Registered)
      \* a keycap's selector takes the keycap mark with it
      uncapped(out, j) ==
        /\ ~rendering /\ In(s[j], {"emoji style"})
        /\ j < Len(s) /\ In(s[j + 1], {"keycap"})
        /\ out # <<>> /\ In(Last(out), {"keycap base"})
      take(acc, j) ==
        CASE acc.skip -> [acc EXCEPT !.skip = FALSE]
          [] ~acc.skip /\ gone(acc.out, j) -> [acc EXCEPT !.skip = uncapped(acc.out, j)]
          [] OTHER -> [acc EXCEPT !.out = Append(@, s[j])]
  IN FoldLeft(take, [out |-> <<>>, skip |-> FALSE], [j \in DOMAIN s |-> j]).out

IsWhite(c) == In(c, {"space", "blank"})

\* Runs of whitespace become one space; none is left at either end.
CollapseWs(s) ==
  LET fold(out, c) == IF ~IsWhite(c) THEN Append(out, c)
                      ELSE IF out = <<>> \/ Last(out) = Space THEN out
                      ELSE Append(out, Space)
  IN Trimmed(FoldLeft(fold, <<>>, s), {Space})

-----------------------------------------------------------------------------
(***************************************************************************)
(* Marks, judged in NFD base by base; base is <<>> before the first one.   *)
(***************************************************************************)
SurvivesAsANegationBase(b) ==
  /\ ~In(b, {"control", "space", "nonchar", "blank", "zerowidth", "ignorable", "tag"})
  /\ ~In(Compatible[b][1], {"space", "control"})

IsNegationOf(mark, base) ==
  /\ In(mark, {"overlay"})
  /\ base # <<>> /\ base[1] \notin Alphanumeric /\ SurvivesAsANegationBase(base[1])

NoMark == [k \in {Ccc[m] : m \in Marks} |-> 0]
NewTally == [out |-> <<>>, base |-> <<>>, negated |-> FALSE, count |-> NoMark]

\* At most cap marks of one class on a base, and the stroke of one negation.
Admit(cap, acc, c) ==
  CASE ~acc.negated /\ IsNegationOf(c, acc.base) ->
         [acc EXCEPT !.out = Append(@, c), !.negated = TRUE]
    [] c \notin Marks ->
         [out |-> Append(acc.out, c), base |-> <<c>>, negated |-> FALSE, count |-> NoMark]
    [] OTHER ->
         IF Ccc[c] = 0 /\ cap > 0 THEN [acc EXCEPT !.out = Append(@, c)]
         ELSE [acc EXCEPT !.count[Ccc[c]] = @ + 1,
                          !.out = IF acc.count[Ccc[c]] < cap THEN Append(@, c) ELSE @]

Capped(cap, s) == FoldLeft(LAMBDA acc, c : Admit(cap, acc, c), NewTally, NFD(s)).out

Exceeds(cap, s) == Capped(cap, s) # NFD(s)

Zalgo(cap, s) == NFC(Capped(cap, s))

\* A text no mark was taken from keeps its spelling.
Recomposed(left, s) == IF left = NFD(s) THEN s ELSE NFC(left)
ZalgoIfOver(cap, s) == Recomposed(Capped(cap, s), s)

\* A mark that repeats the last mark of its base, class-0 marks aside, is dropped.
WithoutRepeats(s) ==
  LET track(acc, c) ==
        CASE c \notin Marks -> [out |-> Append(acc.out, c), previous |-> <<>>]
          [] c \in Marks /\ Ccc[c] # 0 /\ acc.previous = <<c>> -> acc
          [] c \in Marks /\ Ccc[c] # 0 /\ acc.previous # <<c>> ->
               [out |-> Append(acc.out, c), previous |-> <<c>>]
          [] OTHER -> [acc EXCEPT !.out = Append(@, c)]
  IN FoldLeft(track, [out |-> <<>>, previous |-> <<>>], NFD(s)).out

DropRepeatedMarks(s) == Recomposed(WithoutRepeats(s), s)

\* The walk of strip_accents_into keeps what a cap of 0 keeps: one negation
\* overlay on a symbol.
StripAccents(s) == Zalgo(0, s)

\* A mark of a script of its own does not stand on a base of another.
StripCrossScriptMarks(s) ==
  LET specific(c) == Script[c] \notin {"Common", "Inherited"}
      walk(acc, c) ==
        IF c \in Marks
        THEN IF specific(c) /\ acc.script # "none" /\ acc.script # Script[c]
             THEN acc ELSE [acc EXCEPT !.out = Append(@, c)]
        ELSE [out |-> Append(acc.out, c), script |-> IF specific(c) THEN Script[c] ELSE acc.script]
  IN FoldLeft(walk, [out |-> <<>>, script |-> "none"], s).out

-----------------------------------------------------------------------------
(***************************************************************************)
(* Folds.                                                                  *)
(***************************************************************************)
FoldCase(s) == Rewrite(CaseFold, s)

\* The digits among the prototypes are letters under "tr39" only.
PrototypeFold(p, s) ==
  LET sources == IF p = "tr39" THEN DOMAIN Prototype ELSE DOMAIN Prototype \ AsciiDigits
  IN [i \in DOMAIN s |-> IF s[i] \in sources THEN Prototype[s[i]] ELSE s[i]]

PolicyPreFold(p, s) == IF p = "numeric" THEN s ELSE FixedPoint(p, "lookup", s)

\* The fold and the mark strip expose work for each other, so they loop together.
ConfusablesMarkFixedPoint(p, s) ==
  Iterate(LAMBDA t : StripCrossScriptMarks(FixedPoint(p, "NFC", t)),
          CONFUSABLE_FIXED_POINT_ITERS, s)

\* apply_into, but for FixedPoint, whose passes are steps of their own.
Apply[step \in STRING, p \in Policies, s \in Seq(Chars)] ==
  CASE step = "ResolveDeletions" -> ResolveDeletions(s)
    [] step = "PolicyPreFold" -> PolicyPreFold(p, s)
    [] step = "Nfkc" -> NFKC(s)
    [] step \in {"Nfc", "NfcIfNonAscii"} -> NFC(s)
    [] step = "StripBidi" -> StripBidi(s)
    [] step = "StripInvisible" -> StripInvisible(FALSE, s)
    [] step = "StripInvisibleRendering" -> StripInvisible(TRUE, s)
    [] step = "StripControl" -> StripControl(s)
    [] step = "StripZeroWidth" -> StripZeroWidth(s)
    [] step = "CollapseWs" -> CollapseWs(s)
    [] step \in {"Zalgo", "Zalgo0"} -> Zalgo(IF step = "Zalgo" THEN DEFAULT_MAX_MARKS ELSE 0, s)
    [] step = "ZalgoIfOver" -> ZalgoIfOver(DEFAULT_MAX_MARKS, s)
    [] step = "DropRepeatedMarks" -> DropRepeatedMarks(s)
    [] step = "FoldCase" -> FoldCase(s)
    [] step = "StripAccents" -> StripAccents(s)
    [] step = "Confusables" -> Fold(p, s)
    [] step = "PrototypeFold" -> PrototypeFold(p, s)
    [] step = "ConfusablesNfcFixedPoint" -> FixedPoint(p, "NFC", s)
    [] step = "ConfusablesMarkFixedPoint" -> ConfusablesMarkFixedPoint(p, s)

\* The preset other components rely on (presets/text.rs).
Canonicalize ==
  <<"ResolveDeletions", "PolicyPreFold", "Nfkc", "StripBidi", "StripInvisible",
    "StripControl", "StripZeroWidth", "CollapseWs", "DropRepeatedMarks", "Zalgo",
    "Nfc", "ConfusablesNfcFixedPoint", "DropRepeatedMarks", "ZalgoIfOver">>

Canonicalized(s) == FoldLeft(LAMBDA t, step : Apply[step, "numeric", t], s, Canonicalize)
=============================================================================
