------------------------------ MODULE Anomalies -----------------------------
(***************************************************************************)
(* The anomaly detector (anomalies.rs).  A text is split into tokens and   *)
(* each is judged by the first rule that holds of it; some signs are seen  *)
(* in the whole text only.  has_anomalies stops at the first sign,         *)
(* inspect_anomalies lists them all.                                       *)
(***************************************************************************)
EXTENDS Detectors

CONSTANTS
  TokenBoundaries,   \* ASCII whitespace, VT, NEL, LS, PS
  LineBreaks, CarriageReturn,
  SoftHyphen,
  BidiOverrides, BidiScopes,   \* U+202D-E; the isolates and the embeddings
  RtlMarks,          \* U+200F, U+061C
  DigitSystem,       \* of every decimal digit
  StrikeMarks, UnderlineMarks,
  Undrawn,           \* what draws nothing between a letter and its overlay
  EnclosingMarks, CyrillicEnclosingMarks,
  Typography,        \* dashes, quotes, the ellipsis and the minus sign
  CjkPunctuation,    \* the fullwidth punctuation of CJK prose
  OrdinaryWhole,     \* the blocks a whole token is ordinarily written in
  OrdinaryCompat,    \* those and the phonetic ones
  Wrap,              \* what is trimmed off a token
  LeetSub,           \* a digit or symbol to the letter it stands for
  Apostrophes, Brackets,
  OrdinalSuffixes, Units,
  TrailingSymbols,   \* "@", "$", "|"
  SegmentJoiners,    \* tables: WORD_JOINERS
  SmallLetters, CapitalLetters,
  IdeographicVariations,   \* registered ideograph and selector
  SupplementarySelectors,  \* U+E0100 and up
  LexiconWords       \* the words a caller gives

MAX_LEET_LEN == 64
NEAR_MISS_MIN_LEN == 5
MIN_WHOLLY_CONFUSABLE == 4
SPREAD_CARRIER_FLOOR == 8
SPREAD_IDEOGRAPHIC_SELECTOR_FLOOR == 8
CR_SPARED_SPACES == 2
RunThreshold == [tag |-> 1, selector |-> 2, invisible |-> 8, pua |-> 4, nonchar |-> 1]

CjkScripts == {"Han", "Hiragana", "Katakana", "Hangul", "Bopomofo"}

Lexicon == {Lowercase(w) : w \in LexiconWords}

AsciiLetters == AsciiChars \cap Alphabetic
AnyOf(s, C) == ToSet(s) \cap C # {}
Only(s, C) == SelectSeq(s, LAMBDA c : c \in C)

-----------------------------------------------------------------------------
(***************************************************************************)
(* Characters.                                                             *)
(***************************************************************************)
IsInvisibleInWord(c) == In(c, {"zerowidth", "ignorable", "blank", "format"}) /\ c # SoftHyphen

CarrierOf(c) ==
  CASE In(c, {"tag"}) -> "tag"
    [] In(c, {"selector"}) -> "selector"
    [] IsInvisibleInWord(c) \/ c = SoftHyphen \/ In(c, {"cgj"}) -> "invisible"
    [] In(c, {"pua"}) -> "pua"
    [] In(c, {"nonchar"}) -> "nonchar"
    [] OTHER -> "none"

\* A character NFC replaces by another one (a singleton).
NfcReplaces(c) == NFC(<<c>>) # <<c>> /\ Len(NFC(<<c>>)) = 1

IsAsciiLetterBase(c) ==
  \/ c \in AsciiLetters
  \/ c \notin AsciiChars /\ ~NfcReplaces(c) /\ NFD(<<c>>)[1] \in AsciiLetters

\* composed(): NFC between the characters it replaces, which stay.
ComposedToken(s) ==
  LET take(acc, c) == IF NfcReplaces(c)
                      THEN [out |-> acc.out \o NFC(acc.run) \o <<c>>, run |-> <<>>]
                      ELSE [acc EXCEPT !.run = Append(@, c)]
      end == FoldLeft(take, [out |-> <<>>, run |-> <<>>], s)
  IN end.out \o NFC(end.run)

-----------------------------------------------------------------------------
(***************************************************************************)
(* Signs in a token that is not ASCII.                                     *)
(***************************************************************************)
MixedNumbers(t) == Cardinality({DigitSystem[c] : c \in ToSet(t) \cap DOMAIN DigitSystem}) > 1

\* A joiner has work to do between letters of most scripts, other invisibles beside none.
InvisibleInWord(t) ==
  \E i \in DOMAIN t :
    LET before == SubSeq(t, 1, i - 1)
        after == SubSeq(t, i + 1, Len(t))
        latin(s) == \E j \in DOMAIN s : IsAsciiLetterBase(s[j])
    IN /\ IsInvisibleInWord(t[i])
       /\ IF t[i] \in Joiners THEN latin(before) /\ latin(after)
          ELSE AnyOf(before, Alphabetic) \/ AnyOf(after, Alphabetic)

CarrierRun(t) ==
  \E i \in DOMAIN t :
    LET class == CarrierOf(t[i])
    IN /\ class # "none" /\ i + RunThreshold[class] - 1 <= Len(t)
       /\ \A j \in i..(i + RunThreshold[class] - 1) : CarrierOf(t[j]) = class /\ ~InFlag(t, j)

IsMajorityLatin(t) ==
  LET letters == Only(t, Alphabetic)
  IN letters # <<>> /\ 2 * Len(SelectSeq(letters, IsAsciiLetterBase)) >= Len(letters)

HiddenDirection(t) ==
  \/ AnyOf(t, BidiOverrides)
  \/ /\ IsMajorityLatin(t) \/ ~AnyOf(t, Alphabetic)
     /\ AnyOf(t, BidiScopes) \/ \E i \in DOMAIN t : t[i] \in RtlMarks /\ Here(t, i + 1, AsciiDigits)

\* The enclosing marks that belong neither to a keycap nor to a Cyrillic number.
Enclosing(t) ==
  LET keycap(i) == /\ In(t[i], {"keycap"}) /\ i > 2
                   /\ In(t[i - 1], {"emoji style"}) /\ In(t[i - 2], {"keycap base"})
      bases(i) == SelectSeq(SubSeq(t, 1, i - 1), LAMBDA c : c \notin Marks)
      cyrillic(i) == /\ t[i] \in CyrillicEnclosingMarks /\ bases(i) # <<>>
                     /\ DetectCharScript(Last(bases(i))) = "Cyrillic"
  IN {i \in DOMAIN t : t[i] \in EnclosingMarks /\ ~keycap(i) /\ ~cyrillic(i)}

\* Enough letters of the word are struck through or underlined.
Overlaid(word) ==
  LET take(a, c) ==
        CASE c \in Marks ->
               IF a.open /\ c \in StrikeMarks \cup UnderlineMarks
               THEN [a EXCEPT !.open = FALSE, !.overlaid = @ + 1, !.struck = @ \/ c \in StrikeMarks]
               ELSE a
          [] c \notin Marks /\ c \in Undrawn -> a
          [] OTHER -> [a EXCEPT !.open = c \in Alphabetic,
                                !.letters = IF c \in Alphabetic THEN @ + 1 ELSE @]
      n == FoldLeft(take, [letters |-> 0, overlaid |-> 0, open |-> FALSE, struck |-> FALSE], word)
  IN IF n.struck THEN n.overlaid >= 2 /\ 2 * n.overlaid >= n.letters
     ELSE /\ n.overlaid >= 3
          /\ n.overlaid = n.letters \/ (n.overlaid >= 5 /\ n.overlaid + 1 = n.letters)

\* A Latin word under marks of many classes; `on` is <<>> or the marks of its letter.
HeavilyMarked(word) ==
  LET take(a, c) ==
        IF c \in Marks
        THEN [a EXCEPT !.marks = @ + 1, !.on = IF @ = <<>> THEN @ ELSE <<@[1] + 1>>,
                       !.heavy = IF a.on = <<2>> THEN @ + 1 ELSE @]
        ELSE IF c \in Alphabetic THEN [a EXCEPT !.letters = @ + 1, !.on = <<0>>] ELSE [a EXCEPT !.on = <<>>]
      n == FoldLeft(take, [letters |-> 0, marks |-> 0, heavy |-> 0, on |-> <<>>], NFD(word))
  IN /\ \A c \in ToSet(NFD(word)) : c \in Alphabetic \ Marks => IsAsciiLetterBase(c)
     /\ n.letters >= 3 /\ (n.marks >= 3 * n.letters \/ (n.heavy >= 2 /\ 2 * n.heavy >= n.letters))

Zalgoed(t) ==
  AnyPart(WordParts(t), LAMBDA w : Overlaid(w) \/ HeavilyMarked(w)) \/ Exceeds(DEFAULT_MAX_MARKS, t)

\* What is mixed in one word of the core.
MixIn(part) ==
  LET scripts == ToSet(DetectScripts(part))
  IN IF Len(part) < 2 \/ Lowercase(part) \in Units THEN "none"
     ELSE IF HasBidiLetterConflict(part) THEN "bidi mixed"
     ELSE IF "Latin" \in scripts /\ scripts \ (CjkScripts \cup {"Latin"}) # {} THEN "mixed script"
     ELSE "none"

\* The first word that mixes anything decides.
Mixing(core) ==
  LET parts == WordParts(core)
      mixed == SelectSeq([k \in DOMAIN parts |-> MixIn(parts[k][2])], LAMBDA mix : mix # "none")
  IN IF mixed = <<>> THEN "none" ELSE mixed[1]

-----------------------------------------------------------------------------
(***************************************************************************)
(* Compatibility forms and confusables.                                    *)
(***************************************************************************)
\* Neither a host name nor letters one by one.
ReadsAsProse(word) ==
  LET dots == {i \in DOMAIN word : word[i] = "."}
      host == /\ dots \ {1} # {} /\ Max(dots) <= Len(word) - 2
              /\ ToSet(SubSeq(word, Max(dots) + 1, Len(word))) \subseteq AsciiLetters
      parts == Parts(word, LAMBDA c : c \in Typography)
  IN ~host /\ ~(Len(parts) >= 3 /\ \A k \in DOMAIN parts : Len(parts[k][2]) = 1)

IsCjkProsePunctuation(c, word) == c \in CjkPunctuation /\ AnyOf(DetectScripts(word), CjkScripts)

\* Punctuation that is ordinary where it stands.
Ordinary(c, word) == (c \in Typography /\ ReadsAsProse(word)) \/ IsCjkProsePunctuation(c, word)

CompatFold(part) ==
  LET compat == SelectSeq(part, LAMBDA c : /\ c \notin AsciiChars /\ IsAscii(NFKC(<<c>>))
                                           /\ ~Ordinary(c, part))
      spared == /\ \A c \in ToSet(part) : ~IsAsciiLetterBase(c)
                /\ ToSet(compat) \subseteq OrdinaryCompat
  IN compat # <<>> /\ ~spared

FoldsToAscii(c) == c \in DOMAIN Rows /\ IsAscii(Rows[c])

IsWhollyConfusable(part) ==
  LET core == SelectSeq(part, LAMBDA c : c \notin White)
  IN /\ Len(core) >= MIN_WHOLLY_CONFUSABLE
     /\ \A c \in ToSet(core) : c \in DOMAIN Rows /\ Len(Rows[c]) = 1 /\ Rows[c][1] \in AsciiLetters
     /\ ~(ToSet(core) \subseteq OrdinaryWhole)
     /\ DetectScripts(part) \in {<<>>, <<"Latin">>}

\* A letter that only loses its accent is no confusable.
FoldedConfusable(part) ==
  \E c \in ToSet(part) \ AsciiChars :
    /\ ~Ordinary(c, part)
    /\ IF FoldsToAscii(c) THEN NfcReplaces(c) \/ ~IsPrefix(Rows[c], NFD(<<c>>))
       ELSE \E f \in ToSet(NFKC(<<c>>)) \ AsciiChars : FoldsToAscii(f)

Confusable(part) ==
  /\ IsWhollyConfusable(part) \/ \E c \in ToSet(part) : IsAsciiLetterBase(c)
  /\ Lowercase(part) \notin Units
  /\ FoldedConfusable(part)

-----------------------------------------------------------------------------
(***************************************************************************)
(* Words in disguise.                                                      *)
(***************************************************************************)
\* The letters a part stands for; <<>> where something in it stands for none.
Demangled(part) ==
  LET letter(c) == CASE c \in Alphabetic -> Lowercase(<<c>>)
                     [] c \in DOMAIN LeetSub \ Alphabetic -> <<LeetSub[c]>>
                     [] OTHER -> <<>>
  IN IF ToSet(part) \subseteq Alphabetic \cup DOMAIN LeetSub \cup Apostrophes
     THEN << FlattenSeq([i \in DOMAIN part |-> letter(part[i])]) >> ELSE <<>>

IsOrdinalOrTime(s) ==
  \E suffix \in OrdinalSuffixes :
    /\ IsSuffix(suffix, Lowercase(s)) /\ Len(s) > Len(suffix)
    /\ ToSet(SubSeq(s, 1, Len(s) - Len(suffix))) \subseteq AsciiDigits

IsWordPlusTrailing(s) ==
  \E n \in 1..(Len(s) - 1) : /\ ToSet(SubSeq(s, 1, n)) \subseteq AsciiLetters
                             /\ ToSet(SubSeq(s, n + 1, Len(s))) \subseteq AsciiDigits \cup TrailingSymbols

\* A word of the lexicon is one edit away, any letter put in being one of a-z.
NearMiss(d) ==
  LET small == AsciiLetters \cap SmallLetters
      one(s, w) == \E i \in DOMAIN s : RemoveAt(s, i) = w
      put(w) == \E i \in DOMAIN w : w[i] \in small /\ RemoveAt(w, i) = d
      substituted(w) == /\ Len(w) = Len(d)
                        /\ \E i \in DOMAIN w : w[i] \in small /\ RemoveAt(w, i) = RemoveAt(d, i)
  IN \E w \in Lexicon : one(d, w) \/ put(w) \/ substituted(w)

IsLeet(part) ==
  LET base == Lowercase(Only(part, AsciiLetters))
      d == Demangled(part)[1]
      literal == Len(base) >= 4 /\ base \in Lexicon /\ IsWordPlusTrailing(part)
  IN /\ AnyOf(part, AsciiDigits \cup TrailingSymbols \cup {"!", "+"})
     /\ Len(part) <= MAX_LEET_LEN /\ Demangled(part) # <<>> /\ ~IsOrdinalOrTime(part)
     /\ Len(base) >= 2 /\ ~literal /\ Len(d) >= 3 /\ d # base
     /\ d \in Lexicon \/ (Len(d) >= NEAR_MISS_MIN_LEN /\ NearMiss(d))

\* Edges that may be letters in disguise stay on.
LeetEdgeCore(t) == Trimmed(t, Wrap \ (DOMAIN LeetSub \cup Brackets))

LeetParts(s) == Parts(s, LAMBDA c : c \in White)

IsSegmentSeparator(c) == c \in SegmentJoiners \cup (White \ TokenBoundaries)

\* A word with a separator after nearly every letter.
SegWord(core) ==
  LET parts == Parts(core, IsSegmentSeparator)
      seps == Cardinality({i \in DOMAIN core : IsSegmentSeparator(core[i])
                                               /\ (i > 1 => ~IsSegmentSeparator(core[i - 1]))})
      letters == SelectSeq(core, LAMBDA c : ~IsSegmentSeparator(c) /\ c \in Alphabetic \cup DOMAIN LeetSub)
      word == FlattenSeq([i \in DOMAIN letters |-> IF letters[i] \in Alphabetic THEN Lowercase(<<letters[i]>>)
                                                   ELSE <<LeetSub[letters[i]]>>])
  IN /\ seps >= 2 /\ 5 * seps >= 3 * (Len(letters) - 1)
     /\ \A k \in DOMAIN parts : Len(parts[k][2]) > 1 => ~AnyOf(parts[k][2], Alphabetic)
     /\ Len(word) >= 4 /\ word \in Lexicon

\* A word cut by spaces that end no token.
SpaceFragmented(core) ==
  LET exotic(i) == core[i] \in White \ TokenBoundaries
      joined == Lowercase(SelectSeq(core, LAMBDA c : c \notin White \ TokenBoundaries))
  IN /\ \E i \in 2..(Len(core) - 1) : exotic(i) /\ core[i - 1] \in Alphabetic /\ core[i + 1] \in Alphabetic
     /\ Len(joined) >= 4 /\ joined \in Lexicon

-----------------------------------------------------------------------------
(***************************************************************************)
(* classify: the first rule, in this order, that holds of a token.         *)
(***************************************************************************)
Rules == <<"control", "mixed numbers", "invisible", "bidi", "enclosing mark", "zalgo", "duplicate mark",
           "bidi mixed", "mixed script", "compat fold", "leet", "segmentation", "confusable">>

Holds(rule, t) ==
  LET core == Trimmed(t, Wrap)
      other == ~IsAscii(t)
  IN CASE rule = "control" -> \E i \in DOMAIN t : In(t[i], {"control"})
       [] rule = "mixed numbers" -> other /\ MixedNumbers(t)
       [] rule = "invisible" -> other /\ (InvisibleInWord(t) \/ CarrierRun(t))
       [] rule = "bidi" -> other /\ HiddenDirection(t)
       [] rule = "enclosing mark" -> other /\ Cardinality(Enclosing(t)) >= 2
       [] rule = "zalgo" -> other /\ Zalgoed(t)
       [] rule = "duplicate mark" -> other /\ WithoutRepeats(t) # NFD(t)
       [] rule \in {"bidi mixed", "mixed script"} -> other /\ Mixing(core) = rule
       [] rule = "compat fold" -> other /\ AnyPart(WordParts(t), CompatFold)
       [] rule = "leet" -> Len(core) >= 2 /\ (AnyPart(LeetParts(core), IsLeet)
                                              \/ AnyPart(LeetParts(LeetEdgeCore(t)), IsLeet))
       [] rule = "segmentation" ->
            Len(core) >= 2 /\ (SegWord(core) \/ SpaceFragmented(core))
       [] rule = "confusable" -> Len(core) >= 2 /\ other /\ AnyPart(WordParts(t), Confusable)

\* <<kind>>, or <<>> for a token nothing is found in.
ClassifyToken(raw) ==
  LET t == ComposedToken(raw)
      held == SelectSeq(Rules, LAMBDA rule : Holds(rule, t))
  IN SubSeq(held, 1, IF held = <<>> THEN 0 ELSE 1)

SplitTokens(s) == Parts(s, LAMBDA c : c \in TokenBoundaries)

-----------------------------------------------------------------------------
(***************************************************************************)
(* Signs in the whole text.  `from` and `to` are the places of the first   *)
(* and the last character.                                                 *)
(***************************************************************************)
Finding(kind, from, to) == [kind |-> kind, from |-> from, to |-> to]

\* Does what follows a carriage return hide the line before it?
PaintsOver(line, after) ==
  LET typed == {i \in DOMAIN after : after[i] # CarriageReturn}
      rest == IF typed = {} THEN <<>> ELSE SubSeq(after, Min(typed), Len(after))
      painted == SubSeq(rest, 1, Min({i \in DOMAIN rest : rest[i] \in LineBreaks} \cup {Len(rest) + 1}) - 1)
      cells == Max({i \in DOMAIN line : line[i] # Space} \cup {0})
  IN /\ painted # <<>>
     /\ ToSet(painted) = {Space} =>
          cells > 0 /\ (Len(painted) > CR_SPARED_SPACES \/ Len(painted) >= cells)

\* The first line a carriage return overwrites.
OverwritingCr(s) ==
  LET line(i) == 1 + Max({0} \cup {j \in 1..(i - 1) : s[j] \in LineBreaks})
      hits == {i \in DOMAIN s : /\ s[i] = CarriageReturn /\ i > line(i)
                                /\ PaintsOver(SubSeq(s, line(i), i - 1), SubSeq(s, i + 1, Len(s)))}
  IN {Finding("deletion", line(i), i - 1) : i \in {j \in hits : j = Min(hits)}}

\* A short run of private-use characters between letters: <<does it split a word>>.
PrivateUseBetweenLetters(s, i, j) ==
  LET bases == SelectSeq(SubSeq(s, 1, i - 1), LAMBDA c : c \notin Marks)
      left == Last(bases)
      right == s[j + 1]
      latin == DetectCharScript(left) = "Latin" /\ DetectCharScript(right) = "Latin"
      alike == {left, right} \subseteq SmallLetters \/ {left, right} \subseteq CapitalLetters
  IN IF \/ j - i + 1 >= RunThreshold.pua \/ right \notin Alphabetic
        \/ bases = <<>> \/ left \notin Alphabetic THEN <<>>
     ELSE IF alike /\ latin THEN <<TRUE>>
     ELSE IF DetectCharScript(left) \in CjkScripts \/ DetectCharScript(right) \in CjkScripts THEN <<>>
     ELSE <<FALSE>>

\* Carriers one by one through the text, too few in each place to be a run.
SpreadCarriers(s) ==
  LET pua(i) == i \in DOMAIN s /\ In(s[i], {"pua"})
      runs == {r \in (DOMAIN s) \X (DOMAIN s) :
                 /\ r[1] <= r[2] /\ r[2] < Len(s)
                 /\ ~pua(r[1] - 1) /\ ~pua(r[2] + 1) /\ \A k \in r[1]..r[2] : pua(k)}
      verdict(r) == PrivateUseBetweenLetters(s, r[1], r[2])
      selects(i) == In(s[i], {"selector"}) /\ i > 1 /\ ~In(s[i - 1], {"selector"})
      pair(i) == <<s[i - 1], s[i]>>
      ideographic == {i \in DOMAIN s : selects(i) /\ pair(i) \in IdeographicVariations}
      kinds == {s[i] : i \in {j \in DOMAIN s : /\ selects(j) /\ s[j] \in SupplementarySelectors
                                               /\ DetectCharScript(s[j - 1]) = "Han"}}
      plain == {r \in runs : verdict(r) # <<>>}
               \cup {<<i, i>> : i \in {j \in DOMAIN s : In(s[j], {"cgj"}) /\ ~Here(s, j + 1, Marks)}}
               \cup {<<i, i>> : i \in {j \in DOMAIN s \ ideographic : selects(j) /\ pair(j) \notin Registered}}
      counted == IF Cardinality(kinds) >= SPREAD_IDEOGRAPHIC_SELECTOR_FLOOR
                 THEN plain \cup {<<i, i>> : i \in ideographic} ELSE plain
      told == IF plain = {} THEN counted ELSE plain
      enough == Cardinality(counted) >= SPREAD_CARRIER_FLOOR \/ \E r \in runs : verdict(r) = <<TRUE>>
  IN {Finding("invisible", r[1], r[2]) : r \in {q \in told : enough /\ \A o \in told : q[1] <= o[1]}}

\* Mutant: a payload that reads in two ways is passed over.
DecodedAlone(s) == SelectSeq(DecodeCarriers(s), LAMBDA p : TextOf(p) # <<>>)
\* The payloads of the carriers that read as text, in one way or in two.
DecodedPayloads(s) == SelectSeq(DecodeCarriers(s), LAMBDA p : p.readings # <<>>)

\* The first overlay mark of a text whose canonical form has an overlaid word.
OverlayAfterCanonicalize(s) ==
  LET overlays == {i \in DOMAIN s : s[i] \in StrikeMarks \cup UnderlineMarks}
      shown == AnyPart(SplitTokens(Canonicalized(s)), LAMBDA t : AnyPart(WordParts(t), Overlaid))
  IN {Finding("zalgo", i, i) : i \in {j \in overlays : j = Min(overlays) /\ shown}}

TokenFindings(s) ==
  LET tokens == SplitTokens(s)
      found == {k \in DOMAIN tokens : ClassifyToken(tokens[k][2]) # <<>>}
  IN {Finding(ClassifyToken(tokens[k][2])[1], tokens[k][1], tokens[k][1] + Len(tokens[k][2]) - 1) : k \in found}

HasAnomalies(s) ==
  \/ OverwritingCr(s) # {} \/ SpreadCarriers(s) # {} \/ DecodedPayloads(s) # <<>>
  \/ TokenFindings(s) # {} \/ OverlayAfterCanonicalize(s) # {}

\* The findings, without the order they are listed in.
InspectAnomalies(s) ==
  LET payloads == DecodedPayloads(s)
      smuggled == {Finding("smuggled", payloads[k].start, payloads[k].start + payloads[k].units - 1)
                   : k \in DOMAIN payloads}
      zalgo == \E f \in TokenFindings(s) : f.kind = "zalgo"
  IN TokenFindings(s) \cup smuggled \cup SpreadCarriers(s) \cup OverwritingCr(s)
     \cup (IF zalgo THEN {} ELSE OverlayAfterCanonicalize(s))
=============================================================================
