--------------------------- MODULE Transliteration --------------------------
(***************************************************************************)
(* The transliteration engine (transliterate.rs): one walk over a buffer,  *)
(* character by character, with the context a character is romanized in:   *)
(* the script before it, the last character written and the inherent vowel *)
(* of an Indic consonant.  A walk is a fold of Take; the unmapped          *)
(* character is walked again in its NFKC image.                            *)
(***************************************************************************)
EXTENDS Composition

CONSTANTS
  ScriptClass,      \* classify_char of every character that is not ASCII
  Role,             \* indic_char_role of every Indic character
  Default,          \* default table: character to string
  Overrides,        \* language to its built-in rows
  RegisteredRows,   \* language to the rows register_lang gave it
  ScriptName,       \* script of a character
  Discriminators    \* script to the characters only one language has

Cjk == {"Ideograph", "Hangul", "Kana"}

ASSUME TransliterationAssumption ==
  /\ ScriptClass \in [Chars \ AsciiChars -> Cjk \cup {"Indic", "Other"}]
  /\ \A c \in DOMAIN ScriptClass : ScriptClass[c] = "Indic" => c \in DOMAIN Role
  /\ DOMAIN Default \subseteq Chars \ AsciiChars

-----------------------------------------------------------------------------
(***************************************************************************)
(* ScriptClass and Role by code point.  Each Brahmic block has consonants, *)
(* dependent vowels and viramas at places of its own; the blocks of the    *)
(* core layout, Devanagari to Malayalam, have them at the same offsets.    *)
(***************************************************************************)
Block(codes, consonants, vowels, viramas) ==
  [codes |-> codes, consonants |-> consonants, vowels |-> vowels, viramas |-> viramas]

SinhalaToKhmer == {
  Block(\hD80..\hDFF, \hD9A..\hDC6, \hDCF..\hDDF \cup \hDF2..\hDF3, {\hDCA}),
  Block(\hF00..\hFFF, \hF40..\hF69 \cup \hF90..\hFBC, \hF71..\hF7D, {\hF84}),
  Block(\h1000..\h109F, \h1000..\h1021, \h102B..\h1035 \cup \h103B..\h103E, {\h1039, \h103A}),
  Block(\h1780..\h17FF, \h1780..\h17A2, \h17B6..\h17C5, {\h17D2})}

BalineseToBuginese == {
  Block(\h1B00..\h1B7F, \h1B13..\h1B33, \h1B35..\h1B43, {\h1B44}),
  Block(\hA980..\hA9DF, \hA990..\hA9B2, \hA9B4..\hA9BC, {\hA9C0}),
  Block(\h1B80..\h1BBF, \h1B8A..\h1BA0, \h1BA1..\h1BA9, {\h1BAB}),
  Block(\h1A20..\h1AAF, \h1A20..\h1A54, \h1A55..\h1A5E \cup \h1A61..\h1A72, {\h1A60}),
  Block(\hAA00..\hAA5F, \hAA00..\hAA28, \hAA29..\hAA36, {\hAA4D}),
  Block(\h1BC0..\h1BFF, \h1BC0..\h1BE3, \h1BE7..\h1BEE, {\h1BF2, \h1BF3}),
  Block(\h1A00..\h1A1F, \h1A00..\h1A16, \h1A17..\h1A1B, {})}

TagalogToMeeteiMayek == {
  Block(\h1700..\h171F, \h1703..\h1711 \cup {\h171F}, {\h1712, \h1713}, {\h1714}),
  Block(\h1720..\h173F, \h1723..\h1731, {\h1732, \h1733}, {\h1734}),
  Block(\h1740..\h175F, \h1743..\h1751, {\h1752}, {\h1753}),
  Block(\h1760..\h177F, \h1763..\h1770, {\h1772}, {\h1773}),
  Block(\hABC0..\hABFF, \hABC0..\hABE2, \hABE3..\hABEA, {\hABED}),
  Block(\hAAE0..\hAAFF, {}, {}, {})}

RoleIn(block, place) ==
  CASE place \in block.consonants -> "Consonant"
    [] place \in block.vowels -> "DependentVowel"
    [] place \in block.viramas -> "Virama"
    [] OTHER -> "None"

CoreBlock == Block(\h900..\hD7F, \h15..\h39 \cup \h58..\h5F, \h3E..\h4C, {\h4D})

BlocksOf(cp) == {b \in SinhalaToKhmer \cup BalineseToBuginese \cup TagalogToMeeteiMayek : cp \in b.codes}

IndicCharRole(cp) ==
  IF BlocksOf(cp) # {} THEN RoleIn(CHOOSE b \in BlocksOf(cp) : TRUE, cp)
  ELSE IF cp \in CoreBlock.codes THEN RoleIn(CoreBlock, cp % 128) ELSE "None"

ClassifyChar(cp) ==
  CASE cp \in \h4E00..\h9FFF \/ cp \in \h3400..\h4DBF \/ cp \in \hF900..\hFAFF -> "Ideograph"
    [] cp \in \hAC00..\hD7AF \/ cp \in \h3131..\h3163 -> "Hangul"
    [] cp \in \h3040..\h30FF \/ cp \in \hFF65..\hFF9F -> "Kana"
    [] cp \in CoreBlock.codes \/ BlocksOf(cp) # {} -> "Indic"
    [] OTHER -> "Other"

-----------------------------------------------------------------------------
(***************************************************************************)
(* The language of a buffer and the rows it is read by.                    *)
(***************************************************************************)
ScriptLang ==
  [Thai |-> "th", Lao |-> "lo", Myanmar |-> "my", Khmer |-> "km", Georgian |-> "ka", Armenian |-> "hy",
   Tibetan |-> "bo", Ethiopic |-> "am", Bengali |-> "bn", Tamil |-> "ta", Telugu |-> "te", Kannada |-> "kn",
   Malayalam |-> "ml", Gujarati |-> "gu", Gurmukhi |-> "pa", Oriya |-> "or", Sinhala |-> "si", Hangul |-> "ko",
   Hebrew |-> "he", Arabic |-> "ar", Thaana |-> "dv", Javanese |-> "jv", Mongolian |-> "mn", Devanagari |-> "hi",
   Cyrillic |-> "ru", Han |-> "zh", Hiragana |-> "ja", Katakana |-> "ja", Greek |-> "el", Balinese |-> "ban",
   Bamum |-> "bax", Buginese |-> "bug", Cherokee |-> "chr", Cham |-> "cjm", Coptic |-> "cop", Lisu |-> "lis",
   MeeteiMayek |-> "mni", NKo |-> "nqo", NewTaiLue |-> "khb", OlChiki |-> "sat", Sundanese |-> "su",
   Syriac |-> "syr", TaiLe |-> "tdd", TaiTham |-> "nod", Tagalog |-> "tl", Tifinagh |-> "tzm", Vai |-> "vai"]

IsAmbiguous(script) == script \in {"Cyrillic", "Arabic"}

\* The language of the first character that only one language of its script has.
Discriminated(s, script) ==
  LET exclusive == IF script \in DOMAIN Discriminators THEN Discriminators[script] ELSE <<>>
      hits == SelectSeq(s, LAMBDA c : c \in DOMAIN exclusive)
  IN IF hits = <<>> THEN "none" ELSE exclusive[hits[1]]

\* The script of the first character that is neither Latin nor shared decides.
AutoLang(s) ==
  LET named == SelectSeq(s, LAMBDA c : ScriptName[c] \notin {"Common", "Inherited", "Latin"})
      script == ScriptName[named[1]]
      default == IF script \in DOMAIN ScriptLang THEN ScriptLang[script] ELSE "none"
      found == Discriminated(s, script)
  IN IF named = <<>> THEN Discriminated(s, "Latin")
     ELSE IF IsAmbiguous(script) /\ found # "none" THEN found ELSE default

LangOf(lang, s) == IF lang = "auto" THEN AutoLang(s) ELSE lang

\* The rows of a character, in the order they are asked: at most one counts.
Lookup(lang, c) ==
  LET of(tables) == IF lang \in DOMAIN tables /\ c \in DOMAIN tables[lang] THEN <<tables[lang][c]>> ELSE <<>>
      default == IF c \in DOMAIN Default THEN <<Default[c]>> ELSE <<>>
      rows == of(Overrides) \o of(RegisteredRows) \o default
  IN SubSeq(rows, 1, IF rows = <<>> THEN 0 ELSE 1)

-----------------------------------------------------------------------------
(***************************************************************************)
(* The state of a walk.  `last` is what the engine remembers of the output *)
(* instead of reading its end, <<>> for nothing; `open` says that a        *)
(* consonant has just written its inherent vowel; `found` lists the        *)
(* characters that could not be translated with their places.              *)
(***************************************************************************)
NewWalk == [out |-> <<>>, prev |-> "None", last |-> <<>>, open |-> FALSE, found |-> <<>>]

EndsAlphanumeric(w) == w.last # <<>> /\ w.last[1] \in Alphanumeric

NeedsCjkSpace(prev, class) ==
  \/ prev \in Cjk /\ class \in {"Ideograph", "Hangul"}
  \/ prev \in {"Ideograph", "Hangul"} /\ class = "Kana"
  \/ prev \in {"Latin", "Other", "Indic"} /\ class \in Cjk

\* A run of ASCII is copied; only its first character can need a space.
TakeAscii(w, c) ==
  LET gap == w.prev \in {"Ideograph", "Hangul"} /\ c \in Alphanumeric /\ EndsAlphanumeric(w)
  IN [w EXCEPT !.out = @ \o (IF gap THEN <<Space, c>> ELSE <<c>>),
               !.prev = "Latin", !.last = <<c>>, !.open = FALSE]

IsSign(c) == ScriptClass[c] = "Indic" /\ Role[c] \in {"Virama", "DependentVowel"}
IsConsonant(c) == ScriptClass[c] = "Indic" /\ Role[c] = "Consonant"

\* Mutant: the role alone opens the context, as before an unassigned code
\* point with a consonant's offset took the vowel of the text before it.
OpensByRole(c, row) == IsConsonant(c)
\* A consonant opens the context if it wrote the vowel a sign would take.
Opens(c, row) == IsConsonant(c) /\ row # <<>> /\ row[1] # <<>> /\ Last(row[1]) = "a"

\* A sign behind the vowel takes it, and is consumed even without a row.
TakesVowel(w, c) == w.open /\ IsSign(c)

\* The walk and the row after the Indic rule.
AfterIndic(w, c, row) ==
  IF TakesVowel(w, c)
  THEN [walk |-> [w EXCEPT !.out = IF @ # <<>> /\ Last(@) = "a" THEN Front(@) ELSE @, !.open = FALSE],
        row |-> IF row = <<>> THEN << <<>> >> ELSE row]
  ELSE [walk |-> [w EXCEPT !.open = Opens(c, row)], row |-> row]

TakeMapped(w, c, s) ==
  LET class == ScriptClass[c]
      gap == class \in Cjk /\ NeedsCjkSpace(w.prev, class) /\ EndsAlphanumeric(w)
  IN [w EXCEPT !.out = @ \o (IF gap THEN <<Space>> ELSE <<>>) \o s,
               !.last = IF s # <<>> THEN <<Last(s)>> ELSE IF gap THEN <<Space>> ELSE @,
               !.prev = class]

\* The error mode, for a character nothing translates.
Give(w, how, c, at) ==
  LET written == CASE how.errors = "replace" -> how.replacement
                   [] how.errors = "ignore" -> <<>>
                   [] how.errors = "preserve" -> <<c>>
  IN [w EXCEPT !.out = @ \o written,
               !.last = IF how.errors = "ignore" THEN @
                        ELSE IF written = <<>> THEN <<>> ELSE <<Last(written)>>,
               !.prev = "Other", !.found = Append(@, <<c, at>>)]

\* A call's walk: the language, the error mode and its replacement.
Call(lang, errors, replacement) == [lang |-> lang, errors |-> errors, replacement |-> replacement]

TakeBehind(Unmapped(_, _, _, _), how, indic, c, at) ==
  IF indic.row # <<>> THEN TakeMapped(indic.walk, c, indic.row[1]) ELSE Unmapped(indic.walk, how, c, at)

\* One character, given what is done with an unmapped one.
TakeWith(Unmapped(_, _, _, _), how, w, c, at) ==
  IF c \in AsciiChars THEN TakeAscii(w, c)
  ELSE TakeBehind(Unmapped, how, AfterIndic(w, c, Lookup(how.lang, c)), c, at)

WalkWith(Unmapped(_, _, _, _), how, s) ==
  FoldLeft(LAMBDA w, i : TakeWith(Unmapped, how, w, s[i], i), NewWalk, [i \in DOMAIN s |-> i])

\* The NFKC image is its own: no character of it has another image.
Image(how, c) == WalkWith(Give, how, NFKC(<<c>>))

\* What the image writes, reported unless all of it was mapped.
WriteImage(w, image, c, at) ==
  [w EXCEPT !.out = @ \o image.out, !.last = <<Last(image.out)>>, !.prev = "Latin",
            !.found = IF image.found = <<>> THEN @ ELSE Append(@, <<c, at>>)]

Recover(w, how, c, at, image) ==
  IF image.out # <<>> THEN WriteImage(w, image, c, at) ELSE Give(w, how, c, at)

\* handle_unmapped
TakeUnmapped(w, how, c, at) ==
  IF NFKC(<<c>>) # <<c>> THEN Recover(w, how, c, at, Image(how, c)) ELSE Give(w, how, c, at)

Walk(how, s) == WalkWith(TakeUnmapped, how, s)

-----------------------------------------------------------------------------
(***************************************************************************)
(* The buffer the second attempt walks: the composed text, each character  *)
(* with the place of the text's character it is reported as.               *)
(***************************************************************************)
Least(S) == CHOOSE n \in S : \A m \in S : n <= m

\* attribute(): a character the cluster holds is the first one still free; what
\* composition made is the first place still free, and what is left the start.
Sources(in, out) ==
  LET held(places, c) ==
        LET free == {k \in DOMAIN in : in[k] = c} \ ToSet(places)
        IN Append(places, IF free = {} THEN 0 ELSE Least(free))
      made(places, j) ==
        LET free == DOMAIN in \ ToSet(places)
        IN IF places[j] # 0 THEN places
           ELSE [places EXCEPT ![j] = IF free = {} THEN 1 ELSE Least(free)]
  IN FoldLeft(made, FoldLeft(held, <<>>, out), [j \in DOMAIN out |-> j])

\* Places in the text of the characters of Composed(s).
Origins(s) ==
  LET places(i) ==
        LET unit == SubSeq(s, i, UnitEnd(s, i))
            from == Sources(unit, Unit(unit))
        IN [j \in DOMAIN from |-> i + from[j] - 1]
      from[i \in 1..(Len(s) + 1)] ==
        IF i > Len(s) THEN <<>> ELSE places(i) \o from[UnitEnd(s, i) + 1]
  IN from[1]

Buffer(s) == IF NeedsComposition(s) THEN Composed(s) ELSE s

\* The walk over a buffer whose language is found first.
WalkBuffer(lang, errors, replacement, buffer) ==
  Walk(Call(LangOf(lang, buffer), errors, replacement), buffer)

\* The answer of a call that is not stopped.
Transliterate(lang, errors, replacement, s) ==
  IF IsAscii(s) THEN s ELSE WalkBuffer(lang, errors, replacement, Buffer(s)).out

\* find_untranslatable: what the walk reports, as the text's own characters.
OwnPlaces(s, places) == [k \in DOMAIN places |-> <<s[places[k]], places[k]>>]

Untranslatable(lang, s) ==
  IF IsAscii(s) THEN <<>>
  ELSE LET found == WalkBuffer(lang, "ignore", <<>>, Buffer(s)).found
       IN OwnPlaces(s, [k \in DOMAIN found |-> IF NeedsComposition(s) THEN Origins(s)[found[k][2]]
                                               ELSE found[k][2]])
=============================================================================
