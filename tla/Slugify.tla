------------------------------- MODULE Slugify ------------------------------
(***************************************************************************)
(* slugify (slugify.rs): replacements, HTML entities, transliteration or,  *)
(* under allow_unicode, composition, a filter that puts one separator      *)
(* where other characters were, stopwords and the cut to max_length, which *)
(* counts bytes.  A config is a record of the options; `removed` is the    *)
(* set of characters regex_pattern matches, and no key of `replacements`   *)
(* is empty.                                                               *)
(***************************************************************************)
EXTENDS Transliteration

CONSTANTS
  Bytes,              \* the length of a character in UTF-8
  AlphabeticSymbols,  \* alphanumeric, and symbols all the same
  Clustered,          \* pairs of starters in one grapheme cluster (jamo)
  NamedEntities,      \* <<"&", ..., ";">> to its character
  DigitValue,         \* of hexadecimal digits
  CharAt              \* a code point's character, control characters left out

MAX_SLUG_COMBINING_MARKS == 2

IsAt(p, s, i) == i + Len(p) - 1 <= Len(s) /\ SubSeq(s, i, i + Len(p) - 1) = p

\* s read from the left: Read(i) is how much is read at i and what is written for it.
ReadAlong(s, Read(_)) ==
  LET from[i \in 1..(Len(s) + 1)] ==
        IF i > Len(s) THEN <<>> ELSE Read(i)[2] \o from[i + Read(i)[1]]
  IN from[1]

\* At each place the first pair whose key stands there.
Replaced(s, pairs) ==
  LET at(i) == SelectSeq(pairs, LAMBDA p : IsAt(p[1], s, i))
      read(i) == IF at(i) = <<>> THEN <<1, <<s[i]>>>> ELSE <<Len(at(i)[1][1]), at(i)[1][2]>>
  IN ReadAlong(s, read)

-----------------------------------------------------------------------------
(***************************************************************************)
(* Entities.  A letter with a mark behind it is read as the accented       *)
(* letter it renders as: neither the x of "&#x" nor a digit.               *)
(***************************************************************************)
PlainLetter(s, i) == ~Here(s, i + 1, Marks)

IsHex(s, i) == Here(s, i + 2, {"x", "X"}) /\ PlainLetter(s, i + 2)

\* decode_numeric_entity: <<length, what is written>>, nothing without a digit.
NumericEntity(s, i) ==
  LET radix == IF IsHex(s, i) THEN 16 ELSE 10
      start == i + (IF IsHex(s, i) THEN 3 ELSE 2)
      isDigit(j) == /\ Here(s, j, DOMAIN DigitValue) /\ DigitValue[s[j]] < radix
                    /\ DigitValue[s[j]] >= 10 => PlainLetter(s, j)
      end == CHOOSE e \in start..(Len(s) + 1) : ~isDigit(e) /\ \A j \in start..(e - 1) : isDigit(j)
      value == FoldLeft(LAMBDA v, c : radix * v + DigitValue[c], 0, SubSeq(s, start, end - 1))
  IN IF end = start THEN <<>>
     ELSE << <<(IF Here(s, end, {";"}) THEN end + 1 ELSE end) - i,
               IF value \in DOMAIN CharAt THEN <<CharAt[value]>> ELSE <<>> >> >>

\* A "&" that begins no entity is text.
DecodeEntities(s, cf) ==
  LET named(i) == {e \in DOMAIN NamedEntities : IsAt(e, s, i)}
      asked(i) == IF Here(s, i + 2, {"x", "X"}) THEN cf.hexadecimal ELSE cf.decimal
      numeric(i) == IF IsAt(<<"&", "#">>, s, i) /\ asked(i) THEN NumericEntity(s, i) ELSE <<>>
      read(i) == IF named(i) # {} THEN LET e == CHOOSE e \in named(i) : TRUE
                                       IN <<Len(e), <<NamedEntities[e]>> >>
                 ELSE IF numeric(i) # <<>> THEN numeric(i)[1]
                 ELSE <<1, <<s[i]>> >>
  IN ReadAlong(s, read)

-----------------------------------------------------------------------------
(***************************************************************************)
(* The filter.                                                             *)
(***************************************************************************)
IsUnicodeSlugChar(c) == c \in (Alphanumeric \ AlphabeticSymbols) \cup Marks \cup Joiners

IsWordChar(c, cf) ==
  \/ IF cf.allowUnicode /\ c \notin AsciiChars THEN IsUnicodeSlugChar(c) ELSE c \in Alphanumeric
  \/ c \in cf.safe

BaseMarkCount(c) == Len(SelectSeq(NFD(<<c>>), LAMBDA d : d \in Marks))

\* What the next character is read with: a joiner that waits for a kept
\* character, the marks of the base, and whether a base is in scope.
NewTokens == [slug |-> <<>>, prevSep |-> TRUE, joiner |-> <<>>, marks |-> 0, inToken |-> FALSE]

Push(t, c) == [t EXCEPT !.slug = @ \o t.joiner \o <<c>>, !.joiner = <<>>, !.prevSep = FALSE, !.inToken = TRUE]

KeepMark(t, c) ==
  LET counted == [t EXCEPT !.marks = @ + 1]
  IN IF ~t.inToken THEN t
     ELSE IF counted.marks > MAX_SLUG_COMBINING_MARKS THEN counted
     ELSE Push(counted, c)

KeepWordChar(t, c, cf) ==
  IF ~cf.allowUnicode THEN Push(t, c)
  ELSE IF c \in Joiners THEN IF t.inToken THEN [t EXCEPT !.joiner = <<c>>] ELSE t
  ELSE IF c \in Marks THEN KeepMark(t, c)
  ELSE Push([t EXCEPT !.marks = IF c \in AsciiChars THEN 0 ELSE BaseMarkCount(c)], c)

\* A dropped character ends the token, whether or not a separator is written.
EndToken(t, cf) ==
  LET ended == [t EXCEPT !.joiner = <<>>, !.marks = 0, !.inToken = FALSE]
  IN IF t.prevSep \/ cf.separator = <<>> THEN ended
     ELSE [ended EXCEPT !.slug = @ \o cf.separator, !.prevSep = TRUE]

TokenizeChars(s, cf) ==
  FoldLeft(LAMBDA t, c : IF IsWordChar(c, cf) THEN KeepWordChar(t, c, cf) ELSE EndToken(t, cf),
           NewTokens, s).slug

\* The table of an ASCII text: what is written for a character, <<>> for none.
AsciiWord(c, cf, lowercase) ==
  IF c \in Alphanumeric THEN IF lowercase THEN Lowercase(<<c>>) ELSE <<c>>
  ELSE IF c \in cf.safe THEN <<c>> ELSE <<>>

\* Each character writes one, and the place moves on where that stays.
TokenizeOneByteSeparator(s, cf, lowercase) ==
  LET step(t, c) ==
        LET word == AsciiWord(c, cf, lowercase)
        IN [out |-> Append(SubSeq(t.out, 1, t.len), IF word # <<>> THEN word[1] ELSE cf.separator[1]),
            len |-> IF word # <<>> \/ t.afterWord THEN t.len + 1 ELSE t.len,
            afterWord |-> word # <<>>]
      last == FoldLeft(step, [out |-> <<>>, len |-> 0, afterWord |-> FALSE], s)
  IN SubSeq(last.out, 1, last.len)

TokenizeAscii(s, cf, lowercase) ==
  LET step(t, c) ==
        LET word == AsciiWord(c, cf, lowercase)
        IN IF word # <<>> THEN [slug |-> t.slug \o word, prevSep |-> FALSE]
           ELSE IF t.prevSep \/ cf.separator = <<>> THEN t
           ELSE [slug |-> t.slug \o cf.separator, prevSep |-> TRUE]
  IN IF Len(cf.separator) = 1 /\ Bytes[cf.separator[1]] = 1 THEN TokenizeOneByteSeparator(s, cf, lowercase)
     ELSE FoldLeft(step, [slug |-> <<>>, prevSep |-> TRUE], s).slug

-----------------------------------------------------------------------------
(***************************************************************************)
(* Stopwords.                                                              *)
(***************************************************************************)
\* split: the words between the separators, which are found from the left.
Words(s, separator) ==
  LET from[i \in 1..(Len(s) + 1)] ==
        IF i > Len(s) THEN << <<>> >>
        ELSE IF IsAt(separator, s, i) THEN << <<>> >> \o from[i + Len(separator)]
        ELSE LET rest == from[i + 1] IN << <<s[i]>> \o rest[1] >> \o Tail(rest)
  IN from[1]

Joined(words, separator) ==
  FlattenSeq([i \in DOMAIN words |-> IF i = 1 THEN words[i] ELSE separator \o words[i]])

\* A slug that was not lowercased is compared lowercased.
IsStopword(word, cf) == (IF cf.lowercase THEN word ELSE Lowercase(word)) \in {Lowercase(w) : w \in cf.stopwords}

\* With save_order only those at the ends go.
FilterStopwords(s, cf) ==
  LET words == Words(s, cf.separator)
      kept == {i \in DOMAIN words : ~IsStopword(words[i], cf)}
      ends == IF kept = {} THEN <<>> ELSE SubSeq(words, Min(kept), Max(kept))
  IN IF cf.stopwords = {} \/ cf.separator = <<>> THEN s
     ELSE Joined(IF cf.saveOrder THEN ends ELSE SelectSeq(words, LAMBDA w : ~IsStopword(w, cf)), cf.separator)

-----------------------------------------------------------------------------
(***************************************************************************)
(* The cut.                                                                *)
(***************************************************************************)
Size(s) == FoldLeft(LAMBDA n, c : n + Bytes[c], 0, s)

\* May a text be cut behind its first n characters?
IsClusterBoundary(s, n) ==
  n \in DOMAIN s /\ n + 1 \in DOMAIN s => s[n + 1] \notin Marks \cup Joiners /\ <<s[n], s[n + 1]>> \notin Clustered

\* floor_slug_boundary: what a cut to max bytes keeps.
FloorBoundary(s, max, cf) ==
  SubSeq(s, 1, Max({n \in 0..Len(s) : /\ Size(SubSeq(s, 1, n)) <= max
                                      /\ cf.allowUnicode => IsClusterBoundary(s, n)}))

TrimJoinersEnd(s) == SubSeq(s, 1, Max({i \in DOMAIN s : s[i] \notin Joiners} \cup {0}))
StripSeparatorPrefix(s, separator) ==
  LET cut == Max({n \in 0..Len(separator) : IsSuffix(SubSeq(separator, 1, n), s)})
  IN SubSeq(s, 1, Len(s) - cut)

\* A cut leaves neither a joiner nor a piece of the separator at the end.
TrimCutTail(s, cf) ==
  IF ~cf.allowUnicode THEN StripSeparatorPrefix(s, cf.separator)
  ELSE TrimJoinersEnd(StripSeparatorPrefix(TrimJoinersEnd(s), cf.separator))

CutPlainly(s, cf) == TrimCutTail(FloorBoundary(s, cf.maxLength, cf), cf)

\* truncate_at_boundary: the words that fit, or a piece of the first.
CutAtWord(s, cf) ==
  LET cut == FloorBoundary(s, cf.maxLength, cf)
      ends == {i \in DOMAIN cut : IsAt(cf.separator, cut, i)}
  IN IF cf.separator = <<>> THEN CutPlainly(s, cf)
     ELSE IF IsAt(cf.separator, s, Len(cut) + 1) THEN cut
     ELSE IF ends # {} THEN SubSeq(cut, 1, Max(ends) - 1)
     ELSE CutPlainly(s, cf)

Truncated(s, cf) ==
  IF cf.maxLength = 0 \/ Size(s) <= cf.maxLength THEN s
  ELSE IF cf.wordBoundary THEN CutAtWord(s, cf)
  ELSE CutPlainly(s, cf)

-----------------------------------------------------------------------------
(***************************************************************************)
(* slugify_impl, step by step.                                             *)
(***************************************************************************)
ComposeStr(s) == IF NeedsComposition(s) THEN Composed(s) ELSE s

\* An ASCII text is lowercased by the filter, unless the pattern has to see it first.
AsciiPass(s, cf) == cf.removed = {} /\ IsAscii(s)

\* Steps 1 to 3.
Spelt(s, cf) ==
  LET replaced == Replaced(s, cf.replacements)
      decoded == IF cf.entities THEN DecodeEntities(replaced, cf) ELSE replaced
  IN IF cf.allowUnicode THEN decoded ELSE Transliterate(cf.lang, "ignore", <<>>, decoded)

\* Steps 1 to 4b.
Prepared(s, cf) ==
  LET spelt == Spelt(s, cf)
      lowered == IF cf.lowercase /\ ~AsciiPass(spelt, cf) THEN Lowercase(spelt) ELSE spelt
  IN IF cf.allowUnicode THEN ComposeStr(lowered) ELSE lowered

\* Steps 5 to 6b.
Filtered(s, cf) ==
  LET rest == SelectSeq(s, LAMBDA c : c \notin cf.removed)
      slug == IF IsAscii(rest) THEN TokenizeAscii(rest, cf, cf.lowercase /\ AsciiPass(s, cf))
              ELSE TokenizeChars(rest, cf)
      stripped == IF cf.separator # <<>> /\ IsSuffix(cf.separator, slug)
                  THEN SubSeq(slug, 1, Len(slug) - Len(cf.separator)) ELSE slug
  IN IF cf.allowUnicode /\ cf.separator = <<>> THEN ComposeStr(stripped) ELSE stripped

Slug(s, cf) ==
  LET cut == Truncated(FilterStopwords(Filtered(Prepared(s, cf), cf), cf), cf)
  IN IF cf.allowUnicode THEN Trimmed(cut, Joiners) ELSE cut
=============================================================================
