------------------------------ MODULE Detectors -----------------------------
(***************************************************************************)
(* What a text is, said beside the folds: the script of a character,       *)
(* whether a text stays within one writing system, whether letters of both *)
(* directions meet in it, what lang="auto" tells the caller it found       *)
(* (scripts.rs); which characters the confusable fold rewrites and which   *)
(* it knows of and leaves (confusables.rs); which values share a key       *)
(* (collisions.rs); what a host shows (hostname.rs); and which bytes are   *)
(* hidden in invisible characters (smuggled.rs).                           *)
(***************************************************************************)
EXTENDS TextSteps, Transliteration

CONSTANTS
  CodePoint,         \* of every character
  ScriptRanges,      \* <<first, last, script>>, sorted and disjoint
  AssignedRanges,    \* <<first, last>>, sorted and disjoint, like the next
  CommonCarveouts,
  StrongLtr, StrongRtl,
  Alphabetic,        \* char::is_alphabetic
  White,             \* char::is_whitespace
  WordJoiners,       \* the punctuation that joins words
  UpstreamSources,   \* what confusables.txt lists, with or without a row here
  AsciiGraphic,      \* the printable ASCII characters but the space
  MAX_BATCH_SIZE,
  LabelSeparators,   \* of a host: the full stop and its three variants
  Stop,              \* U+002E
  IdnaMap,           \* what the mapping changes: character to string, <<>> to drop it
  IdnaRefused,       \* characters no label may hold
  AceLabels,         \* a label in the ASCII encoding to what it encodes
  HexDigits, Colon, Percent, OpenBracket, CloseBracket,
  Contractions,      \* two letters that read as one: <<first, second>> to it
  TagByte,           \* the tag characters that carry a byte
  CancelTag,
  VariationByte,     \* the byte of each variation selector
  PresentationSelectors,  \* text and emoji style
  PercentSign, HexValue,
  SneakyBit,         \* U+2062 and U+2064 to their bits
  ZeroWidthBit,      \* U+200B and U+200C to theirs
  BitSeparators,     \* what is skipped among those
  Gap,               \* U+200B: between sneaky bits it ends a word
  MultiByte          \* the UTF-8 of the visible characters past ASCII in use

-----------------------------------------------------------------------------
(***************************************************************************)
(* The script of a character.                                              *)
(***************************************************************************)
\* The binary search: the place of the last range that starts at or before cp.
RangeBefore(ranges, cp) == Max({i \in DOMAIN ranges : ranges[i][1] <= cp} \cup {0})

InRanges(ranges, cp) == LET i == RangeBefore(ranges, cp) IN i # 0 /\ cp <= ranges[i][2]

BlockScriptOf(c) ==
  LET cp == CodePoint[c]
      i == RangeBefore(ScriptRanges, cp)
  IN IF InRanges(AssignedRanges, cp) /\ InRanges(ScriptRanges, cp) THEN ScriptRanges[i][3] ELSE "Common"

ScriptOfChar(c) ==
  LET script == BlockScriptOf(c)
  IN IF /\ c \notin AsciiChars /\ script \notin {"Common", "Inherited"}
        /\ InRanges(CommonCarveouts, CodePoint[c])
     THEN "Common" ELSE script

CharScripts == [c \in Chars |-> ScriptOfChar(c)]
DetectCharScript(c) == CharScripts[c]

Specific(script) == script \notin {"Common", "Inherited"}

\* The scripts of a text in the order they appear.
DetectScripts(s) ==
  FoldLeft(LAMBDA found, c : IF Specific(DetectCharScript(c)) /\ DetectCharScript(c) \notin ToSet(found)
                             THEN Append(found, DetectCharScript(c)) ELSE found, <<>>, s)

-----------------------------------------------------------------------------
(***************************************************************************)
(* Writing systems, after UTS #39's augmented script sets.                 *)
(***************************************************************************)
AugmentedSet(script) ==
  CASE script = "Han" -> {"Hani", "Jpan", "Kore", "Hanb"}
    [] script \in {"Hiragana", "Katakana"} -> {"Jpan"}
    [] script = "Hangul" -> {"Kore"}
    [] script = "Bopomofo" -> {"Hanb"}
    [] OTHER -> {}

NewSystems == [cjk |-> {"Hani", "Jpan", "Kore", "Hanb"}, sawCjk |-> FALSE, other |-> <<>>, one |-> TRUE]

\* accept(): nothing is looked at once the answer is known.
Accept(a, script) ==
  LET set == AugmentedSet(script)
      next == IF set # {} THEN [a EXCEPT !.cjk = @ \cap set, !.sawCjk = TRUE]
              ELSE [a EXCEPT !.other = IF @ = <<>> THEN <<script>> ELSE @]
  IN IF ~a.one \/ ~Specific(script) THEN a
     ELSE [next EXCEPT !.one = /\ next.cjk # {}
                               /\ set # {} \/ next.other = <<script>>
                               /\ ~(next.sawCjk /\ next.other # <<>>)]

\* Mutant: two scripts are mixed, as before #776.
OneScript(scripts) == Cardinality({x \in ToSet(scripts) : Specific(x)}) <= 1
IsSingleAugmentedScript(scripts) == FoldLeft(Accept, NewSystems, scripts).one

IsMixedScript(s) == ~IsSingleAugmentedScript([i \in DOMAIN s |-> DetectCharScript(s[i])])

-----------------------------------------------------------------------------
(***************************************************************************)
(* Directions.                                                             *)
(***************************************************************************)
\* With lettersOnly a mark of direction does not count.
BidiConflict(s, lettersOnly) ==
  LET read == SelectSeq(s, LAMBDA c : lettersOnly => c \in Alphabetic)
  IN ToSet(read) \cap StrongLtr # {} /\ ToSet(read) \cap StrongRtl # {}

HasBidiConflict(s) == BidiConflict(s, FALSE)
HasBidiLetterConflict(s) == BidiConflict(s, TRUE)
HasBidiControl(s) == \E i \in DOMAIN s : In(s[i], {"bidi"})

-----------------------------------------------------------------------------
(***************************************************************************)
(* Words: the anomaly detector's splitters, <<start, text>> each.          *)
(***************************************************************************)
Parts(s, IsBoundary(_)) ==
  LET starts == {i \in DOMAIN s : ~IsBoundary(s[i]) /\ (i > 1 => IsBoundary(s[i - 1]))}
      end(i) == Max({j \in i..Len(s) : \A k \in i..j : ~IsBoundary(s[k])})
  IN [k \in 1..Cardinality(starts) |->
       LET i == SetToSortSeq(starts, <)[k] IN <<i, SubSeq(s, i, end(i))>>]

WordParts(s) == Parts(s, LAMBDA c : c \in White \cup WordJoiners)

AnyPart(parts, P(_)) == \E k \in DOMAIN parts : P(parts[k][2])

IsMixedScriptPerWord(s) == AnyPart(WordParts(s), IsMixedScript)
HasBidiConflictPerWord(s) == AnyPart(WordParts(s), HasBidiConflict)

-----------------------------------------------------------------------------
(***************************************************************************)
(* inspect_auto_lang: what resolve_auto_lang (AutoLang) does, said aloud.  *)
(***************************************************************************)
Inspection(script, lang, reason, hits) == [script |-> script, lang |-> lang, reason |-> reason, hits |-> hits]

InspectAutoLang(s) ==
  LET named == SelectSeq(s, LAMBDA c : Specific(DetectCharScript(c)) /\ DetectCharScript(c) # "Latin")
      script == IF named = <<>> THEN "none" ELSE DetectCharScript(named[1])
      exclusive(of) == IF of \in DOMAIN Discriminators THEN Discriminators[of] ELSE <<>>
      hits(of) == LET all == SelectSeq(s, LAMBDA c : c \in DOMAIN exclusive(of))
                  IN SubSeq(all, 1, IF all = <<>> THEN 0 ELSE 1)
      default == IF script \in DOMAIN ScriptLang THEN ScriptLang[script] ELSE "none"
      by(of, reason) == Inspection(script, exclusive(of)[hits(of)[1]], reason, hits(of))
  IN IF script # "none" /\ IsAmbiguous(script)
     THEN IF hits(script) # <<>> THEN by(script, "discriminator")
          ELSE Inspection(script, default, "script_default", <<>>)
     ELSE IF script # "none" THEN Inspection(script, default, "unambiguous_script", <<>>)
     ELSE IF hits("Latin") # <<>> THEN by("Latin", "latin_discriminator")
     ELSE Inspection("none", "none", "no_detection", <<>>)

-----------------------------------------------------------------------------
\* The buffer a table is looked up in, and where its characters come from.
LookupForm(s) == IF NeedsComposition(s) THEN Composed(s) ELSE s
PlaceOf(s, k) == IF NeedsComposition(s) THEN Origins(s)[k] ELSE k

\* is_confusable: printable ASCII is no detection, whatever rows it has.
IsConfusable(s) ==
  \E i \in DOMAIN LookupForm(s) : LET c == LookupForm(s)[i] IN c \notin AsciiGraphic /\ c \in DOMAIN Rows

IsAllowed(c, allowed) == Specific(DetectCharScript(c)) /\ DetectCharScript(c) \in allowed

\* Those of the looked-up characters that are Reported, each as the text's own
\* character with its place there.
Located(s, Reported(_)) ==
  LET form == LookupForm(s)
      found == SelectSeq([k \in DOMAIN form |-> k], LAMBDA k : Reported(form[k]))
  IN [n \in DOMAIN found |-> <<s[PlaceOf(s, found[n])], PlaceOf(s, found[n])>>]

FindConfusables(s, allowed) ==
  Located(s, LAMBDA c : c \notin AsciiGraphic /\ c \in DOMAIN Rows /\ ~(allowed # {} /\ IsAllowed(c, allowed)))

FindUnmappedConfusables(s) == Located(s, LAMBDA c : c \notin DOMAIN Rows /\ c \in UpstreamSources)

-----------------------------------------------------------------------------
(***************************************************************************)
(* find_key_collisions.  A group is a key with the values that have it,    *)
(* each listed once, and their indices, a repeated value's too.            *)
(***************************************************************************)
\* reduce: two of the key forms callers choose from.
Reduce(value, form) ==
  CASE form = "fold_case" -> FoldCase(value)
    [] form = "normalize_confusables" -> FixedPoint("numeric", "lookup", value)

\* Mutant: a repeated value is left out with its index.
AddDistinct(groups, key, value, index) ==
  LET slots == {g \in DOMAIN groups : groups[g].key = key}
      own == CHOOSE g \in slots : TRUE
  IN IF slots = {} THEN Append(groups, [key |-> key, values |-> <<value>>, indices |-> <<index>>])
     ELSE IF value \in ToSet(groups[own].values) THEN groups
     ELSE [groups EXCEPT ![own].indices = Append(@, index), ![own].values = Append(@, value)]
\* One value more, at the end of its key's group.
Add(groups, key, value, index) ==
  LET slots == {g \in DOMAIN groups : groups[g].key = key}
      own == CHOOSE g \in slots : TRUE
  IN IF slots = {} THEN Append(groups, [key |-> key, values |-> <<value>>, indices |-> <<index>>])
     ELSE [groups EXCEPT ![own].indices = Append(@, index),
                         ![own].values = IF value \in ToSet(@) THEN @ ELSE Append(@, value)]

\* A batch that is too large is refused: <<>> for that, <<groups>> else.
FindKeyCollisions(values, form) ==
  LET groups == FoldLeft(LAMBDA g, i : Add(g, Reduce(values[i], form), values[i], i),
                         <<>>, [i \in DOMAIN values |-> i])
  IN IF Len(values) > MAX_BATCH_SIZE THEN <<>> ELSE <<SelectSeq(groups, LAMBDA g : Len(g.values) > 1)>>

-----------------------------------------------------------------------------
(***************************************************************************)
(* The hostname screen: a host is split into labels, each mapped as a      *)
(* resolver maps it and judged by its scripts, and the whole by its        *)
(* directions; `canonical` is the host with what was hidden gone.  The     *)
(* mapping is the idna crate's.                                            *)
(***************************************************************************)
IsInvisibleInHostname(c) ==
  In(c, {"zerowidth", "tag", "selector", "nonchar", "pua", "cgj", "format", "ignorable"}) /\ ~In(c, {"bidi"})

\* A bracketed literal with a colon is an address: no labels are looked at.
IsIpv6Literal(s) ==
  LET inner == SubSeq(s, 2, Len(s) - 1)
      count(c, t) == Len(SelectSeq(t, LAMBDA d : d = c))
      address == SubSeq(inner, 1, Min({i \in DOMAIN inner : inner[i] = Percent} \cup {Len(inner) + 1}) - 1)
  IN /\ Len(s) > 1 /\ s[1] = OpenBracket /\ Last(s) = CloseBracket
     /\ count(Colon, inner) > 0 /\ count(Colon, address) <= 7
     /\ count(Percent, inner) <= 1
     /\ ToSet(inner) \subseteq HexDigits \cup {Colon, Stop, Percent}

\* split: the labels, the empty ones included.
Split(s, separators) ==
  LET ends == SetToSortSeq({i \in DOMAIN s : s[i] \in separators} \cup {Len(s) + 1}, <)
  IN [k \in DOMAIN ends |-> SubSeq(s, IF k = 1 THEN 1 ELSE ends[k - 1] + 1, ends[k] - 1)]

JoinLabels(labels) ==
  FlattenSeq([k \in DOMAIN labels |-> IF k = 1 THEN labels[k] ELSE <<Stop>> \o labels[k]])

\* domain_to_unicode: <<label>>, or <<>> where it is refused: a character, a
\* mark at the start, a label of both directions, an encoding of what the
\* mapping would have changed.
DomainToUnicode(label) ==
  LET mapped == NFC(FlattenSeq([i \in DOMAIN label |->
                  IF label[i] \in DOMAIN IdnaMap THEN IdnaMap[label[i]] ELSE <<label[i]>>]))
      decoded == IF mapped \in DOMAIN AceLabels THEN AceLabels[mapped] ELSE mapped
      valid == /\ ToSet(decoded) \cap (IdnaRefused \cup DOMAIN IdnaMap) = {}
               /\ decoded # <<>> => decoded[1] \notin Marks
               /\ ~HasBidiConflict(decoded)
  IN IF valid THEN <<decoded>> ELSE <<>>

HasCompatForm(label) == \E i \in DOMAIN label : NFKC(<<label[i]>>) # <<label[i]>>

NormalizeConfusables(s) == FixedPoint("numeric", "lookup", s)

Visible(s) == SelectSeq(s, LAMBDA c : ~IsInvisibleInHostname(c))

\* Mutant: what the mapping brought is not looked at, only what was typed.
LabelStrippedOnce(raw) ==
  LET mapped == DomainToUnicode(Visible(raw))
      text == NFKC(IF mapped = <<>> THEN Visible(raw) ELSE mapped[1])
      scripts == DetectScripts(text)
  IN [text |-> text, scripts |-> scripts, refused |-> mapped = <<>>,
      invisible |-> Visible(raw) # raw,
      compat |-> HasCompatForm(raw), mixed |-> ~IsSingleAugmentedScript(scripts),
      confusable |-> IsConfusable(text),
      whole |-> Len(scripts) = 1 /\ scripts # <<"Latin">>
                /\ DetectScripts(NormalizeConfusables(text)) = <<"Latin">>]
\* What one label shows: invisibles are dropped as typed, and as mapped.
Label(raw) ==
  LET mapped == DomainToUnicode(Visible(raw))
      form == NFKC(IF mapped = <<>> THEN Visible(raw) ELSE mapped[1])
      text == Visible(form)
      scripts == DetectScripts(text)
  IN [text |-> text, scripts |-> scripts, refused |-> mapped = <<>>,
      invisible |-> Visible(raw) # raw \/ text # form,
      compat |-> HasCompatForm(raw), mixed |-> ~IsSingleAugmentedScript(scripts),
      confusable |-> IsConfusable(text),
      whole |-> Len(scripts) = 1 /\ scripts # <<"Latin">>
                /\ DetectScripts(NormalizeConfusables(text)) = <<"Latin">>]

EmptyLabel == [text |-> <<>>, scripts |-> <<>>, refused |-> FALSE, invisible |-> FALSE, compat |-> FALSE,
               mixed |-> FALSE, confusable |-> FALSE, whole |-> FALSE]

\* The leftmost pair is contracted, and what it gives is not looked at again.
Contract(s) ==
  LET from[i \in 1..(Len(s) + 1)] ==
        IF i > Len(s) THEN <<>>
        ELSE IF SubSeq(s, i, IF i < Len(s) THEN i + 1 ELSE i) \in DOMAIN Contractions
          THEN <<Contractions[<<s[i], s[i + 1]>>]>> \o from[i + 2]
        ELSE <<s[i]>> \o from[i + 1]
  IN from[1]

\* is_suspicious_hostname: a script beside another label's, or a whole label
\* that reads as Latin, is told and not held against the host.
AnalyzeHostname(host, contractions) ==
  LET raw == Split(host, LabelSeparators)
      labels == [k \in DOMAIN raw |-> IF raw[k] = <<>> THEN EmptyLabel ELSE Label(raw[k])]
      any(P(_)) == \E k \in DOMAIN labels : P(labels[k])
      decoded == JoinLabels([k \in DOMAIN labels |-> labels[k].text])
      canonical == NormalizeConfusables(SelectSeq(decoded, LAMBDA c : ~In(c, {"bidi"})))
      all == UNION {ToSet(labels[k].scripts) : k \in DOMAIN labels}
      signs == [mixed |-> any(LAMBDA l : l.mixed), confusables |-> any(LAMBDA l : l.confusable),
                bidiConflict |-> HasBidiConflict(decoded), bidiControl |-> HasBidiControl(decoded),
                invisible |-> any(LAMBDA l : l.invisible), compat |-> any(LAMBDA l : l.compat)]
      analysis ==
        [signs |-> {sign \in DOMAIN signs : signs[sign]},
         crossLabel |-> Cardinality(all) > 1,
         labelScripts |-> [k \in DOMAIN labels |-> labels[k].scripts],
         wholeScript |-> [k \in DOMAIN labels |-> labels[k].whole],
         canonical |-> IF ~contractions THEN canonical
                       ELSE LET parts == Split(canonical, {Stop})
                            IN JoinLabels([k \in DOMAIN parts |-> Contract(parts[k])])]
      address == [signs |-> {}, crossLabel |-> FALSE, labelScripts |-> <<>>, wholeScript |-> <<>>,
                  canonical |-> NFKC(host), suspicious |-> FALSE]
  IN IF IsIpv6Literal(NFKC(host)) THEN address
     ELSE analysis @@ [suspicious |-> analysis.signs # {} \/ any(LAMBDA l : l.refused)]

-----------------------------------------------------------------------------
(***************************************************************************)
(* Hidden bytes.  A text is read from the left, and at each place the      *)
(* schemes are tried in order.  A reading is given as text only when every *)
(* byte of it shows, and only when it is the only one.  Bytes are 0..255,  *)
(* and a text that shows is its own UTF-8 bytes.                           *)
(***************************************************************************)
MIN_VARIATION_RUN == 2
MIN_PERCENT_RUN == 2
MIN_SNEAKY_CHARS == 2

(***************************************************************************)
(* Bytes, bits and what they spell.                                        *)
(***************************************************************************)
\* How many bytes the characters of a text have, one after the other; <<>>
\* where some byte does not show.
Spelled(bytes) ==
  LET width(i) == {n \in 1..4 : /\ i + n - 1 <= Len(bytes)
                                /\ \/ n = 1 /\ bytes[i] \in 32..126
                                   \/ SubSeq(bytes, i, i + n - 1) \in MultiByte}
      from[i \in 1..(Len(bytes) + 1)] ==
        IF i > Len(bytes) THEN << <<>> >>
        ELSE IF width(i) = {} THEN <<>>
        ELSE LET n == Min(width(i)) IN [k \in DOMAIN from[i + n] |-> <<n>> \o from[i + n][k]]
  IN from[1]

Printable(bytes) == bytes # <<>> /\ Spelled(bytes) # <<>>

Value(bits) == FoldLeft(LAMBDA v, b : 2 * v + b, 0, bits)
PackBits(bits) == [k \in 1..(Len(bits) \div 8) |-> Value(SubSeq(bits, 8 * k - 7, 8 * k))]

\* A payload: `readings` has none for bytes that spell nothing.
Found(scheme, from, units, bytes, readings) ==
  [scheme |-> scheme, start |-> from, units |-> units, bytes |-> bytes, readings |-> readings]

Finish(scheme, from, units, bytes) ==
  Found(scheme, from, units, bytes, IF Printable(bytes) THEN <<bytes>> ELSE <<>>)

\* The text a caller is given: the only reading, or none.
TextOf(p) == IF Len(p.readings) = 1 THEN p.readings ELSE <<>>

\* What a scheme found: nothing, or how many characters it read and, in
\* `payloads`, at most one payload.
Nothing == [read |-> 0, payloads |-> <<>>]
Read(n, payloads) == [read |-> n, payloads |-> payloads]

RunEnd(s, i, C) == Max({i - 1} \cup {j \in i..Len(s) : \A k \in i..j : s[k] \in C})
Carried(s, i, j, map) == [k \in 1..(j - i + 1) |-> map[s[i + k - 1]]]

(***************************************************************************)
(* The schemes.                                                            *)
(***************************************************************************)
\* A tag sequence's terminator is read with it, and carries nothing.
ScanTagAscii(s, i) ==
  LET j == RunEnd(s, i, DOMAIN TagByte)
      n == j - i + (IF Here(s, j + 1, {CancelTag}) THEN 2 ELSE 1)
  IN IF s[i] \notin DOMAIN TagByte THEN Nothing
     ELSE Read(n, <<Finish("tag_ascii", i, n, Carried(s, i, j, TagByte))>>)

\* A presentation selector on the character before is not of the run, if the
\* rest spells something without it.
ScanVariation(s, i) ==
  LET j == RunEnd(s, i, DOMAIN VariationByte)
      n == j - i + 1
      bytes == Carried(s, i, j, VariationByte)
      attached == i > 1 /\ s[i] \in PresentationSelectors /\ s[i - 1] \notin DOMAIN VariationByte
  IN IF n < MIN_VARIATION_RUN THEN Nothing
     ELSE IF attached /\ n > MIN_VARIATION_RUN /\ Printable(Tail(bytes))
       THEN Read(n, <<Finish("variation_bytes", i + 1, n - 1, Tail(bytes))>>)
     ELSE Read(n, <<Finish("variation_bytes", i, n, bytes)>>)

ScanPercent(s, i) ==
  LET triple(j) == s[j] = PercentSign /\ Here(s, j + 1, DOMAIN HexValue) /\ Here(s, j + 2, DOMAIN HexValue)
      n == Max({k \in 0..(Len(s) \div 3) : \A m \in 0..(k - 1) : i + 3 * m + 2 <= Len(s) /\ triple(i + 3 * m)})
      byte(m) == 16 * HexValue[s[i + 3 * m - 2]] + HexValue[s[i + 3 * m - 1]]
  IN IF n < MIN_PERCENT_RUN THEN Nothing
     ELSE Read(3 * n, <<Finish("percent_escape", i, 3 * n, [m \in 1..n |-> byte(m)])>>)

\* Is a letter of n bits at place `at`?  Six bits have the top bit of 0x20, seven of 0x40.
Letter(bits, at, n) ==
  /\ at + n - 1 <= Len(bits)
  /\ Value(SubSeq(bits, at, at + n - 1)) \in (IF n = 6 THEN 32..63 ELSE 64..126)

\* unpadded_readings: none, the only one, or two of them.  The second walk
\* takes the other length at the first place that has two.
UnpaddedReadings(bits) ==
  LET ways[at \in 1..(Len(bits) + 1)] ==
        IF at > Len(bits) THEN 1
        ELSE Min({2, (IF Letter(bits, at, 7) THEN ways[at + 7] ELSE 0)
                     + (IF Letter(bits, at, 6) THEN ways[at + 6] ELSE 0)})
      choices(at) == {n \in {6, 7} : Letter(bits, at, n) /\ ways[at + n] > 0}
      walk[at \in 1..(Len(bits) + 1), other \in BOOLEAN] ==
        IF at > Len(bits) THEN <<>>
        ELSE LET n == IF other THEN Min(choices(at)) ELSE Max(choices(at))
             IN <<Value(SubSeq(bits, at, at + n - 1))>> \o walk[at + n, other /\ Cardinality(choices(at)) = 1]
  IN CASE ways[1] = 0 -> <<>>
       [] ways[1] = 1 -> <<walk[1, FALSE]>>
       [] ways[1] = 2 -> <<walk[1, FALSE], walk[1, TRUE]>>

Spaced(words) == FlattenSeq([k \in DOMAIN words |-> IF k = 1 THEN words[k] ELSE <<32>> \o words[k]])

\* Bits, and gaps with a bit behind them: one word is read in bytes if that
\* spells two characters; else every word must be spelled without padding.
ScanSneakyBits(s, i) ==
  LET ofRun(j) == s[j] \in DOMAIN SneakyBit \/ (s[j] = Gap /\ Here(s, j + 1, DOMAIN SneakyBit))
      end == Max({i} \cup {j \in i..Len(s) : \A k \in i..j : ofRun(k)})
      n == end - i + 1
      words == FoldLeft(LAMBDA w, c : IF c = Gap THEN Append(w, <<>>)
                                      ELSE [w EXCEPT ![Len(w)] = Append(@, SneakyBit[c])],
                        << <<>> >>, SubSeq(s, i, end))
      bytes == PackBits(words[1])
      padded == /\ Len(words) = 1 /\ Len(words[1]) % 8 = 0
                /\ Printable(bytes) /\ Len(Spelled(bytes)[1]) >= MIN_SNEAKY_CHARS
      per == [k \in DOMAIN words |-> UnpaddedReadings(words[k])]
      first == Spaced([k \in DOMAIN per |-> per[k][1]])
      second == Spaced([k \in DOMAIN per |-> Last(per[k])])
  IN IF s[i] \notin DOMAIN SneakyBit THEN Nothing
     ELSE IF padded THEN Read(n, <<Finish("sneaky_bits", i, n, bytes)>>)
     ELSE IF (\E k \in DOMAIN per : per[k] = <<>>) \/ Len(first) < MIN_SNEAKY_CHARS THEN Read(n, <<>>)
     ELSE IF \A k \in DOMAIN per : Len(per[k]) = 1 THEN Read(n, <<Finish("sneaky_bits", i, n, first)>>)
     ELSE Read(n, <<Found("sneaky_bits", i, n, first, <<first, second>>)>>)

\* Mutant: the bytes are framed from the front only.
FramesHeadOnly(from, n, bits) == Finish("zero_width_binary", from, n, PackBits(bits))
\* Bits over a byte may be in front or behind.
Frames(from, n, bits) ==
  LET head == PackBits(bits)
      tail == PackBits(SubSeq(bits, 1 + (Len(bits) % 8), Len(bits)))
      found(bytes, readings) == Found("zero_width_binary", from, n, bytes, readings)
  IN IF Printable(head) /\ Printable(tail) /\ head # tail THEN found(head, <<head, tail>>)
     ELSE IF Printable(head) \/ ~Printable(tail) THEN Finish("zero_width_binary", from, n, head)
     ELSE found(tail, <<tail>>)

ScanZeroWidth(s, i) ==
  LET n == RunEnd(s, i, DOMAIN ZeroWidthBit \cup BitSeparators) - i + 1
      carriers == SelectSeq(SubSeq(s, i, i + n - 1), LAMBDA c : c \in DOMAIN ZeroWidthBit)
      bits == [k \in DOMAIN carriers |-> ZeroWidthBit[carriers[k]]]
  IN IF s[i] \notin DOMAIN ZeroWidthBit THEN Nothing
     ELSE Read(n, IF Len(bits) < 8 THEN <<>> ELSE <<Frames(i, n, bits)>>)

\* A subdivision flag's tags are its own.
ScanFlag(s, i) ==
  LET tails == {f \in Flags : In(s[i], {"flag"}) /\ i + Len(f) <= Len(s) /\ SubSeq(s, i + 1, i + Len(f)) = f}
  IN IF tails = {} THEN Nothing ELSE Read(1 + Len(CHOOSE f \in tails : TRUE), <<>>)

\* The first scheme that reads something at a place, or one character passed over.
Scan(s, i, withPercent) ==
  LET tried == <<ScanFlag(s, i), ScanTagAscii(s, i), ScanVariation(s, i),
                 IF withPercent THEN ScanPercent(s, i) ELSE Nothing,
                 ScanSneakyBits(s, i), ScanZeroWidth(s, i)>>
      found == SelectSeq(tried, LAMBDA r : r.read > 0)
  IN IF found = <<>> THEN Read(1, <<>>) ELSE found[1]

Decode(s, withPercent) ==
  LET from[i \in 1..(Len(s) + 1)] ==
        IF i > Len(s) THEN <<>>
        ELSE LET r == Scan(s, i, withPercent) IN r.payloads \o from[i + r.read]
  IN from[1]

DecodeSmuggled(s) == Decode(s, TRUE)
DecodeCarriers(s) == Decode(s, FALSE)
=============================================================================
