---------------------------- MODULE TextUtilities ---------------------------
(***************************************************************************)
(* What is done to a text piece by piece or once at the edge of a program: *)
(* normalization by segments and mark caps by runs (normalize.rs,          *)
(* zalgo.rs), columns by clusters (width.rs, grapheme.rs), typographic     *)
(* punctuation (punctuation.rs), bytes and their encoding (encoding.rs),   *)
(* the encoders of a sink (encoders.rs, log_injection.rs), romanized       *)
(* text read back in its native script (reverse.rs); and a file name made  *)
(* of a text (filename.rs).                                                *)
(***************************************************************************)
EXTENDS Slugify, TextSteps

CONSTANTS
  Prepends,             \* Grapheme_Cluster_Break=Prepend
  ZeroWidthPrepends,    \* those of them that take no cell
  RegionalIndicators,
  EmojiPresentation,    \* default emoji
  EmojiYes,             \* characters with an emoji presentation
  CellClass,            \* 0 zero-width, 1 narrow, 2 wide, 3 ambiguous
  TextStyle, EmojiStyle, EnclosingKeycap,   \* U+FE0E, U+FE0F, U+20E3
  KeycapBases,
  Typographic,          \* ascii_for
  ZeroWidthJoiner,
  LogBreaking,          \* C0, DEL, C1 and the two separators of lines
  Tab,
  ReverseTable,         \* key, a sequence of ASCII letters, to native text
  AsciiUppercase,       \* the ASCII capitals
  AsciiLowercase,       \* ASCII capital to small letter
  NativeUppercase,      \* native small letter to capital
  Illegal,              \* the illegal characters of a file name, by platform
  ControlBlank,         \* the whitespace and control characters
  WINDOWS_RESERVED      \* the device names, in small letters

ASSUME TextUtilitiesAssumption ==
  /\ ZeroWidthPrepends \subseteq Prepends
  /\ CellClass \in [Chars -> 0..3]
  /\ Tab \in LogBreaking

-----------------------------------------------------------------------------
(***************************************************************************)
(* Normalization, segment by segment.                                      *)
(***************************************************************************)
\* The normal forms of the unicode-normalization crate.
Normal(form, s) ==
  CASE form = "NFC" -> NFC(s)
    [] form = "NFD" -> NFD(s)
    [] form = "NFKC" -> NFKC(s)
    [] form = "NFKD" -> Ordered(Expand(Compatible, s))

\* The quick check says Yes: c is in the form and composes with nothing before.
QuickYes(c, form) ==
  /\ Normal(form, <<c>>) = <<c>>
  /\ form \in {"NFC", "NFKC"} => \A pair \in DOMAIN Composite : pair[2] # c

\* Mutant: any starter is a boundary, also one that composes backward.
IsBoundaryAtStarter(c, form) == Ccc[c] = 0
IsBoundary(c, form) == Ccc[c] = 0 /\ QuickYes(c, form)

\* From boundary to boundary: a segment that is its boundary alone is copied.
Segments(s, form) ==
  LET take(segments, c) ==
        IF segments = <<>> \/ IsBoundary(c, form) THEN Append(segments, <<c>>)
        ELSE Append(Front(segments), Append(Last(segments), c))
  IN FoldLeft(take, <<>>, s)

NormalizeSegmented(s, form) ==
  LET settle(t) == IF IsBoundary(t[1], form) /\ Len(t) = 1 THEN t ELSE Normal(form, t)
  IN FlattenSeq([k \in DOMAIN Segments(s, form) |-> settle(Segments(s, form)[k])])

Normalize(s, form) == IF IsAscii(s) THEN s ELSE NormalizeSegmented(s, form)

IsNormalized(s, form) == (\A i \in DOMAIN s : IsBoundary(s[i], form)) \/ Normal(form, s) = s

-----------------------------------------------------------------------------
(***************************************************************************)
(* Mark runs.  A run is [from, to, base], base <<>> at the start of text.  *)
(***************************************************************************)
IsNfdPlain(c) == c \in AsciiChars \/ (IsBoundary(c, "NFD") /\ c \notin Marks)

MarkRuns(s) ==
  LET starts == {i \in DOMAIN s : ~IsNfdPlain(s[i]) /\ (i = 1 \/ IsNfdPlain(s[i - 1]))}
      end(i) == CHOOSE e \in i..Len(s) : (\A j \in i..e : ~IsNfdPlain(s[j])) /\ (e = Len(s) \/ IsNfdPlain(s[e + 1]))
  IN {[from |-> i, to |-> end(i), base |-> IF i = 1 THEN <<>> ELSE <<s[i - 1]>>] : i \in starts}

\* What a walk that begins after the run's base keeps of the run.
KeptOfRun(cap, s, run) ==
  LET walked == FoldLeft(LAMBDA acc, c : Admit(cap, acc, c), NewTally, run.base \o NFD(SubSeq(s, run.from, run.to)))
  IN SubSeq(walked.out, Len(run.base) + 1, Len(walked.out))

\* rewrite_mark_runs: the text between the runs is never decomposed.
CappedByRuns(cap, s) ==
  LET runs == MarkRuns(s)
      at(i) == {run \in runs : i = run.from}
      inside(i) == \E run \in runs : run.from < i /\ i <= run.to
  IN FlattenSeq([i \in DOMAIN s |->
       IF at(i) # {} THEN KeptOfRun(cap, s, CHOOSE run \in at(i) : TRUE)
       ELSE IF inside(i) THEN <<>> ELSE <<s[i]>>])

MAX_MARKS_IN_ONE_CHAR == 3

ExceedsCombiningRun(cap, s) ==
  /\ ~(cap >= MAX_MARKS_IN_ONE_CHAR /\ ~NeedsComposition(s))
  /\ \E run \in MarkRuns(s) : KeptOfRun(cap, s, run) # NFD(SubSeq(s, run.from, run.to))

IsZalgo(s, cap) == ~IsAscii(s) /\ ExceedsCombiningRun(cap, s)

-----------------------------------------------------------------------------
(***************************************************************************)
(* Columns.  Clusters are those of the unicode-segmentation crate.         *)
(***************************************************************************)
EndsCluster(s, n) ==
  LET flags == {i \in 1..n : \A j \in i..n : s[j] \in RegionalIndicators}
      pictographs == EmojiYes \ (KeycapBases \cup RegionalIndicators)
      drawn == Max({i \in 1..(n - 1) : s[i] \notin Marks} \cup {0})
  IN \/ n = Len(s)
     \/ {s[n], s[n + 1]} \cap LogBreaking # {}
     \/ /\ IsClusterBoundary(s, n)
        /\ s[n] \notin Prepends
        /\ ~(s[n] = ZeroWidthJoiner /\ drawn # 0 /\ {s[drawn], s[n + 1]} \subseteq pictographs)
        /\ ~(s[n + 1] \in RegionalIndicators /\ Cardinality(flags) % 2 = 1)

Clusters(s) ==
  LET ends == {0} \cup {n \in DOMAIN s : EndsCluster(s, n)}
      before(n) == Max({m \in ends : m < n})
      list == SetToSortSeq(ends \ {0}, <)
  IN [k \in DOMAIN list |-> SubSeq(s, before(list[k]) + 1, list[k])]

TruncateToGraphemes(s, max) == FlattenSeq(SubSeq(Clusters(s), 1, Min({max, Len(Clusters(s))})))

Columns(class, ambiguousWide) ==
  CASE class = 0 -> 0 [] class = 1 -> 1 [] class = 2 -> 2 [] class = 3 -> IF ambiguousWide THEN 2 ELSE 1

\* The place of a cluster's base: past the prepends that take no cell.
BaseOf(cluster) == Min({i \in DOMAIN cluster : cluster[i] \notin ZeroWidthPrepends} \cup {Len(cluster) + 1})

BasedWidth(base, rest, ambiguousWide) ==
  LET emoji == base \in EmojiPresentation \cup RegionalIndicators
      plain == Columns(CellClass[base], ambiguousWide)
      drawnWide == \/ emoji
                   \/ EmojiStyle \in rest /\ base \in EmojiYes
                   \/ EnclosingKeycap \in rest /\ base \in KeycapBases
  IN IF CellClass[base] = 0 /\ ~emoji THEN 0
     ELSE IF TextStyle \in rest THEN IF emoji THEN 1 ELSE plain
     ELSE IF drawnWide THEN 2 ELSE plain

GraphemeWidth(cluster, ambiguousWide) ==
  LET at == BaseOf(cluster)
  IN IF at \notin DOMAIN cluster THEN 0
     ELSE BasedWidth(cluster[at], ToSet(SubSeq(cluster, at + 1, Len(cluster))), ambiguousWide)

TerminalWidth(s, ambiguousWide) ==
  FoldLeft(LAMBDA sum, cluster : sum + GraphemeWidth(cluster, ambiguousWide), 0, Clusters(s))

FoldPunctuation(s) == Rewrite(Typographic, s)

-----------------------------------------------------------------------------
(***************************************************************************)
(* The encoders of a sink.  Escaped texts are sequences of one-character   *)
(* strings, and percent-encoding is over bytes.                            *)
(***************************************************************************)
HtmlEscape ==
  "&" :> <<"&", "a", "m", "p", ";">> @@ "<" :> <<"&", "l", "t", ";">> @@ ">" :> <<"&", "g", "t", ";">>
  @@ "\"" :> <<"&", "q", "u", "o", "t", ";">> @@ "'" :> <<"&", "#", "x", "2", "7", ";">>

EscapeHtml(s) == Rewrite(HtmlEscape, s)

\* Bytes by their ASCII codes: letters and digits, "-" "." "_" "~"; "!" "$" "&"
\* to "," ":" ";" "=" "@"; and "/".
Unreserved(b) == b \in 48..57 \cup 65..90 \cup 97..122 \cup {45, 46, 95, 126}
Keeps(b, component) ==
  \/ Unreserved(b)
  \/ component \in {"segment", "path"} /\ b \in {33, 36, 58, 59, 61, 64} \cup 38..44
  \/ component = "path" /\ b = 47

UpperHex(n) == IF n < 10 THEN 48 + n ELSE 55 + n

PercentEncode(bytes, component) ==
  LET encoded(b) == IF component = "form" /\ b = 32 THEN <<43>>
                    ELSE IF Keeps(b, component) THEN <<b>>
                    ELSE <<37, UpperHex(b \div 16), UpperHex(b % 16)>>
  IN FlattenSeq([i \in DOMAIN bytes |-> encoded(bytes[i])])

BreaksLog(c, keepTab) == c \in LogBreaking /\ ~(c = Tab /\ keepTab)

ReplacementAllowed(replacement, keepTab) == \A c \in ToSet(replacement) : ~BreaksLog(c, keepTab)

\* <<>> for a replacement that is refused.
StripLogInjection(s, replacement, keepTab) ==
  IF ~ReplacementAllowed(replacement, keepTab) THEN <<>>
  ELSE <<FlattenSeq([i \in DOMAIN s |-> IF BreaksLog(s[i], keepTab) THEN replacement ELSE <<s[i]>>])>>

-----------------------------------------------------------------------------
(***************************************************************************)
(* Bytes and their encoding.  A decoded text is a sequence of code points. *)
(***************************************************************************)
MALFORMED == -1   \* decoded to U+FFFD
REPLACEMENT == 65533
UTF16 == {"utf-16le", "utf-16be"}
\* The marks at the head of a text in each encoding that has one, and the
\* encodings labels name; "utf-16" names no order of bytes.
Bom == "utf-8" :> <<239, 187, 191>> @@ "utf-16le" :> <<255, 254>> @@ "utf-16be" :> <<254, 255>>
ForLabel == "utf-8" :> "utf-8" @@ "utf-16le" :> "utf-16le" @@ "utf-16be" :> "utf-16be" @@ "utf-16" :> "utf-16le"
            @@ "unicodefeff" :> "utf-16le" @@ "windows-1252" :> "windows-1252"

\* Encoding::for_bom: <<encoding>>, or <<>>.
ForBom(bytes) ==
  LET marked == {e \in DOMAIN Bom : IsPrefix(Bom[e], bytes)}
  IN IF marked = {} THEN <<>> ELSE <<CHOOSE e \in marked : TRUE>>

\* encoding_rs: <<code point, bytes taken>> at i.  The bytes 128 to 159
\* of windows-1252, which it remaps, and four-byte sequences are left out.
UnitAt(bytes, i, encoding) ==
  LET trail(k) == i + k \in DOMAIN bytes /\ bytes[i + k] \in 128..191
      low(k) == bytes[i + k] % 64
      second == bytes[i + 1]
      \* no shorter sequence spells it, and it is no surrogate
      begins == /\ bytes[i] \in 224..239 /\ trail(1)
                /\ bytes[i] = 224 => second >= 160
                /\ bytes[i] = 237 => second < 160
  IN CASE encoding = "windows-1252" -> <<bytes[i], 1>>
       [] encoding \in UTF16 /\ i = Len(bytes) -> <<MALFORMED, 1>>
       [] encoding = "utf-16le" /\ i < Len(bytes) -> <<bytes[i] + 256 * second, 2>>
       [] encoding = "utf-16be" /\ i < Len(bytes) -> <<256 * bytes[i] + second, 2>>
       [] encoding = "utf-8" ->
            IF bytes[i] < 128 THEN <<bytes[i], 1>>
            ELSE IF bytes[i] \in 194..223 /\ trail(1) THEN <<64 * (bytes[i] - 192) + low(1), 2>>
            ELSE IF begins /\ trail(2) THEN <<4096 * (bytes[i] - 224) + 64 * low(1) + low(2), 3>>
            ELSE <<MALFORMED, IF begins THEN 2 ELSE 1>>

UnitsFrom(bytes, start, encoding) ==
  LET from[i \in start..(Len(bytes) + 1)] ==
        IF i > Len(bytes) THEN <<>>
        ELSE LET unit == UnitAt(bytes, i, encoding) IN <<unit[1]>> \o from[i + unit[2]]
  IN from[start]

\* <<text, whether bytes were malformed>>, with the encoding's own mark removed.
DecodeWithBomRemoval(bytes, encoding) ==
  LET marked == encoding \in DOMAIN Bom /\ IsPrefix(Bom[encoding], bytes)
      units == UnitsFrom(bytes, IF marked THEN Len(Bom[encoding]) + 1 ELSE 1, encoding)
  IN <<ReplaceAll(units, MALFORMED, REPLACEMENT), MALFORMED \in ToSet(units)>>

\* NULs on one side of the units only, and in half of them at least.
SniffBomlessUtf16(bytes) ==
  LET nuls(side) == Cardinality({i \in DOMAIN bytes : bytes[i] = 0 /\ i % 2 = side})
      units == Len(bytes) \div 2
  IN IF Len(bytes) < 4 \/ Len(bytes) % 2 # 0 THEN <<>>
     ELSE IF nuls(0) = 0 /\ nuls(1) # 0 /\ 2 * nuls(1) >= units THEN <<"utf-16be">>
     ELSE IF nuls(1) = 0 /\ nuls(0) # 0 /\ 2 * nuls(0) >= units THEN <<"utf-16le">>
     ELSE <<>>

\* The guess of the chardetng crate.
Guess(bytes) == IF DecodeWithBomRemoval(bytes, "utf-8")[2] THEN "windows-1252" ELSE "utf-8"

DetectEncoding(bytes) ==
  IF ForBom(bytes) # <<>> THEN ForBom(bytes)[1]
  ELSE IF SniffBomlessUtf16(bytes) # <<>> THEN SniffBomlessUtf16(bytes)[1]
  ELSE Guess(bytes)

\* Mutant: a mark at the head overrides the label.
BomOverrides(bytes, label) == IF ForBom(bytes) # <<>> THEN ForBom(bytes)[1] ELSE ForLabel[label]
\* decode_explicit: the encoding the label declares.
Declared(bytes, label) ==
  LET namesNoOrder == ForLabel[label] = "utf-16le" /\ label \notin {"utf-16le", "unicodefeff"}
  IN IF namesNoOrder /\ ForBom(bytes) = <<"utf-16be">> THEN "utf-16be" ELSE ForLabel[label]

CONFIDENCE_HIGH == 95   \* of a hundred

\* `label` is "none" where it is left to be detected.
DecodeToUtf8(bytes, label, minConfidence, strict) ==
  LET encoding == IF label = "none" THEN DetectEncoding(bytes) ELSE Declared(bytes, label)
      decoded == DecodeWithBomRemoval(bytes, encoding)
  IN IF minConfidence \notin 0..100 THEN [kind |-> "out of range"]
     ELSE IF label \notin DOMAIN ForLabel \cup {"none"} THEN [kind |-> "unknown encoding"]
     ELSE IF label = "none" /\ CONFIDENCE_HIGH < minConfidence THEN [kind |-> "confidence too low"]
     ELSE IF strict /\ decoded[2] THEN [kind |-> "lossy"]
     ELSE [kind |-> "text", text |-> decoded[1], errors |-> decoded[2]]
-----------------------------------------------------------------------------
(***************************************************************************)
(* Strings that come from a JVM, in modified UTF-8: every UTF-16 unit is   *)
(* written on its own, and NUL in two bytes.                               *)
(***************************************************************************)
IsHigh(u) == u \in \hD800..\hDBFF
IsLow(u) == u \in \hDC00..\hDFFF
Astral(high, low) == 65536 + 1024 * (high - \hD800) + low - \hDC00

\* char::decode_utf16: a surrogate alone is U+FFFD.
DecodeUtf16(units) ==
  LET from[i \in 1..(Len(units) + 1)] ==
        IF i > Len(units) THEN <<>>
        ELSE IF IsHigh(units[i]) /\ i < Len(units) /\ IsLow(units[i + 1])
        THEN <<Astral(units[i], units[i + 1])>> \o from[i + 2]
        ELSE <<IF IsHigh(units[i]) \/ IsLow(units[i]) THEN REPLACEMENT ELSE units[i]>> \o from[i + 1]
  IN from[1]

ModifiedUnits(bytes) ==
  LET cont(k) == k \in DOMAIN bytes /\ bytes[k] \in 128..191
      unit(i) ==
        IF bytes[i] < 128 THEN <<bytes[i], 1>>
        ELSE IF bytes[i] \in 192..223 /\ cont(i + 1) THEN <<64 * (bytes[i] % 32) + (bytes[i + 1] % 64), 2>>
        ELSE IF bytes[i] \in 224..239 /\ cont(i + 1) /\ cont(i + 2)
        THEN <<4096 * (bytes[i] % 16) + 64 * (bytes[i + 1] % 64) + (bytes[i + 2] % 64), 3>>
        ELSE <<REPLACEMENT, 1>>
      from[i \in 1..(Len(bytes) + 1)] ==
        IF i > Len(bytes) THEN <<>> ELSE <<unit(i)[1]>> \o from[i + unit(i)[2]]
  IN from[1]

DecodeMutf8(bytes) ==
  LET text == UnitsFrom(bytes, 1, "utf-8")
  IN IF MALFORMED \notin ToSet(text) THEN text ELSE DecodeUtf16(ModifiedUnits(bytes))

-----------------------------------------------------------------------------
(***************************************************************************)
(* Reverse transliteration: at each place the longest key is taken.        *)
(***************************************************************************)
MAX_KEY_LEN == 4

\* A multigraph in capitals is read by its lower-case key, and capitalized.
Reading(key) ==
  LET small == [i \in DOMAIN key |-> AsciiLowercase[key[i]]]
      capital(c) == IF c \in DOMAIN NativeUppercase THEN NativeUppercase[c] ELSE c
  IN IF key \in DOMAIN ReverseTable THEN <<ReverseTable[key]>>
     ELSE IF Len(key) > 1 /\ ToSet(key) \subseteq AsciiUppercase /\ small \in DOMAIN ReverseTable
       THEN << [i \in DOMAIN ReverseTable[small] |-> capital(ReverseTable[small][i])] >>
     ELSE <<>>

ReverseTransliterate(s) ==
  LET readable(i) == {k \in 1..MAX_KEY_LEN : i + k - 1 <= Len(s) /\ Reading(SubSeq(s, i, i + k - 1)) # <<>>}
      from[i \in 1..(Len(s) + 1)] ==
        IF i > Len(s) THEN <<>>
        ELSE IF readable(i) = {} THEN <<s[i]>> \o from[i + 1]
        ELSE LET k == Max(readable(i)) IN Reading(SubSeq(s, i, i + k - 1))[1] \o from[i + k]
  IN from[1]

-----------------------------------------------------------------------------
(***************************************************************************)
(* File names.  sanitize_filename transliterates the text once and then    *)
(* sanitizes it until a pass changes nothing.  After the transliteration   *)
(* every character is ASCII, one byte each.  A config is a record of the   *)
(* options: separator, maxLength, platform, preserve and lang.             *)
(***************************************************************************)
MAX_PASSES == 8

(***************************************************************************)
(* Before the passes: runs of dots become one, the text is transliterated, *)
(* and a "%" the transliteration made is replaced by the separator.        *)
(***************************************************************************)
CollapseDotSequences(s) ==
  FoldLeft(LAMBDA out, c : IF c = "." /\ out # <<>> /\ Last(out) = "." THEN out
                           ELSE Append(out, c), <<>>, s)

PercentsOf(s) == {i \in DOMAIN s : s[i] = "%"}

\* Transliterated whole while that keeps the count of "%", else between them.
KeepingTypedPercent(s, cf) ==
  LET spell(t) == Transliterate(cf.lang, "ignore", <<>>, t)
      ends == SetToSortSeq(PercentsOf(s) \cup {Len(s) + 1}, <)
      segment(k) == SubSeq(s, IF k = 1 THEN 1 ELSE ends[k - 1] + 1, ends[k] - 1)
      spelt(k) == LET t == spell(segment(k))
                  IN FlattenSeq([i \in DOMAIN t |-> IF t[i] = "%" THEN cf.separator ELSE <<t[i]>>])
  IN IF Cardinality(PercentsOf(spell(s))) = Cardinality(PercentsOf(s)) THEN spell(s)
     ELSE FlattenSeq([k \in DOMAIN ends |-> IF k = 1 THEN spelt(k) ELSE <<"%">> \o spelt(k)])

SanitizeInput(s, cf) == KeepingTypedPercent(CollapseDotSequences(NFC(s)), cf)

ValidSeparator(cf) ==
  \/ cf.separator = <<" ">>
  \/ IsAscii(cf.separator) /\ ToSet(cf.separator) \cap (ControlBlank \cup Illegal[cf.platform] \cup {"/", "\\"}) = {}

-----------------------------------------------------------------------------
(***************************************************************************)
(* The parts of a pass.                                                    *)
(***************************************************************************)
TrimDotsEnd(s) == SubSeq(s, 1, Max({i \in DOMAIN s : s[i] \notin {".", " "}} \cup {0}))
TrimDots(s) == Trimmed(s, {".", " "})

\* No extension is <<>>; one that is there has at least its dot.
SplitsAt(s, cf) ==
  IF cf.preserve THEN Max({i \in DOMAIN s : s[i] = "." /\ i > 1} \cup {0}) ELSE 0
StemOf(s, cf) == IF SplitsAt(s, cf) = 0 THEN s ELSE SubSeq(s, 1, SplitsAt(s, cf) - 1)
ExtensionOf(s, cf) == IF SplitsAt(s, cf) = 0 THEN <<>> ELSE SubSeq(s, SplitsAt(s, cf), Len(s))

RemovedFromName(c, cf) == c \in ControlBlank \/ c \in Illegal[cf.platform]

\* A run of removed characters becomes one separator, never at the start.
Separated(s, cf) ==
  LET step(acc, c) ==
        IF ~RemovedFromName(c, cf) THEN [out |-> Append(acc.out, c), sep |-> FALSE]
        ELSE IF acc.sep THEN acc
        ELSE [out |-> acc.out \o cf.separator, sep |-> cf.separator # <<>>]
  IN FoldLeft(step, [out |-> <<>>, sep |-> TRUE], s).out

TrailingCopies(s, p) ==
  Max({k \in 0..(Len(s) \div Len(p)) :
        \A i \in 1..(k * Len(p)) : s[Len(s) + 1 - i] = p[Len(p) - ((i - 1) % Len(p))]})

\* The first separator of a stem that is nothing else stays.
StripSeparators(s, p) ==
  LET keep == Len(s) - TrailingCopies(s, p) * Len(p)
  IN IF p = <<>> \/ s = <<>> THEN s
     ELSE SubSeq(s, 1, IF keep = 0 THEN Len(p) ELSE keep)

\* Rounds of strips until one removes nothing; a round only shortens.
StripEnds(s, p) ==
  LET round[n \in 0..Len(s)] == IF n = 0 THEN s ELSE TrimDots(StripSeparators(round[n - 1], p))
  IN round[Len(s)]

CleanExtension(e, cf) ==
  IF e = <<>> THEN <<>> ELSE <<".">> \o SelectSeq(Tail(e), LAMBDA c : ~RemovedFromName(c, cf))

ApplyMaxLength(s, ext, cf) ==
  IF cf.maxLength = 0 \/ Len(s) <= cf.maxLength THEN s
  ELSE IF cf.preserve /\ ext # <<>> /\ Len(ext) < cf.maxLength
       THEN SubSeq(s, 1, cf.maxLength - Len(ext)) \o ext
       ELSE SubSeq(s, 1, cf.maxLength)

FinalizeName(s) == IF TrimDots(s) = <<>> THEN <<"_">> ELSE TrimDots(s)

ChecksReserved(cf) == cf.platform # "posix"
IsWindowsReserved(stem) == Lowercase(stem) \in WINDOWS_RESERVED

\* What Windows matches against the device list: up to the first dot, no spaces at the end.
WindowsDeviceStem(s) ==
  LET stem == SubSeq(s, 1, Min({i \in DOMAIN s : s[i] = "."} \cup {Len(s) + 1}) - 1)
  IN SubSeq(stem, 1, Max({i \in DOMAIN stem : stem[i] # " "} \cup {0}))

Prefixed(s, isDevice, cf) == IF ChecksReserved(cf) /\ isDevice THEN <<"_">> \o s ELSE s

\* Mutant: the second cut forgets the extension, as both once did.
ReservedAgainPlainCut(s, ext, cf) ==
  IF ~ChecksReserved(cf) \/ ~IsWindowsReserved(WindowsDeviceStem(s)) THEN s
  ELSE FinalizeName(ApplyMaxLength(<<"_">> \o s, <<>>, cf))

\* The name as it would be returned is a device: prefix, cut and trim it again.
ReservedAgain(s, ext, cf) ==
  LET prefixed == <<"_">> \o s
      kept == IF Len(ext) > 1 /\ IsSuffix(ext, prefixed) THEN ext ELSE <<>>
  IN IF ~ChecksReserved(cf) \/ ~IsWindowsReserved(WindowsDeviceStem(s)) THEN s
     ELSE FinalizeName(ApplyMaxLength(prefixed, kept, cf))

SanitizePass(s, cf) ==
  LET whole == TrimDotsEnd(CollapseDotSequences(s))
      stem == StripEnds(Separated(StemOf(whole, cf), cf), cf.separator)
      ext == CleanExtension(ExtensionOf(whole, cf), cf)
      named == Prefixed(stem, IsWindowsReserved(stem), cf) \o ext
  IN ReservedAgain(FinalizeName(ApplyMaxLength(named, ext, cf)), ext, cf)

SanitizeWithin(n, s, cf) ==
  Iterate(LAMBDA t : SanitizePass(t, cf), n - 1, SanitizePass(SanitizeInput(s, cf), cf))

\* A separator that is not a file name's is refused: <<>> for that, <<name>> else.
SanitizeFilename(s, cf) == IF ValidSeparator(cf) THEN <<SanitizeWithin(MAX_PASSES, s, cf)>> ELSE <<>>
=============================================================================
