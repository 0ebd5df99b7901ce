------------------------------ MODULE TextCalls -----------------------------
(***************************************************************************)
(* Calls of the text functions.  A call is [op, text, option]; what most   *)
(* of them return is an operator of their arguments and of nothing else,   *)
(* and their properties say what it is when the call returns.  The calls   *)
(* that transliterate in context have a state: what they have read of the  *)
(* dictionary files stays for the life of the process, while the files may *)
(* be replaced between calls.                                              *)
(***************************************************************************)
EXTENDS Slugify, ContextDictionary, Anomalies, TextUtilities

CONSTANTS
  Calls,        \* sets of calls made once, with the files below
  Files,
  FileCalls,    \* the calls in context made one after the other
  Disks         \* what the files may be while they are made

ASSUME TextCallsAssumption == {"arabic", "persian", "hebrew"} \subseteq DOMAIN Files

VARIABLES
  call,
  returned, \* has the call returned?
  disk,     \* name of a dictionary to its files
  loaded,   \* name of a dictionary to <<what was read>>, <<>> until it is
  given     \* every call in context with its answer

vars == <<call, returned, disk, loaded, given>>

Init ==
  /\ \/ (\E calls \in Calls : call \in calls) /\ disk = Files
     \/ call \in FileCalls /\ disk \in Disks
  /\ returned = FALSE /\ given = {}
  /\ loaded = [name \in DOMAIN Files |-> <<>>]

-----------------------------------------------------------------------------
\* A call that looks at its arguments alone.
Return ==
  /\ call.op # "context" /\ ~returned
  /\ returned' = TRUE
  /\ UNCHANGED <<call, disk, loaded, given>>

ReadInContext ==
  /\ call.op = "context" /\ ~returned
  /\ returned' = TRUE
  /\ loaded' = LoadFor(loaded, disk, LangOf(call.option.lang, call.text))
  /\ given' = given \cup {<<call, TransliterateContext(call.text, call.option, loaded')>>}
  /\ UNCHANGED <<call, disk>>

\* The caller's next call in context.
AskAgain ==
  /\ call \in FileCalls /\ returned
  /\ call' \in FileCalls
  /\ returned' = FALSE
  /\ UNCHANGED <<disk, loaded, given>>

\* Another process installs, replaces or removes dictionaries.
FilesChange ==
  /\ call \in FileCalls
  /\ disk' \in Disks \ {disk}
  /\ UNCHANGED <<call, returned, loaded, given>>

Next == Return \/ ReadInContext \/ AskAgain \/ FilesChange

Spec == Init /\ [][Next]_vars

\* The step in which a call of op returns.
Returns(op) == call.op = op /\ ~returned /\ returned'

\* The other ways to spell a text.
Forms(s) == {NFC(s), NFD(s)} \ {s}

\* Composition puts no character of the text in another's place.
KeepsCharacters(s) == \A c \in ToSet(s) : ~NfcReplaces(c)

-----------------------------------------------------------------------------
(***************************************************************************)
(* Names: slugs and file names.                                            *)
(***************************************************************************)
\* Nothing is taken out of the text but what the filter takes.
IsPlain(cf) == cf.replacements = <<>> /\ cf.removed = {} /\ cf.stopwords = {} /\ ~cf.entities

SlugStands(text, cf) ==
  LET slug == Slug(text, cf)
      uncut == IF cf.maxLength = 0 THEN slug ELSE Slug(text, [cf EXCEPT !.maxLength = 0])
      words == Words(uncut, cf.separator)
      run(n) == Joined(SubSeq(words, 1, n), cf.separator)
      fitting == {n \in DOMAIN words : Size(run(n)) <= cf.maxLength}
  IN /\ cf.maxLength # 0 =>
          /\ Size(slug) <= cf.maxLength
          /\ cf.wordBoundary /\ cf.separator # <<>> /\ fitting # {} => slug = run(Max(fitting))
          /\ cf.allowUnicode /\ IsPrefix(slug, uncut) =>
               \E n \in Len(slug)..Len(uncut) :
                 IsClusterBoundary(uncut, n) /\ slug = TrimCutTail(SubSeq(uncut, 1, n), cf)
     /\ IsPlain(cf) => Slug(slug, cf) = slug
     /\ cf.replacements = <<>> /\ cf.removed = {} /\ KeepsCharacters(text) =>
          \A t \in Forms(text) : Slug(t, cf) = slug

IsName(s, cf) ==
  /\ s # <<>> /\ {s[1], Last(s)} \cap {".", " "} = {}
  /\ ChecksReserved(cf) => ~IsWindowsReserved(WindowsDeviceStem(s))
  /\ cf.maxLength # 0 => Len(s) <= cf.maxLength
  /\ \A c \in ToSet(s) : RemovedFromName(c, cf) => c \in ToSet(cf.separator)

FileNameStands(text, cf) ==
  LET answer == SanitizeFilename(text, cf)
      name == answer[1]
      input == SanitizeInput(text, cf)
      pass(t) == SanitizePass(t, cf)
      whole == TrimDotsEnd(CollapseDotSequences(input))
      stem == StripEnds(Separated(StemOf(whole, cf), cf), cf.separator)
      ext == CleanExtension(ExtensionOf(whole, cf), cf)
  IN answer # <<>> =>
     /\ SanitizeFilename(name, cf) = <<name>>
     /\ IsName(name, cf) /\ IsName(pass(input), cf) /\ IsName(pass(pass(input)), cf)
     /\ stem # <<>> /\ Len(ext) > 1 /\ (cf.maxLength # 0 => Len(ext) < cf.maxLength) => IsSuffix(ext, name)
     /\ "%" \notin ToSet(cf.separator) => Cardinality(PercentsOf(name)) <= Cardinality(PercentsOf(text))

\* A name made of a text keeps its limit and names itself.  A slug: how the text
\* is spelled, precomposed or not, is no part of it; with word_boundary it is the
\* longest run of whole words that fits, if one does, and with allow_unicode no
\* cluster is cut.  A file name: the passes leave a name the platform takes, an
\* extension that fits stays on, and no "%" is made (sanitize_filename's doc).
NamesStand ==
  [][/\ Returns("slugify") => SlugStands(call.text, call.option)
     /\ Returns("sanitize_filename") => FileNameStands(call.text, call.option)]_vars

-----------------------------------------------------------------------------
(***************************************************************************)
(* Context.                                                                *)
(***************************************************************************)
\* A call in context has one answer in the life of a process, whatever becomes of
\* the files.
ContextKept == \A g \in given, h \in given : g[1] = h[1] => g[2] = h[2]

-----------------------------------------------------------------------------
(***************************************************************************)
(* Spelling.                                                               *)
(***************************************************************************)
\* Every key the caller reduces to gets the values that have it, and no other;
\* a value given twice does not collide with itself.
KeysFound(values, form, groups) ==
  /\ \A g \in ToSet(groups) : \E i, j \in ToSet(g.indices) : values[i] # values[j]
  /\ \A i, j \in DOMAIN values :
    values[i] # values[j] =>
      (Reduce(values[i], form) = Reduce(values[j], form)
       <=> \E g \in ToSet(groups) : {i, j} \subseteq ToSet(g.indices))

\* A romanized text in capitals is read as the capitals of what it reads as.
CapitalsRead(s, read) ==
  LET capital(c) == CHOOSE C \in AsciiUppercase : AsciiLowercase[C] = c
      native(c) == IF c \in DOMAIN NativeUppercase THEN NativeUppercase[c] ELSE c
  IN ReverseTransliterate([i \in DOMAIN s |-> capital(s[i])]) = [i \in DOMAIN read |-> native(read[i])]

\* Values are grouped by the key they reduce to, and letters read back whatever
\* their case; how a text is spelled, precomposed or not, is no part of whether
\* it is confusable (a character that composition replaces is), of its columns,
\* where ambiguous ones are narrow, or of how its punctuation is folded.
SpellingIgnored ==
  [][/\ Returns("confusables") /\ KeepsCharacters(call.text) =>
          \A t \in Forms(call.text) : IsConfusable(t) = IsConfusable(call.text)
     /\ Returns("collisions") =>
          \A groups \in ToSet(FindKeyCollisions(call.text, call.option)) : KeysFound(call.text, call.option, groups)
     /\ Returns("reverse") => CapitalsRead(call.text, ReverseTransliterate(call.text))
     /\ Returns("width") /\ ~call.option.ambiguousWide =>
          \A t \in Forms(call.text) : TerminalWidth(t, FALSE) = TerminalWidth(call.text, FALSE)
     /\ Returns("punctuation") =>
          \A t \in Forms(call.text) : NFC(FoldPunctuation(t)) = NFC(FoldPunctuation(call.text))]_vars

-----------------------------------------------------------------------------
(***************************************************************************)
(* Detection.                                                              *)
(***************************************************************************)
\* A host's `canonical` has nothing hidden left, is its own (but for capitals,
\* which stay in a host IDNA refuses), and is that of the host as it is seen or
\* spelled another way; a host nothing is held against has one like it.
HostCanonical ==
  [][Returns("hostname") /\ ~IsIpv6Literal(NFKC(call.text)) =>
    LET answer == AnalyzeHostname(call.text, call.option)
        shown == answer.canonical
        again == AnalyzeHostname(shown, call.option)
    IN /\ \A c \in ToSet(shown) : ~IsInvisibleInHostname(c) /\ ~In(c, {"bidi"})
       /\ Lowercase(again.canonical) = Lowercase(shown)
       /\ ~answer.suspicious => ~again.suspicious
       /\ \A t \in (Forms(call.text) \cup {Visible(call.text)}) \ {call.text} :
            AnalyzeHostname(t, call.option).canonical = shown]_vars

\* The writing systems of UTS #39 that hold more than one script.
WritingSystems == {{"Han", "Hiragana", "Katakana"}, {"Han", "Hangul"}, {"Han", "Bopomofo"}}

\* A text is mixed when no writing system holds its scripts, and
\* inspect_auto_lang names the language transliteration reads the text in.
OneWritingSystem ==
  [][Returns("scripts") =>
    LET scripts == ToSet(DetectScripts(call.text))
    IN /\ IsMixedScript(call.text) <=>
            Cardinality(scripts) > 1 /\ \A system \in WritingSystems : ~(scripts \subseteq system)
       /\ InspectAutoLang(call.text).lang = AutoLang(call.text)]_vars

-----------------------------------------------------------------------------
(***************************************************************************)
(* Hidden payloads.  A sender hides bytes in the carriers of a scheme;     *)
(* "letters" are sneaky bits without padding, six or seven to a letter,    *)
(* and a space of them is a gap.                                           *)
(***************************************************************************)
Carrier(map, value) == CHOOSE c \in DOMAIN map : map[c] = value
Bits(value, width) == [i \in 1..width |-> (value \div 2^(width - i)) % 2]
AsBits(map, value, width) == LET bits == Bits(value, width) IN [i \in 1..width |-> Carrier(map, bits[i])]

Hide(framing, bytes) ==
  LET each(P(_)) == FlattenSeq([k \in DOMAIN bytes |-> P(bytes[k])])
      hex(b) == <<PercentSign, Carrier(HexValue, b \div 16), Carrier(HexValue, b % 16)>>
      letter(b) == IF b = 32 THEN <<Gap>> ELSE AsBits(SneakyBit, b, IF b < 64 THEN 6 ELSE 7)
  IN CASE framing = "tags" -> each(LAMBDA b : <<Carrier(TagByte, b)>>)
       [] framing = "selectors" -> each(LAMBDA b : <<Carrier(VariationByte, b)>>)
       [] framing = "percent" -> each(hex)
       [] framing = "bytes" -> each(LAMBDA b : AsBits(SneakyBit, b, 8))
       [] framing = "letters" -> each(letter)
       [] framing = "zero width" -> each(LAMBDA b : AsBits(ZeroWidthBit, b, 8))

\* All the ways to cut a run of bits into letters.
Cuts(bits) ==
  LET from[at \in 1..(Len(bits) + 1)] ==
        IF at > Len(bits) THEN {<<>>}
        ELSE UNION {{<<Value(SubSeq(bits, at, at + n - 1))>> \o rest : rest \in from[at + n]}
                    : n \in {m \in {6, 7} : Letter(bits, at, m)}}
  IN from[1]

LetterBits(word) == FlattenSeq([k \in DOMAIN word |-> Bits(word[k], IF word[k] < 64 THEN 6 ELSE 7)])

\* The texts a payload of letters may be: a word is cut on its own.
WaysToRead(bytes) ==
  LET join(texts, word) == {IF t = <<>> THEN c ELSE t \o <<32>> \o c : t \in texts, c \in Cuts(LetterBits(word))}
  IN FoldLeft(join, {<<>>}, Split(bytes, {32}))

\* One word whose bits are whole bytes is read in bytes if those show.
IsPadded(bytes) ==
  LET bits == LetterBits(bytes)
  IN 32 \notin ToSet(bytes) /\ Len(bits) % 8 = 0 /\ Printable(PackBits(bits))

\* A payload that shows is the bytes that were sent, and is given as text when
\* it can be read in one way only: letters that can be cut otherwise are no
\* text, and stray bits before or behind never make another text of it.
PayloadDecoded ==
  [][Returns("smuggled") =>
    LET sent == call.option.bytes
        framing == call.option.framing
        found == DecodeSmuggled(call.text)
        decoded(text) == Len(found) = 1 /\ found[1].bytes = sent /\ TextOf(found[1]) = text
    IN /\ framing \in {"tags", "selectors", "percent"} /\ Printable(sent) => decoded(<<sent>>)
       /\ framing = "percent" /\ ~Printable(sent) => decoded(<<>>)
       /\ framing = "bytes" /\ Printable(sent) /\ Len(Spelled(sent)[1]) >= MIN_SNEAKY_CHARS => decoded(<<sent>>)
       /\ framing = "letters" /\ ~IsPadded(sent) =>
            /\ Len(found) = 1
            /\ TextOf(found[1]) = IF WaysToRead(sent) = {sent} THEN <<sent>> ELSE <<>>
       /\ framing = "zero width" /\ Printable(sent) =>
            Len(found) = 1 /\ sent \in ToSet(found[1].readings) /\ TextOf(found[1]) \in {<<>>, <<sent>>}]_vars

-----------------------------------------------------------------------------
(***************************************************************************)
(* Pieces.                                                                 *)
(***************************************************************************)
\* A text cut at the boundaries of its form, walked in the runs that hold its
\* marks, or measured in clusters is what it is as a whole: every segment is
\* normalized and every mark counted as in the whole, a prepend hides no
\* column of what it stands before, a selector gives none to what is no emoji,
\* what a cut keeps and what it leaves have the columns of the text, and what
\* comes behind the end of a sentence is read as if it stood alone.
PiecesSuffice ==
  [][/\ Returns("normalize") =>
          LET s == call.text
              form == call.option.form
              cap == call.option.cap
          IN /\ Normalize(s, form) = Normal(form, s)
             /\ IsNormalized(s, form) <=> Normal(form, s) = s
             /\ IsZalgo(s, cap) <=> Exceeds(cap, s)
             /\ NFC(CappedByRuns(cap, s)) = Zalgo(cap, s)
     /\ Returns("width") =>
          LET s == call.text
              columns(t) == TerminalWidth(t, call.option.ambiguousWide)
              cut == TruncateToGraphemes(s, call.option.max)
              left == SubSeq(s, Len(cut) + 1, Len(s))
          IN /\ \A c \in ZeroWidthPrepends : columns(<<c>> \o s) = columns(s)
             /\ ToSet(s) \cap EmojiYes = {} => columns(Append(s, EmojiStyle)) = columns(s)
             /\ cut \o left = s /\ columns(cut) + columns(left) = columns(s)
     /\ Returns("context") =>
          LET tokens == Tokens(call.text)
              how == [call.option EXCEPT !.lang = LangOf(@, call.text)]
              answer(s) == TransliterateContext(s, how, loaded')
              read(part) == answer(FlattenSeq([k \in DOMAIN part |-> part[k].text])).text
          IN answer(call.text).kind = "text" =>
               \A k \in DOMAIN tokens :
                 ~tokens[k].isWord /\ HardBoundaries \cap ToSet(tokens[k].text) # {} =>
                   answer(call.text).text
                     = read(SubSeq(tokens, 1, k)) \o read(SubSeq(tokens, k + 1, Len(tokens)))]_vars

-----------------------------------------------------------------------------
(***************************************************************************)
(* What is encoded comes back.                                             *)
(***************************************************************************)
Encoded(encoding, text) ==
  LET unit(cp) ==
        CASE encoding = "windows-1252" -> <<cp>>
          [] encoding = "utf-16le" -> <<cp % 256, cp \div 256>>
          [] encoding = "utf-16be" -> <<cp \div 256, cp % 256>>
          [] encoding = "utf-8" ->
               IF cp < 128 THEN <<cp>>
               ELSE IF cp < 2048 THEN <<192 + (cp \div 64), 128 + (cp % 64)>>
               ELSE <<224 + (cp \div 4096), 128 + ((cp \div 64) % 64), 128 + (cp % 64)>>
  IN FlattenSeq([i \in DOMAIN text |-> unit(text[i])])

\* How a JVM hands a string of UTF-16 units over; the call keeps the units.
ModifiedUtf8(units) ==
  FlattenSeq([i \in DOMAIN units |-> IF units[i] = 0 THEN <<192, 128>> ELSE Encoded("utf-8", <<units[i]>>)])

\* The string with what is half of a character replaced.
WholeUnits(units) ==
  LET paired(i) ==
        \/ IsHigh(units[i]) /\ i < Len(units) /\ IsLow(units[i + 1])
        \/ IsLow(units[i]) /\ i > 1 /\ IsHigh(units[i - 1])
  IN [i \in DOMAIN units |->
       IF (IsHigh(units[i]) \/ IsLow(units[i])) /\ ~paired(i) THEN REPLACEMENT ELSE units[i]]

Utf16(text) ==
  FlattenSeq([i \in DOMAIN text |->
    IF text[i] < 65536 THEN <<text[i]>>
    ELSE <<\hD800 + ((text[i] - 65536) \div 1024), \hDC00 + ((text[i] - 65536) % 1024)>>])

\* Is it known from the label, or else from the mark or the pattern, in which
\* encoding the bytes were sent?
IsDeclared(label, sent) ==
  \/ label \in DOMAIN ForLabel /\ ForLabel[label] = sent.encoding
  \/ label = "utf-16" /\ sent.encoding = "utf-16be" /\ sent.marked
  \/ label = "none" /\ sent.marked
  \/ label = "none" /\ sent.encoding \in UTF16 /\ Len(sent.text) > 1 /\ ToSet(sent.text) \subseteq 1..127

\* How a browser and a URL parser read the encoders' answers.
Unescaped(s) ==
  LET keys(i) == {c \in DOMAIN HtmlEscape : IsAt(HtmlEscape[c], s, i)}
      from[i \in 1..(Len(s) + 1)] ==
        IF i > Len(s) THEN <<>>
        ELSE IF keys(i) = {} THEN <<s[i]>> \o from[i + 1]
        ELSE LET c == CHOOSE k \in keys(i) : TRUE IN <<c>> \o from[i + Len(HtmlEscape[c])]
  IN from[1]

PercentDecoded(s, component) ==
  LET digit(b) == IF b < 58 THEN b - 48 ELSE b - 55
      from[i \in 1..(Len(s) + 1)] ==
        IF i > Len(s) THEN <<>>
        ELSE IF s[i] = 37 THEN <<16 * digit(s[i + 1]) + digit(s[i + 2])>> \o from[i + 3]
        ELSE <<IF s[i] = 43 /\ component = "form" THEN 32 ELSE s[i]>> \o from[i + 1]
  IN from[1]

\* The delimiters a component stands between: "/" "?" "#", and "&" "=".
Delimiters(component) ==
  CASE component = "path" -> {63, 35} [] component = "segment" -> {47, 63, 35}
    [] component \in {"query", "form"} -> {47, 63, 35, 38, 61}

\* Bytes whose encoding is declared are read in that encoding and in no other:
\* their text comes back, and what a Unicode label accepts without an error is
\* its own encoding again, never another mark's; detection and decoding agree.
\* A text put into HTML or a URL is read there as the text it was, with nothing
\* of it taken for a delimiter, a log line that was cleaned has nothing left to
\* clean, and a Java string is read as its characters, each half of one alone as
\* one U+FFFD.
RoundTrips ==
  [][LET s == call.text
         o == call.option
     IN
     /\ Returns("decode") =>
          LET as(label) == DecodeToUtf8(s, label, o.minConfidence, o.strict)
              read == as(o.label)
          IN /\ read.kind \in {"text", "lossy"} => \A sent \in o.sent :
                  IsDeclared(o.label, sent) => read.kind = "text" /\ read.text = sent.text /\ ~read.errors
             /\ read.kind = "text" /\ o.label \in DOMAIN Bom /\ ~read.errors =>
                  s \in {Encoded(o.label, read.text), Bom[o.label] \o Encoded(o.label, read.text)}
             /\ read.kind = "text" /\ o.label = "none" => read = as(DetectEncoding(s))
     /\ Returns("html") =>
          LET escaped == EscapeHtml(s)
          IN Unescaped(escaped) = s /\ ToSet(escaped) \cap {"<", ">", "\"", "'"} = {}
     /\ Returns("percent") =>
          LET encoded == PercentEncode(s, o)
          IN PercentDecoded(encoded, o) = s /\ ToSet(encoded) \cap Delimiters(o) = {}
     /\ Returns("java") => Utf16(DecodeMutf8(s)) = WholeUnits(o)
     /\ Returns("log") =>
          \A line \in ToSet(StripLogInjection(s, o.replacement, o.keepTab)) :
            /\ \A c \in ToSet(line) : ~BreaksLog(c, o.keepTab)
            /\ StripLogInjection(line, o.replacement, o.keepTab) = <<line>>]_vars

-----------------------------------------------------------------------------
(***************************************************************************)
(* Anomalies.                                                              *)
(***************************************************************************)
AtEdges == {c \in Chars : In(c, {"space", "break", "zerowidth", "format"})}
Anywhere == {c \in Chars : In(c, {"bidi", "selector", "cgj", "pua"})} \cup {SoftHyphen}
Drawn(s) == SelectSeq(Trimmed(s, AtEdges \cup Anywhere), LAMBDA c : c \notin Anywhere)
Kinds(findings) == {f.kind : f \in findings}

\* The hidden bytes read as text, alone or beside another reading.
Reads(framing, bytes) ==
  CASE framing = "bytes" -> Printable(bytes) /\ Len(Spelled(bytes)[1]) >= MIN_SNEAKY_CHARS
    [] framing = "letters" -> ~IsPadded(bytes)
    [] OTHER -> Printable(bytes)

\* has_anomalies says whether inspect_anomalies finds something, a finding is a
\* part of the text, how the text is spelled changes no kind of finding, and a
\* text whose canonical form is a word of the lexicon does not pass unseen, but
\* for what it may hold at the edges or anywhere.  A message hidden in carriers
\* is told of wherever they start, however else they may be read, and percent
\* escapes, which any URL has, are not.
SignsSeen ==
  [][Returns("anomalies") =>
    LET s == call.text
        found == InspectAnomalies(s)
    IN /\ HasAnomalies(s) <=> found # {}
       /\ \A f \in found : 1 <= f.from /\ f.from <= f.to /\ f.to <= Len(s)
       /\ KeepsCharacters(s) => \A t \in Forms(s) : Kinds(InspectAnomalies(t)) = Kinds(found)
       /\ Canonicalized(s) \in Lexicon /\ Lowercase(Drawn(s)) \notin Lexicon => found # {}
       /\ \A hidden \in call.option :
            IF hidden.framing = "percent" THEN "smuggled" \notin Kinds(found)
            ELSE Reads(hidden.framing, hidden.bytes) => "smuggled" \in Kinds(found)]_vars

=============================================================================
