------------------------------ MODULE MCPresets -----------------------------
(***************************************************************************)
(* Characters with their Unicode data and the rows of the bundled tables:  *)
(* at least one of every class a step tells apart, closed under            *)
(* composition, folding and decomposition.  The one subdivision flag is    *)
(* shorter than the three real ones.                                       *)
(***************************************************************************)
EXTENDS Presets

\* A function as a table: TLC works it out once.
Table(f) == [k \in DOMAIN f |-> f[k]]

Ascii == {"nul", "bs", "tab", "lf", "space", "quote", "prime", "slash", "0", "1", "2",
          "eq", "C", "I", "O", "A", "a", "c", "e", "f", "g", "i", "l", "o", "w", "bar", "break"}
Letters == {"Ccedilla", "Iacute", "Idiaeresis", "Oacute", "Odiaeresis", "aacute", "adiaeresis",
            "ccedilla", "iacute", "idiaeresis", "oacute", "odiaeresis", "Cacute", "cacute",
            "lacute", "lcedilla", "iotadialytikatonos", "iotatonos", "iota", "iotadialytika",
            "cya", "cyadiaeresis", "Ccedillaacute", "ccedillaacute", "Idiaeresisacute",
            "idiaeresisacute", "wacute", "wdiaeresis", "VY", "vy", "fi", "half", "devzero",
            "L", "V", "LV",
            "Cdot", "Idot", "Odot", "adot", "cdot", "fdot", "gdot", "odot", "wdot",
            "gacute", "gcedilla", "eacute", "ediaeresis", "edot", "ecedilla",
            "smallcapI", "click", "mtavruli", "mkhedruli", "mongolian"}
MCMarks == {"acute", "diaeresis", "dot", "cedilla", "overlay", "cgj", "cymark", "keycap", "vs15", "vs16", "fvs1"}
Others == {"nbsp", "shy", "zwsp", "rlo", "fracslash", "divides", "notdivides", "neq", "heart",
           "braille", "pua", "nonchar", "flag", "tag", "tagg", "canceltag", "fire", "zwj"}
MCChars == Ascii \cup Letters \cup MCMarks \cup Others

MCCcc == [c \in MCChars |->
  CASE c \in {"acute", "diaeresis", "dot"} -> 230 [] c = "cedilla" -> 202
    [] c = "overlay" -> 1 [] OTHER -> 0]

MCComposite == Table(
  <<"eq", "overlay">> :> "neq" @@ <<"divides", "overlay">> :> "notdivides"
  @@ <<"C", "acute">> :> "Cacute" @@ <<"C", "cedilla">> :> "Ccedilla"
  @@ <<"c", "acute">> :> "cacute" @@ <<"c", "cedilla">> :> "ccedilla"
  @@ <<"Ccedilla", "acute">> :> "Ccedillaacute" @@ <<"ccedilla", "acute">> :> "ccedillaacute"
  @@ <<"I", "acute">> :> "Iacute" @@ <<"I", "diaeresis">> :> "Idiaeresis"
  @@ <<"i", "acute">> :> "iacute" @@ <<"i", "diaeresis">> :> "idiaeresis"
  @@ <<"Idiaeresis", "acute">> :> "Idiaeresisacute" @@ <<"idiaeresis", "acute">> :> "idiaeresisacute"
  @@ <<"O", "acute">> :> "Oacute" @@ <<"O", "diaeresis">> :> "Odiaeresis"
  @@ <<"o", "acute">> :> "oacute" @@ <<"o", "diaeresis">> :> "odiaeresis"
  @@ <<"a", "acute">> :> "aacute" @@ <<"a", "diaeresis">> :> "adiaeresis"
  @@ <<"l", "acute">> :> "lacute" @@ <<"l", "cedilla">> :> "lcedilla"
  @@ <<"w", "acute">> :> "wacute" @@ <<"w", "diaeresis">> :> "wdiaeresis"
  @@ <<"iota", "acute">> :> "iotatonos" @@ <<"iota", "diaeresis">> :> "iotadialytika"
  @@ <<"iotadialytika", "acute">> :> "iotadialytikatonos"
  @@ <<"C", "dot">> :> "Cdot" @@ <<"c", "dot">> :> "cdot" @@ <<"I", "dot">> :> "Idot"
  @@ <<"O", "dot">> :> "Odot" @@ <<"o", "dot">> :> "odot" @@ <<"a", "dot">> :> "adot"
  @@ <<"f", "dot">> :> "fdot" @@ <<"g", "dot">> :> "gdot" @@ <<"w", "dot">> :> "wdot"
  @@ <<"g", "acute">> :> "gacute" @@ <<"g", "cedilla">> :> "gcedilla"
  @@ <<"e", "acute">> :> "eacute" @@ <<"e", "diaeresis">> :> "ediaeresis"
  @@ <<"e", "dot">> :> "edot" @@ <<"e", "cedilla">> :> "ecedilla"
  @@ <<"cya", "diaeresis">> :> "cyadiaeresis" @@ <<"L", "V">> :> "LV")

\* Every canonical decomposition here is that of a composite.
MCCanonical ==
  LET pair(c) == CHOOSE p \in DOMAIN MCComposite : MCComposite[p] = c
      composites == {MCComposite[p] : p \in DOMAIN MCComposite}
      full[c \in MCChars] ==
        IF c \in composites THEN Append(full[pair(c)[1]], pair(c)[2]) ELSE <<c>>
  IN full
MCCompatible == [MCCanonical EXCEPT !["nbsp"] = <<"space">>, !["half"] = <<"1", "fracslash", "2">>,
                                    !["fi"] = <<"f", "i">>]
MCExcluded == <<>>
MCHangulL == {"L"}
MCHangulV == {"V"}
MCHangulT == {}
MCBackward == {}

MCRows == Table(
  "quote" :> <<"prime", "prime">> @@ "bar" :> <<"l">> @@ "Ccedilla" :> <<"C">>
  @@ "ccedilla" :> <<"c">> @@ "iota" :> <<"i">> @@ "iotatonos" :> <<"i">>
  @@ "iotadialytika" :> <<"i">> @@ "cya" :> <<"a">> @@ "devzero" :> <<"0">>
  @@ "fracslash" :> <<"slash">> @@ "divides" :> <<"l">> @@ "vy" :> <<"w">> @@ "fi" :> <<"f", "i">>
  @@ "smallcapI" :> <<"i">> @@ "cdot" :> <<"cacute">> @@ "gcedilla" :> <<"gdot">>)
MCTr39Rows == Table("devzero" :> <<"o">>)
MCAsciiDigits == {"0", "1", "2"}

MCCaseFold == Table(
  "A" :> <<"a">> @@ "mtavruli" :> <<"mkhedruli">> @@ "C" :> <<"c">> @@ "I" :> <<"i">> @@ "O" :> <<"o">> @@ "Ccedilla" :> <<"ccedilla">>
  @@ "Cacute" :> <<"cacute">> @@ "Ccedillaacute" :> <<"ccedillaacute">>
  @@ "Iacute" :> <<"iacute">> @@ "Idiaeresis" :> <<"idiaeresis">>
  @@ "Idiaeresisacute" :> <<"idiaeresisacute">> @@ "Oacute" :> <<"oacute">>
  @@ "Odiaeresis" :> <<"odiaeresis">> @@ "VY" :> <<"vy">> @@ "fi" :> <<"f", "i">>
  @@ "Cdot" :> <<"cdot">> @@ "Idot" :> <<"i", "dot">> @@ "Odot" :> <<"odot">>
  @@ "iotadialytikatonos" :> <<"iota", "diaeresis", "acute">>)
MCPrototype == Table("I" :> "l" @@ "1" :> "l" @@ "0" :> "O")

MCAlphanumeric == (Letters \cup Ascii) \ {"break", "nul", "bs", "tab", "lf", "space", "quote",
                                          "prime", "slash", "eq", "bar"}

\* The code points of the characters some step tells by them.
MCCodePoint == Table(
  "nul" :> 0 @@ "bs" :> 8 @@ "tab" :> 9 @@ "lf" :> 10 @@ "space" :> 32 @@ "0" :> 48 @@ "1" :> 49 @@ "2" :> 50
  @@ "I" :> 73 @@ "nbsp" :> \hA0 @@ "shy" :> \hAD @@ "overlay" :> \h338 @@ "cgj" :> \h34F @@ "LV" :> \hAC00
  @@ "fvs1" :> \h180B @@ "mongolian" :> \h1820 @@ "zwsp" :> \h200B @@ "zwj" :> \h200D @@ "rlo" :> \h202E @@ "keycap" :> \h20E3 @@ "braille" :> \h2800
  @@ "pua" :> \hE000 @@ "nonchar" :> \hFDD0 @@ "vs15" :> \hFE0E @@ "vs16" :> \hFE0F @@ "flag" :> \h1F3F4
  @@ "tag" :> \hE0001 @@ "tagg" :> \hE0067 @@ "canceltag" :> \hE007F)
MCClass == [c \in MCChars |-> IF c \in DOMAIN MCCodePoint THEN KindsOf(MCCodePoint[c]) ELSE {}]

MCScript == [c \in MCChars |->
  CASE c \in {"cya", "cyadiaeresis", "cymark"} -> "Cyrillic"
    [] c \in {"iota", "iotatonos", "iotadialytika", "iotadialytikatonos"} -> "Greek"
    [] c \in {"L", "V", "LV"} -> "Hangul" [] c = "devzero" -> "Devanagari"
    [] c \in {"mtavruli", "mkhedruli"} -> "Georgian"
    [] c \in {"mongolian", "fvs1"} -> "Mongolian"
    [] c \in MCMarks \ {"cymark", "fvs1"} -> "Inherited"
    [] c \in MCAlphanumeric /\ c \notin {"0", "1", "2", "half"} -> "Latin"
    [] OTHER -> "Common"]

MCRegistered == {<<"heart", "vs16">>}
MCFlags == {<<"tagg", "canceltag">>}

MCBytes == [c \in MCChars |->
  CASE c \in Ascii -> 1
    [] c \in {"flag", "tag", "tagg", "canceltag", "fire"} -> 4
    [] c \in (Others \ {"nbsp", "shy"}) \cup {"keycap", "vs15", "vs16", "fvs1", "mongolian", "mtavruli", "mkhedruli", "VY", "vy", "fi", "devzero", "L", "V",
               "LV", "Ccedillaacute", "ccedillaacute", "Idiaeresisacute", "idiaeresisacute",
               "wacute", "wdiaeresis", "fdot", "wdot"} -> 3
    [] OTHER -> 2]

\* Rows of the default table; a letter with a mark is its base letter.
Bare(c) == MCCanonical[c][1]
MCDefault == Table(
  [c \in {d \in Letters : Bare(d) # d /\ Bare(d) \in Ascii} |-> <<Bare(c)>>]
  @@ [c \in {d \in MCChars : Bare(d) = "iota"} |-> <<"i">>]
  @@ [c \in {"cya", "cyadiaeresis", "V", "mkhedruli", "mongolian"} |-> <<"a">>]
  @@ [c \in {"acute", "diaeresis", "dot", "cedilla", "overlay", "cgj", "fvs1", "keycap", "shy", "zwsp", "rlo"} |-> <<>>]
  @@ "half" :> <<"1", "slash", "2">> @@ "devzero" :> <<"0">> @@ "L" :> <<"g">> @@ "LV" :> <<"g", "a">>
  @@ "fracslash" :> <<"slash">> @@ "smallcapI" :> <<"I">> @@ "click" :> <<"bar", "bar">>
  @@ "mtavruli" :> <<"A">>)
MCOverrides == Table(
  "de" :> ("Odiaeresis" :> <<"O", "e">> @@ "adiaeresis" :> <<"a", "e">> @@ "odiaeresis" :> <<"o", "e">>))
MCNone == <<>>
MCScriptClass ==
  [c \in MCChars \ Ascii |-> IF c \in DOMAIN MCCodePoint THEN ClassifyChar(MCCodePoint[c]) ELSE "Other"]

\* Names are shorter than CLDR's; two of the rows are no emoji.
MCSingleNames == Table("fire" :> <<"f", "i", "e">> @@ "heart" :> <<"e", "a">> @@ "flag" :> <<"f", "l", "a", "g">>
                 @@ "fracslash" :> <<"f">> @@ "divides" :> <<"i">> @@ "neq" :> <<"e">>)
MCSequences == Table(<<"1", "keycap">> :> <<"c", "break", "1">>)
MCNonEmoji == {"fracslash", "divides", "neq"}
MCPresentation == {"fire"}
MCEmojiYes == {"fire", "heart", "0", "1", "2"}
MCEmojiProperty == MCEmojiYes \cup {"flag"}
MCTags == {"tag", "tagg", "canceltag"}
MCFoldsToWord == {c \in DOMAIN MCRows : MCRows[c][1] \in MCAlphanumeric} \ Ascii
MCWhitespace == {"tab", "lf", "space", "nbsp"}
MCEmojiBlocks == {"fire", "heart", "flag", "vs15", "vs16"} \cup MCTags

Context(p, lang, cldr) == [policy |-> p, lang |-> lang, cldr |-> cldr]
MCContexts == {Context(p, "none", FALSE) : p \in Policies}
              \cup {Context("numeric", "de", FALSE), Context("numeric", "none", TRUE),
                    Context("tr39", "auto", FALSE)}

\* Accents stay: the marks that show nothing go on their own.
MCHandBuilt == Table(
  "keeps_accents" :>
    [Options({"strip_invisible_marks", "confusables", "fold_case"}, "Nfc", "none") EXCEPT !.zalgo = 1,
                                                                      !.fixedPoint = FALSE])

\* One character of every kind, before and after each other, and texts that
\* take more: a base over the cap, runs a fold eats, what an erased, invisible
\* or folded character was holding apart, a flag, a keycap, an emoji.
Some == {"bs", "space", "a", "half", "Ccedilla", "acute", "overlay", "cya", "devzero", "L", "V", "zwsp"}
More == {<<"VY", "acute">>, <<"I", "0">>, <<"cymark", "acute">>, <<"iotadialytikatonos", "cymark">>, <<"acute", "cgj", "acute">>, <<"a", "lf", "bs">>, <<"cgj", "space">>,
         <<"gcedilla", "acute", "diaeresis", "acute">>, <<"g", "acute", "dot", "acute", "cedilla">>,
         <<"Cdot", "acute">>, <<"Idot", "cedilla">>, <<"I", "zwsp", "dot">>,
         <<"a", "diaeresis", "acute", "diaeresis", "acute", "diaeresis">>,
         <<"iota", "diaeresis", "acute", "diaeresis", "acute">>,
         <<"C", "cedilla", "cedilla", "cedilla", "acute">>,
         <<"C", "cedilla", "cedilla", "cedilla", "cedilla", "cedilla", "cedilla">>,
         <<"C", "cymark", "cedilla">>, <<"cya", "cymark", "cedilla">>, <<"cya", "cymark", "diaeresis">>,
         <<"L", "zwsp", "V">>, <<"L", "nul", "V">>, <<"L", "a", "bs", "V">>, <<"L", "rlo", "V">>,
         <<"1", "vs16", "keycap">>, <<"heart", "vs16">>, <<"a", "vs16">>, <<"pua", "vs16", "acute">>,
         <<"mongolian", "fvs1", "fvs1", "acute">>, <<"a", "fvs1", "acute">>, <<"heart", "fvs1", "vs16">>,
         <<"flag", "tagg", "canceltag">>, <<"flag", "tagg", "tag">>, <<"a", "tag", "acute">>,
         <<"a", "shy", "diaeresis">>, <<"divides", "overlay", "overlay">>, <<"eq", "overlay", "acute">>,
         <<"tab", "a", "nbsp", "braille", "a">>, <<"nul", "a">>, <<"tab", "bar">>, <<"nonchar", "fi">>,
         <<"quote", "divides">>, <<"I", "keycap">>,
         <<"quote", "quote", "quote", "quote", "quote", "quote">>, <<"half", "half", "half", "bs">>,
         <<"iotadialytikatonos", "iotadialytikatonos">>, <<"half", "quote", "quote", "quote", "quote", "quote">>,
         <<"smallcapI", "click">>, <<"VY", "mtavruli">>, <<"fire", "vs16", "a">>, <<"a", "heart", "overlay">>,
         <<"neq", "odiaeresis">>, <<"L", "V", "acute", "a">>, <<"cya", "diaeresis", "L", "V">>,
         <<"notdivides", "click", "VY">>, <<"mtavruli", "acute">>, <<"fire", "fire", "fire">>,
         <<"Ccedilla", "acute", "bs", "a">>, <<"devzero", "devzero", "acute", "bs">>}
MCTexts == UNION {[1..n -> Some] : n \in 0..2} \cup More
=============================================================================
