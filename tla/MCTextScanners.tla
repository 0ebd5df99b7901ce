---------------------------- MODULE MCTextScanners ---------------------------
(***************************************************************************)
(* Of the walk, characters with their real data and rows: Cyrillic and     *)
(* Ukrainian rows, Devanagari and Bengali consonants with their signs and  *)
(* a composition that Unicode excludes, code points with an offset of a    *)
(* consonant or a sign and no row, ideographs, kana, jamo, and characters  *)
(* whose NFKC image is translated in whole, in part and not at all.        *)
(* Of the emoji scans, one of every kind they tell apart; the longest      *)
(* sequence has three, so the window holds six.                            *)
(* Of the fold, the rows of the bundled Latin tables that reach every case *)
(* of it:                                                                  *)
(*   C, C-cedilla, C-descender, C-acute, C-cedilla-acute: the fold cycle   *)
(*   ka + nukta, diaeresis + acute: excluded compositions                  *)
(*   L V T: conjoining jamo; ai, aiai: a starter composing backwards       *)
(*   hka + voiced: a kana whose half-width mark NFKC turns into a mark     *)
(*   visarga: a mark of class 0 that folds, devzero: a digit row           *)
(* and one base made up, s, which takes two dots before it folds and       *)
(* composes with ai once they are gone: no row does that today, the code   *)
(* is written for tables in which one does.                                *)
(***************************************************************************)
EXTENDS TextScanners

\* A function as a table: TLC works it out once.
Table(f) == [k \in DOMAIN f |-> f[k]]

Ascii == {"space", "apos", "hyphen", "1", "eq", "C", "a", "b", "e", "f", "g", "h", "i", "k", "n", "o",
          "q", "y"}
\* What the inputs below are romanized to and may compose to.
Results == {"a_acute", "a_diaeresis", "e_acute", "e_diaeresis", "i_acute", "i_diaeresis", "o_acute",
            "o_diaeresis", "y_acute", "y_diaeresis", "C_acute", "n_acute", "g_acute", "h_diaeresis",
            "i_diaeresis_acute", "k_acute"}
WalkMarks == {"acute", "diaeresis", "overlay", "cymark", "nukta", "matra", "virama", "be", "baa", "bo"}
Inputs == {"ghe", "softsign", "yi", "i456", "diaeresis", "acute", "gje", "ka", "nukta", "qa", "matra",
           "virama", "noka", "nosign", "ba", "bei", "kana", "choon", "cckg", "divslash", "dprime",
           "prime", "vy", "L", "V", "LV", "fi", "overlay", "neq", "cymark", "tortoise", "lbr", "hon",
           "rbr", "bka", "be", "baa", "bo"}
WalkChars == Ascii \cup Results \cup Inputs

\* The emoji scans' characters, one of every kind they tell apart:
\*   heart: an emoji when asked, copy: a symbol that can be asked
\*   fire, man, hat: emoji with names, unnamed: an emoji without one
\*   riD riE: a flag, riX: an indicator that makes none
\*   euro, rsquo: named rows that are no emoji; euro folds to a letter
\*   prime: neither a row nor a letter
Letters == {"a", "h", "f", "m", "t", "c", "d", "e", "k"}
ScanAscii == Letters \cup {"1", "space", "lf", "break"}
ScanMarks == {"acute", "vs15", "vs16", "keycap"}
ScanChars == ScanAscii \cup ScanMarks
           \cup {"heart", "copy", "fire", "man", "hat", "unnamed", "riD", "riE", "riX", "tone",
                 "tag", "zwj", "euro", "rsquo", "prime"}

FoldStarters == {"C", "Ccedilla", "Cdescender", "C_acute", "Ccedillaacute", "ka", "qa",
                 "hka", "hga", "halfvoiced", "L", "V", "T", "LV", "LVT", "ai", "aiai",
                 "devzero", "0", "o", "bar", "l", "colon", "s", "sdot", "sdotdot", "sai"}
FoldMarks == {"cedilla", "dot", "acute", "diaeresis", "dialytika", "nukta", "voiced", "visarga"}
FoldAscii == {"C", "0", "o", "l", "colon", "s", "space"}
FoldChars == FoldStarters \cup FoldMarks \cup {"space"}

MCAscii == Ascii \cup ScanAscii \cup FoldAscii
MCMarks == WalkMarks \cup ScanMarks \cup FoldMarks
MCChars == WalkChars \cup ScanChars \cup FoldChars

MCCcc == [c \in MCChars |->
  CASE c \in {"acute", "diaeresis"} -> 230 [] c = "virama" -> 9 [] c = "nukta" -> 7
    [] c = "overlay" -> 1 [] c = "cedilla" -> 202 [] c = "dot" -> 220 [] c = "dialytika" -> 230
    [] c = "voiced" -> 8 [] OTHER -> 0]

MCComposite == Table(
  <<"eq", "overlay">> :> "neq" @@ <<"C", "acute">> :> "C_acute" @@ <<"a", "acute">> :> "a_acute" @@ <<"a", "diaeresis">> :> "a_diaeresis" @@ <<"e", "acute">> :> "e_acute"
  @@ <<"e", "diaeresis">> :> "e_diaeresis" @@ <<"g", "acute">> :> "g_acute" @@ <<"h", "diaeresis">> :> "h_diaeresis" @@ <<"i", "acute">> :> "i_acute" @@ <<"i", "diaeresis">> :> "i_diaeresis"
  @@ <<"k", "acute">> :> "k_acute" @@ <<"n", "acute">> :> "n_acute" @@ <<"o", "acute">> :> "o_acute" @@ <<"o", "diaeresis">> :> "o_diaeresis" @@ <<"y", "acute">> :> "y_acute"
  @@ <<"y", "diaeresis">> :> "y_diaeresis" @@ <<"i_diaeresis", "acute">> :> "i_diaeresis_acute" @@ <<"ghe", "acute">> :> "gje" @@ <<"i456", "diaeresis">> :> "yi" @@ <<"be", "baa">> :> "bo"
  @@ <<"L", "V">> :> "LV" @@ <<"LV", "T">> :> "LVT" @@ <<"ai", "ai">> :> "aiai"
  @@ <<"C", "cedilla">> :> "Ccedilla" @@ <<"Ccedilla", "acute">> :> "Ccedillaacute" @@ <<"hka", "voiced">> :> "hga"
  @@ <<"s", "dot">> :> "sdot" @@ <<"sdot", "dot">> :> "sdotdot" @@ <<"s", "ai">> :> "sai")
MCExcluded == Table(<<"ka", "nukta">> :> "qa" @@ <<"diaeresis", "acute">> :> "dialytika")

\* Every canonical decomposition here is that of a composite, or is excluded.
MCCanonical ==
  LET all == MCComposite @@ MCExcluded
      pair(c) == CHOOSE p \in DOMAIN all : all[p] = c
      full[c \in MCChars] ==
        IF c \in {all[p] : p \in DOMAIN all} THEN full[pair(c)[1]] \o full[pair(c)[2]] ELSE <<c>>
  IN Table(full)
MCCompatible == [MCCanonical EXCEPT
  !["dprime"] = <<"prime", "prime">>, !["cckg"] = <<"C", "divslash", "k", "g">>,
  !["fi"] = <<"f", "i">>, !["tortoise"] = <<"lbr", "hon", "rbr">>,
  !["halfvoiced"] = <<"voiced">>]
MCHangulL == {"L"}
MCHangulV == {"V"}
MCHangulT == {"T"}
MCBackward == {"ai"}

WalkWords == WalkChars \ (MCMarks \cup {"space", "apos", "hyphen", "eq", "neq", "nosign", "noka",
                                           "prime", "dprime", "divslash", "lbr", "rbr", "cckg", "tortoise"})
MCAlphanumeric == WalkWords \cup Letters \cup {"1"} \cup (FoldStarters \ {"bar", "colon"})
MCCodePoint == Table(
  "nukta" :> \h93C @@ "ka" :> \h915 @@ "qa" :> \h958 @@ "matra" :> \h93F @@ "virama" :> \h94D @@ "bka" :> \h995
  @@ "be" :> \h9C7 @@ "baa" :> \h9BE @@ "bo" :> \h9CB @@ "noka" :> \h9B1 @@ "nosign" :> \h9C6
  @@ "LV" :> \hAC00 @@ "bei" :> \h5317 @@ "ba" :> \h5DF4 @@ "hon" :> \h672C @@ "kana" :> \h30A2 @@ "choon" :> \h30FC)
MCScriptClass ==
  [c \in MCChars \ MCAscii |-> IF c \in DOMAIN MCCodePoint THEN ClassifyChar(MCCodePoint[c]) ELSE "Other"]
MCRole == [c \in {d \in MCChars \ MCAscii : MCScriptClass[d] = "Indic"} |-> IndicCharRole(MCCodePoint[c])]

MCDefault == Table(
  "a_acute" :> <<"a">> @@ "a_diaeresis" :> <<"a">> @@ "e_acute" :> <<"e">> @@ "e_diaeresis" :> <<"e">> @@ "i_acute" :> <<"i">>
  @@ "i_diaeresis" :> <<"i">> @@ "o_acute" :> <<"o">> @@ "o_diaeresis" :> <<"o">> @@ "y_acute" :> <<"y">> @@ "y_diaeresis" :> <<"y">>
  @@ "C_acute" :> <<"C">> @@ "n_acute" :> <<"n">> @@ "g_acute" :> <<"g">> @@ "acute" :> <<>> @@ "diaeresis" :> <<>>
  @@ "overlay" :> <<>> @@ "ghe" :> <<"g">> @@ "softsign" :> <<>> @@ "gje" :> <<"g">> @@ "i456" :> <<"i">>
  @@ "yi" :> <<"y", "i">> @@ "ka" :> <<"k", "a">> @@ "nukta" :> <<>> @@ "matra" :> <<"i">> @@ "virama" :> <<>>
  @@ "qa" :> <<"q", "a">> @@ "bka" :> <<"k", "a">> @@ "baa" :> <<"a">> @@ "be" :> <<"e">> @@ "bo" :> <<"o">>
  @@ "L" :> <<"g">> @@ "V" :> <<"a">> @@ "h_diaeresis" :> <<"h">> @@ "i_diaeresis_acute" :> <<"i">> @@ "k_acute" :> <<"k">>
  @@ "kana" :> <<"a">> @@ "choon" :> <<"hyphen">> @@ "bei" :> <<"b", "e", "i">> @@ "ba" :> <<"b", "a">> @@ "hon" :> <<"b", "e", "n">>
  @@ "LV" :> <<"g", "a">>)
MCOverrides == Table(
  "ja" :> ("choon" :> <<>>)
  @@ "uk" :> ("ghe" :> <<"h">> @@ "softsign" :> <<"apos">> @@ "i456" :> <<"i">> @@ "yi" :> <<"i">>))
MCRegisteredRows == Table("own" :> ("ghe" :> <<>> @@ "vy" :> <<"g">>))

MCScriptName == [c \in MCChars |->
  CASE c \in {"ghe", "softsign", "yi", "i456", "gje", "cymark"} -> "Cyrillic"
    [] c \in {"ka", "nukta", "qa", "matra", "virama"} -> "Devanagari"
    [] c \in {"bka", "be", "baa", "bo"} -> "Bengali"
    [] c \in {"bei", "ba", "hon"} -> "Han" [] c \in {"L", "V", "LV"} -> "Hangul" [] c = "kana" -> "Katakana"
    [] c \in {"acute", "diaeresis", "overlay"} -> "Inherited"
    [] c \in Results \cup {"vy", "fi"} \cup (MCAscii \ {"space", "apos", "hyphen", "1", "eq", "lf", "break"}) -> "Latin"
    [] OTHER -> "Common"]
MCDiscriminators == Table("Cyrillic" :> ("yi" :> "uk" @@ "i456" :> "uk"))

MCLangs == {"none", "auto", "uk", "own"}
MCReplaceWith == {<<>>, <<"eq">>}
\* Every two of the characters a rule tells apart, and longer texts.
Some == {"space", "a", "eq", "ghe", "softsign", "i456", "diaeresis", "ka", "nukta", "matra", "virama",
         "noka", "nosign", "ba", "kana", "choon", "cckg", "dprime", "vy", "L", "V", "fi", "overlay"}
More == {<<"ba", "vy", "bei">>, <<"ba", "softsign", "bei">>, <<"ba", "1", "bei">>, <<"LV", "kana", "LV">>,
         <<"ka", "nukta", "matra">>, <<"qa", "virama", "ka">>, <<"ka", "matra", "matra">>, <<"bka", "be", "baa">>,
         <<"ba", "noka", "matra">>, <<"ba", "noka", "nosign">>, <<"noka", "nosign", "nosign">>, <<"ka", "nosign", "nosign">>,
         <<"ka", "vy", "virama">>, <<"vy", "ghe", "acute">>, <<"vy", "L", "V">>, <<"vy", "a", "diaeresis", "vy">>,
         <<"dprime", "vy", "ghe", "acute">>, <<"ghe", "acute", "vy">>, <<"yi", "ghe">>, <<"gje", "softsign">>,
         <<"tortoise", "bei">>, <<"ba", "tortoise">>, <<"cckg", "ba">>, <<"ghe", "diaeresis", "acute">>,
         <<"ghe", "overlay", "acute">>, <<"ka", "acute", "nukta">>, <<"eq", "acute", "overlay", "vy">>,
         <<"vy", "cymark", "diaeresis">>, <<"cymark", "vy">>, <<"neq", "qa">>, <<"kana", "choon", "bei">>}
MCTexts == UNION {[1..n -> Some] : n \in 0..2} \cup More

MCPresentation == {"fire", "man", "hat", "unnamed", "tone"}
MCIndicators == {"riD", "riE", "riX"}
MCEmojiYes == MCPresentation \cup MCIndicators \cup {"heart", "copy", "1"}
MCTones == {"tone"}
MCTags == {"tag"}
MCBases == {"1"}
MCWhitespace == {"space", "lf"}

MCNames == Table("heart" :> <<"h">> @@ "fire" :> <<"f">> @@ "man" :> <<"m">> @@ "hat" :> <<"h", "rsquo", "t">>
           @@ "copy" :> <<"c">> @@ "euro" :> <<"e">> @@ "rsquo" :> <<"a">> @@ "tone" :> <<"t">>)
MCSequences == Table(<<"heart", "zwj", "fire">> :> <<"h", "f">> @@ <<"man", "tone">> :> <<"m", "break", "t">>
               @@ <<"1", "keycap">> :> <<"k", "break", "1">> @@ <<"riD", "riE">> :> <<"f", "break", "d">>
               @@ <<"man", "zwj", "man">> :> <<"m", "m">>)
MCNonEmoji == {"euro", "rsquo"}
MCTr39 == {"euro", "copy"}
MCFolds == {"euro"}

MCHows == {Naming(FALSE, NameEverything, "replace", <<"prime">>), Naming(TRUE, NameEverything, "drop", <<>>),
           Naming(FALSE, NameEverything, "preserve", <<>>),
           Naming(FALSE, PipelineBaseline, "drop", <<>>), Naming(FALSE, ComparisonPolicy, "drop", <<>>)}
MCReplacements == {<<>>, <<"space">>, <<"1">>}
MCProviders == {<<>>,
                <<"1">> :> <<"k">> @@ <<"heart", "zwj", "fire">> :> Raises @@ <<"fire">> :> <<"f", "f">>
                @@ <<"heart">> :> <<"a">> @@ <<"prime", "acute">> :> <<"d">>}

Joined(n) == [i \in 1..(2 * n + 1) |-> IF i % 2 = 1 THEN "man" ELSE "zwj"]
Chains ==
  {p \o Joined(n) \o t :
     p \in {<<>>, <<"1">>, <<"a", "fire">>}, n \in 1..7,
     t \in {<<>>, <<"zwj">>, <<"zwj", "a">>, <<"zwj", "1", "vs16", "keycap", "a">>, <<"tone", "a">>,
            <<"vs16", "zwj", "fire", "tag", "keycap">>, <<"zwj", "1", "keycap", "zwj", "man">>,
            <<"a", "man", "zwj", "fire", "1">>, <<"zwj", "vs16", "a", "1", "keycap", "f", "h", "e">>}}
Short == [1..2 -> ScanChars]
         \cup [1..3 -> {"1", "a", "acute", "heart", "fire", "riD", "riX", "unnamed", "zwj", "vs16", "keycap", "copy"}]
         \cup [1..4 -> {"1", "fire", "riX", "vs16", "keycap"}]
Long == {<<"1", "vs16">> \o [i \in 1..n |-> "unnamed"] \o <<"keycap", "a">> : n \in 1..8}
        \cup {<<"1">> \o [i \in 1..n |-> "vs16"] \o <<"unnamed", "vs15", "keycap", "keycap">> : n \in 0..2}
        \cup {<<"heart", "vs16", "zwj", "vs16", "fire">>, <<"heart", "vs16", "zwj", "fire">>,
              <<"riD", "vs16", "riE">>, <<"hat", "unnamed", "acute", "a">>, <<"fire", "tag", "vs16", "euro">>,
              <<"fire", "riX", "zwj", "a">>, <<"prime", "acute", "keycap">>, <<"lf", "fire", "hat", "rsquo">>}
MCScannedTexts == Short \cup Chains \cup Long

MCRows == Table("Ccedilla" :> <<"C">> @@ "Cdescender" :> <<"C">> @@ "devzero" :> <<"0">>
          @@ "bar" :> <<"l">> @@ "visarga" :> <<"colon">>
          @@ "sdotdot" :> <<"s">>)
MCTr39Rows == Table("devzero" :> <<"o">>)
MCAsciiDigits == {"0"}

\* A letter under a long run of one mark, then something after the run.
Copies(c, n) == [i \in 1..n |-> c]
Cycles ==
  {<<b>> \o Copies("cedilla", n) \o t :
     b \in {"C", "Cdescender", "C_acute"},
     n \in 1..13,
     t \in {<<>>, <<"dot">>, <<"visarga", "cedilla">>, <<"C", "cedilla", "cedilla">>,
            <<"L", "V", "T">>, <<"halfvoiced", "nukta">>}}
  \cup {<<"visarga", "hka", "halfvoiced">> \o Copies("cedilla", n) \o <<"bar", "Ccedilla">>
          \o Copies("cedilla", n) : n \in 1..9}
  \cup {<<"Cdescender">> \o Copies("diaeresis", n) \o Copies(m, 4) : n \in 0..6, m \in {"acute", "cedilla"}}
  \cup {<<"s">> \o Copies("dot", n) \o t :
          n \in 1..16, t \in {<<>>, <<"ai">>, <<"L", "V", "acute">>}}
MCFoldedTexts ==
  UNION {[1..n -> FoldChars] : n \in 1..2}
  \cup [1..3 -> {"C", "Ccedilla", "cedilla", "acute", "ka", "qa", "nukta", "L", "V", "T", "ai", "visarga"}]
  \cup Cycles

\* Nothing here is lower-cased.
MCNone == <<>>
=============================================================================
