------------------------------ MODULE MCTextCalls ---------------------------
(***************************************************************************)
(* Two hundred characters: printable ASCII under their own names, and one  *)
(* or a few of every other kind the functions tell apart, with the data    *)
(* the library's tables and Unicode give them ("dots" is U+0308, the one   *)
(* mark that composes here).  The calls are those of every operation over  *)
(* short texts, and texts made to meet one rule or another.                *)
(***************************************************************************)
EXTENDS TextCalls

\* A function as a table: TLC works it out once.
Table(f) == [k \in DOMAIN f |-> f[k]]

\* The alphabet and its data.
Ascii == {"bs", "tab", "lf", "vt", "cr", " ", "!", "#", "$", "%", "&", "'", "(", ")", "*", "+",
          ",", "-", ".", "/", "0", "1", "2", "3", "4", "5", "6", "7", "8", "9", ":", ";", "?",
          "@", "A", "B", "C", "D", "E", "F", "G", "H", "I", "J", "K", "L", "M", "N", "O", "P",
          "Q", "R", "S", "T", "U", "V", "W", "X", "Y", "Z", "[", "\\", "]", "_", "a", "b", "c",
          "d", "e", "f", "g", "h", "i", "j", "k", "l", "m", "n", "o", "p", "q", "r", "s", "t",
          "u", "v", "w", "x", "y", "z", "|"}
MCMarks == {"dots", "underline", "strike", "overlay", "cgj", "cymark", "qamats", "fatha",
          "circle", "keycap", "vs1", "vs15", "vs16", "ivs0", "ivs1", "ivs2", "ivs3", "ivs4",
          "ivs5", "ivs6", "ivs7", "vsH", "vsi"}
Others == {"nel", "nbsp", "shy", "Adots", "Edots", "Idots", "Odots", "Udots", "sharps", "adots",
          "edots", "idots", "odots", "udots", "ydots", "Ydots", "capY", "capL", "unassigned",
          "omega", "cya", "cyer", "cyu", "cysha", "cyi", "yi", "cyadots", "cyudots", "alef",
          "bet", "number", "arquestion", "ba", "tatweel", "arone", "pe", "devone", "kiyeok",
          "FILLER", "jungA", "capA", "capP", "Hdots", "hdots", "Wdots", "wdots", "Xdots",
          "xdots", "tdots", "zwsp", "zwnj", "zwj", "lrm", "rlm", "endash", "rsquo", "ellipsis",
          "ls", "rlo", "wj", "itimes", "iplus", "lri", "pdi", "nads", "kelvin", "circled",
          "heart", "braille", "ideostop", "ka", "bopo", "filler", "bian", "ga", "pua",
          "alefqamats", "nonchar", "fullbang", "fullpercent", "fullstop", "fulla", "halfstop",
          "riA", "flag", "face", "taga", "tagg", "tagy", "canceltag"}
MCChars == Ascii \cup MCMarks \cup Others
CodePoints == Table(
  "bs" :> 8 @@ "tab" :> 9 @@ "lf" :> 10 @@ "vt" :> 11 @@ "cr" :> 13 @@ " " :> 32 @@ "!" :> 33
  @@ "#" :> 35 @@ "$" :> 36 @@ "%" :> 37 @@ "&" :> 38 @@ "'" :> 39 @@ "(" :> 40 @@ ")" :> 41
  @@ "*" :> 42 @@ "+" :> 43 @@ "," :> 44 @@ "-" :> 45 @@ "." :> 46 @@ "/" :> 47 @@ "0" :> 48
  @@ "1" :> 49 @@ "2" :> 50 @@ "3" :> 51 @@ "4" :> 52 @@ "5" :> 53 @@ "6" :> 54 @@ "7" :> 55
  @@ "8" :> 56 @@ "9" :> 57 @@ ":" :> 58 @@ ";" :> 59 @@ "?" :> 63 @@ "@" :> 64 @@ "A" :> 65
  @@ "B" :> 66 @@ "C" :> 67 @@ "D" :> 68 @@ "E" :> 69 @@ "F" :> 70 @@ "G" :> 71 @@ "H" :> 72
  @@ "I" :> 73 @@ "J" :> 74 @@ "K" :> 75 @@ "L" :> 76 @@ "M" :> 77 @@ "N" :> 78 @@ "O" :> 79
  @@ "P" :> 80 @@ "Q" :> 81 @@ "R" :> 82 @@ "S" :> 83 @@ "T" :> 84 @@ "U" :> 85 @@ "V" :> 86
  @@ "W" :> 87 @@ "X" :> 88 @@ "Y" :> 89 @@ "Z" :> 90 @@ "[" :> 91 @@ "\\" :> 92 @@ "]" :> 93
  @@ "_" :> 95 @@ "a" :> 97 @@ "b" :> 98 @@ "c" :> 99 @@ "d" :> 100 @@ "e" :> 101 @@ "f" :> 102
  @@ "g" :> 103 @@ "h" :> 104 @@ "i" :> 105 @@ "j" :> 106 @@ "k" :> 107 @@ "l" :> 108
  @@ "m" :> 109 @@ "n" :> 110 @@ "o" :> 111 @@ "p" :> 112 @@ "q" :> 113 @@ "r" :> 114
  @@ "s" :> 115 @@ "t" :> 116 @@ "u" :> 117 @@ "v" :> 118 @@ "w" :> 119 @@ "x" :> 120
  @@ "y" :> 121 @@ "z" :> 122 @@ "|" :> 124 @@ "nel" :> 133 @@ "nbsp" :> 160 @@ "shy" :> 173
  @@ "Adots" :> 196 @@ "Edots" :> 203 @@ "Idots" :> 207 @@ "Odots" :> 214 @@ "Udots" :> 220
  @@ "sharps" :> 223 @@ "adots" :> 228 @@ "edots" :> 235 @@ "idots" :> 239 @@ "odots" :> 246
  @@ "udots" :> 252 @@ "ydots" :> 255 @@ "Ydots" :> 376 @@ "capY" :> 655 @@ "capL" :> 671
  @@ "dots" :> 776 @@ "underline" :> 818 @@ "strike" :> 822 @@ "overlay" :> 824 @@ "cgj" :> 847
  @@ "unassigned" :> 888 @@ "omega" :> 969 @@ "cya" :> 1072 @@ "cyer" :> 1088 @@ "cyu" :> 1091
  @@ "cysha" :> 1096 @@ "cyi" :> 1110 @@ "yi" :> 1111 @@ "cymark" :> 1161 @@ "cyadots" :> 1235
  @@ "cyudots" :> 1265 @@ "qamats" :> 1464 @@ "alef" :> 1488 @@ "bet" :> 1489
  @@ "number" :> 1536 @@ "arquestion" :> 1567 @@ "ba" :> 1576 @@ "tatweel" :> 1600
  @@ "fatha" :> 1614 @@ "arone" :> 1633 @@ "pe" :> 1662 @@ "devone" :> 2407 @@ "kiyeok" :> 4352
  @@ "FILLER" :> 4448 @@ "jungA" :> 4449 @@ "capA" :> 7424 @@ "capP" :> 7448 @@ "Hdots" :> 7718
  @@ "hdots" :> 7719 @@ "Wdots" :> 7812 @@ "wdots" :> 7813 @@ "Xdots" :> 7820 @@ "xdots" :> 7821
  @@ "tdots" :> 7831 @@ "zwsp" :> 8203 @@ "zwnj" :> 8204 @@ "zwj" :> 8205 @@ "lrm" :> 8206
  @@ "rlm" :> 8207 @@ "endash" :> 8211 @@ "rsquo" :> 8217 @@ "ellipsis" :> 8230 @@ "ls" :> 8232
  @@ "rlo" :> 8238 @@ "wj" :> 8288 @@ "itimes" :> 8290 @@ "iplus" :> 8292 @@ "lri" :> 8294
  @@ "pdi" :> 8297 @@ "nads" :> 8298 @@ "circle" :> 8413 @@ "keycap" :> 8419 @@ "kelvin" :> 8490
  @@ "circled" :> 9424 @@ "heart" :> 10084 @@ "braille" :> 10240 @@ "ideostop" :> 12290
  @@ "ka" :> 12363 @@ "bopo" :> 12549 @@ "filler" :> 12644 @@ "bian" :> 37002 @@ "ga" :> 44032
  @@ "pua" :> 57344 @@ "alefqamats" :> 64303 @@ "nonchar" :> 64976 @@ "vs1" :> 65024
  @@ "vs15" :> 65038 @@ "vs16" :> 65039 @@ "fullbang" :> 65281 @@ "fullpercent" :> 65285
  @@ "fullstop" :> 65294 @@ "fulla" :> 65345 @@ "halfstop" :> 65377 @@ "riA" :> 127462
  @@ "flag" :> 127988 @@ "face" :> 128512 @@ "taga" :> 917601 @@ "tagg" :> 917607
  @@ "tagy" :> 917625 @@ "canceltag" :> 917631 @@ "ivs0" :> 917760 @@ "ivs1" :> 917761
  @@ "ivs2" :> 917762 @@ "ivs3" :> 917763 @@ "ivs4" :> 917764 @@ "ivs5" :> 917765
  @@ "ivs6" :> 917766 @@ "ivs7" :> 917767 @@ "vsH" :> 917816 @@ "vsi" :> 917849)
MCComposite == Table(
  <<"A", "dots">> :> "Adots" @@ <<"E", "dots">> :> "Edots" @@ <<"H", "dots">> :> "Hdots"
  @@ <<"I", "dots">> :> "Idots" @@ <<"O", "dots">> :> "Odots" @@ <<"U", "dots">> :> "Udots"
  @@ <<"W", "dots">> :> "Wdots" @@ <<"X", "dots">> :> "Xdots" @@ <<"Y", "dots">> :> "Ydots"
  @@ <<"a", "dots">> :> "adots" @@ <<"e", "dots">> :> "edots" @@ <<"h", "dots">> :> "hdots"
  @@ <<"i", "dots">> :> "idots" @@ <<"o", "dots">> :> "odots" @@ <<"t", "dots">> :> "tdots"
  @@ <<"u", "dots">> :> "udots" @@ <<"w", "dots">> :> "wdots" @@ <<"x", "dots">> :> "xdots"
  @@ <<"y", "dots">> :> "ydots" @@ <<"cya", "dots">> :> "cyadots"
  @@ <<"cyu", "dots">> :> "cyudots" @@ <<"cyi", "dots">> :> "yi"
  @@ <<"kiyeok", "jungA">> :> "ga")
CombiningClass ==
  "dots" :> 230 @@ "underline" :> 220 @@ "strike" :> 1 @@ "overlay" :> 1 @@ "qamats" :> 18
  @@ "fatha" :> 30
Decomposition ==
  "Adots" :> <<"A", "dots">> @@ "Edots" :> <<"E", "dots">> @@ "Idots" :> <<"I", "dots">>
  @@ "Odots" :> <<"O", "dots">> @@ "Udots" :> <<"U", "dots">> @@ "adots" :> <<"a", "dots">>
  @@ "edots" :> <<"e", "dots">> @@ "idots" :> <<"i", "dots">> @@ "odots" :> <<"o", "dots">>
  @@ "udots" :> <<"u", "dots">> @@ "ydots" :> <<"y", "dots">> @@ "Ydots" :> <<"Y", "dots">>
  @@ "yi" :> <<"cyi", "dots">> @@ "cyadots" :> <<"cya", "dots">>
  @@ "cyudots" :> <<"cyu", "dots">> @@ "Hdots" :> <<"H", "dots">> @@ "hdots" :> <<"h", "dots">>
  @@ "Wdots" :> <<"W", "dots">> @@ "wdots" :> <<"w", "dots">> @@ "Xdots" :> <<"X", "dots">>
  @@ "xdots" :> <<"x", "dots">> @@ "tdots" :> <<"t", "dots">> @@ "kelvin" :> <<"K">>
  @@ "ga" :> <<"kiyeok", "jungA">> @@ "alefqamats" :> <<"alef", "qamats">>
CompatibleForm ==
  "nbsp" :> <<" ">> @@ "ellipsis" :> <<".", ".", ".">> @@ "circled" :> <<"a">>
  @@ "filler" :> <<"FILLER">> @@ "fullbang" :> <<"!">> @@ "fullpercent" :> <<"%">>
  @@ "fullstop" :> <<".">> @@ "fulla" :> <<"a">> @@ "halfstop" :> <<"ideostop">>
MCExcluded == Table(
  <<"alef", "qamats">> :> "alefqamats")
MCAlphabetic == {"A", "B", "C", "D", "E", "F", "G", "H", "I", "J", "K", "L", "M", "N", "O", "P",
          "Q", "R", "S", "T", "U", "V", "W", "X", "Y", "Z", "a", "b", "c", "d", "e", "f", "g",
          "h", "i", "j", "k", "l", "m", "n", "o", "p", "q", "r", "s", "t", "u", "v", "w", "x",
          "y", "z", "Adots", "Edots", "Idots", "Odots", "Udots", "sharps", "adots", "edots",
          "idots", "odots", "udots", "ydots", "Ydots", "capY", "capL", "omega", "cya", "cyer",
          "cyu", "cysha", "cyi", "yi", "cyadots", "cyudots", "qamats", "alef", "bet", "ba",
          "tatweel", "fatha", "pe", "kiyeok", "FILLER", "jungA", "capA", "capP", "Hdots",
          "hdots", "Wdots", "wdots", "Xdots", "xdots", "tdots", "kelvin", "circled", "ka",
          "bopo", "filler", "bian", "ga", "alefqamats", "fulla"}
Digits == {"0", "1", "2", "3", "4", "5", "6", "7", "8", "9", "arone", "devone"}
MCLower == Table(
  "A" :> <<"a">> @@ "B" :> <<"b">> @@ "C" :> <<"c">> @@ "D" :> <<"d">> @@ "E" :> <<"e">>
  @@ "F" :> <<"f">> @@ "G" :> <<"g">> @@ "H" :> <<"h">> @@ "I" :> <<"i">> @@ "J" :> <<"j">>
  @@ "K" :> <<"k">> @@ "L" :> <<"l">> @@ "M" :> <<"m">> @@ "N" :> <<"n">> @@ "O" :> <<"o">>
  @@ "P" :> <<"p">> @@ "Q" :> <<"q">> @@ "R" :> <<"r">> @@ "S" :> <<"s">> @@ "T" :> <<"t">>
  @@ "U" :> <<"u">> @@ "V" :> <<"v">> @@ "W" :> <<"w">> @@ "X" :> <<"x">> @@ "Y" :> <<"y">>
  @@ "Z" :> <<"z">> @@ "Adots" :> <<"adots">> @@ "Edots" :> <<"edots">>
  @@ "Idots" :> <<"idots">> @@ "Odots" :> <<"odots">> @@ "Udots" :> <<"udots">>
  @@ "Ydots" :> <<"ydots">> @@ "Hdots" :> <<"hdots">> @@ "Wdots" :> <<"wdots">>
  @@ "Xdots" :> <<"xdots">> @@ "kelvin" :> <<"k">>)
MCDefault == Table(
  "nel" :> <<" ">> @@ "shy" :> <<>> @@ "Adots" :> <<"A">> @@ "Edots" :> <<"E">>
  @@ "Idots" :> <<"I">> @@ "Odots" :> <<"O">> @@ "Udots" :> <<"U">> @@ "sharps" :> <<"s", "s">>
  @@ "adots" :> <<"a">> @@ "edots" :> <<"e">> @@ "idots" :> <<"i">> @@ "odots" :> <<"o">>
  @@ "udots" :> <<"u">> @@ "ydots" :> <<"y">> @@ "Ydots" :> <<"Y">> @@ "capY" :> <<"Y">>
  @@ "capL" :> <<"L">> @@ "dots" :> <<>> @@ "underline" :> <<>> @@ "strike" :> <<>>
  @@ "overlay" :> <<>> @@ "cgj" :> <<>> @@ "omega" :> <<"o">> @@ "cya" :> <<"a">>
  @@ "cyer" :> <<"r">> @@ "cyu" :> <<"u">> @@ "cysha" :> <<"s", "h">> @@ "cyi" :> <<"i">>
  @@ "yi" :> <<"y", "i">> @@ "cyadots" :> <<"a">> @@ "cyudots" :> <<"u">> @@ "qamats" :> <<"a">>
  @@ "alef" :> <<"'">> @@ "bet" :> <<"v">> @@ "arquestion" :> <<"?">> @@ "ba" :> <<"b">>
  @@ "tatweel" :> <<>> @@ "fatha" :> <<"a">> @@ "arone" :> <<"1">> @@ "pe" :> <<"p">>
  @@ "devone" :> <<"1">> @@ "kiyeok" :> <<"g">> @@ "FILLER" :> <<>> @@ "jungA" :> <<"a">>
  @@ "Hdots" :> <<"H">> @@ "hdots" :> <<"h">> @@ "Wdots" :> <<"W">> @@ "wdots" :> <<"w">>
  @@ "Xdots" :> <<"X">> @@ "xdots" :> <<"x">> @@ "tdots" :> <<"t">> @@ "zwsp" :> <<>>
  @@ "zwnj" :> <<>> @@ "zwj" :> <<>> @@ "lrm" :> <<>> @@ "rlm" :> <<>> @@ "endash" :> <<"-">>
  @@ "rsquo" :> <<"'">> @@ "ellipsis" :> <<".", ".", ".">> @@ "ls" :> <<" ">> @@ "rlo" :> <<>>
  @@ "wj" :> <<>> @@ "itimes" :> <<>> @@ "iplus" :> <<>> @@ "lri" :> <<>> @@ "pdi" :> <<>>
  @@ "circle" :> <<>> @@ "keycap" :> <<>> @@ "circled" :> <<"a">> @@ "ka" :> <<"k", "a">>
  @@ "bian" :> <<"b", "i", "a", "n">> @@ "alefqamats" :> <<"a">> @@ "fullbang" :> <<"!">>
  @@ "fullpercent" :> <<"%">> @@ "fullstop" :> <<".">> @@ "fulla" :> <<"a">>)
FaRows ==
  "arquestion" :> <<"?">> @@ "ba" :> <<"b">> @@ "fatha" :> <<"a">> @@ "pe" :> <<"p">>
MCRows == Table(
  "|" :> <<"l">> @@ "capY" :> <<"y">> @@ "capL" :> <<"l">> @@ "omega" :> <<"w">>
  @@ "cya" :> <<"a">> @@ "cyer" :> <<"p">> @@ "cyu" :> <<"y">> @@ "cysha" :> <<"w">>
  @@ "cyi" :> <<"i">> @@ "yi" :> <<"i">> @@ "arone" :> <<"1">> @@ "capA" :> <<"a">>
  @@ "capP" :> <<"p">> @@ "endash" :> <<"-">> @@ "rsquo" :> <<"'">>
  @@ "ellipsis" :> <<".", ".", ".">> @@ "kelvin" :> <<"K">> @@ "fullbang" :> <<"!">>
  @@ "fulla" :> <<"a">>)
MCTr39Rows == Table(
  "arone" :> <<"l">>)
MCCaseFold == Table(
  "A" :> <<"a">> @@ "B" :> <<"b">> @@ "C" :> <<"c">> @@ "D" :> <<"d">> @@ "E" :> <<"e">>
  @@ "F" :> <<"f">> @@ "G" :> <<"g">> @@ "H" :> <<"h">> @@ "I" :> <<"i">> @@ "J" :> <<"j">>
  @@ "K" :> <<"k">> @@ "L" :> <<"l">> @@ "M" :> <<"m">> @@ "N" :> <<"n">> @@ "O" :> <<"o">>
  @@ "P" :> <<"p">> @@ "Q" :> <<"q">> @@ "R" :> <<"r">> @@ "S" :> <<"s">> @@ "T" :> <<"t">>
  @@ "U" :> <<"u">> @@ "V" :> <<"v">> @@ "W" :> <<"w">> @@ "X" :> <<"x">> @@ "Y" :> <<"y">>
  @@ "Z" :> <<"z">> @@ "Adots" :> <<"adots">> @@ "Edots" :> <<"edots">>
  @@ "Idots" :> <<"idots">> @@ "Odots" :> <<"odots">> @@ "Udots" :> <<"udots">>
  @@ "sharps" :> <<"s", "s">> @@ "Ydots" :> <<"ydots">> @@ "Hdots" :> <<"hdots">>
  @@ "Wdots" :> <<"wdots">> @@ "Xdots" :> <<"xdots">> @@ "tdots" :> <<"t", "dots">>
  @@ "kelvin" :> <<"k">>)
MCScriptRanges == << <<65, 90, "Latin">>, <<97, 122, "Latin">>, <<192, 591, "Latin">>,
  <<592, 687, "Latin">>, <<768, 879, "Inherited">>, <<880, 993, "Greek">>,
  <<1024, 1279, "Cyrillic">>, <<1424, 1535, "Hebrew">>, <<1536, 1791, "Arabic">>,
  <<2304, 2431, "Devanagari">>, <<4352, 4607, "Hangul">>, <<7424, 7461, "Latin">>,
  <<7680, 7935, "Latin">>, <<8400, 8447, "Inherited">>, <<12352, 12447, "Hiragana">>,
  <<12544, 12591, "Bopomofo">>, <<12592, 12687, "Hangul">>, <<19968, 40959, "Han">>,
  <<44032, 55215, "Hangul">>, <<64285, 64335, "Hebrew">>, <<64336, 65023, "Arabic">>>>
MCAssignedRanges == << <<0, 887>>, <<931, 1327>>, <<1425, 1479>>, <<1488, 1514>>,
  <<1536, 1805>>, <<2199, 2435>>, <<4304, 4680>>, <<7424, 7957>>, <<8192, 8292>>,
  <<8294, 8305>>, <<8400, 8432>>, <<8448, 8587>>, <<9312, 11123>>, <<12272, 12351>>,
  <<12353, 12438>>, <<12549, 12591>>, <<12593, 12686>>, <<12832, 42124>>, <<44032, 55203>>,
  <<57344, 64109>>, <<64285, 64310>>, <<65008, 65049>>, <<65281, 65470>>, <<127462, 127490>>,
  <<127744, 128728>>, <<917536, 917631>>, <<917760, 917999>>>>
MCCarveouts == << <<1567, 1567>>, <<1600, 1600>>>>
MCStrongLtr == {"A", "B", "C", "D", "E", "F", "G", "H", "I", "J", "K", "L", "M", "N", "O", "P",
          "Q", "R", "S", "T", "U", "V", "W", "X", "Y", "Z", "a", "b", "c", "d", "e", "f", "g",
          "h", "i", "j", "k", "l", "m", "n", "o", "p", "q", "r", "s", "t", "u", "v", "w", "x",
          "y", "z", "Adots", "Edots", "Idots", "Odots", "Udots", "sharps", "adots", "edots",
          "idots", "odots", "udots", "ydots", "Ydots", "capY", "capL", "omega", "cya", "cyer",
          "cyu", "cysha", "cyi", "yi", "cyadots", "cyudots", "devone", "kiyeok", "FILLER",
          "jungA", "capA", "capP", "Hdots", "hdots", "Wdots", "wdots", "Xdots", "xdots",
          "tdots", "lrm", "kelvin", "circled", "braille", "ka", "bopo", "filler", "bian", "ga",
          "pua", "fulla", "riA"}
MCStrongRtl == {"alef", "bet", "arquestion", "ba", "tatweel", "pe", "rlm", "alefqamats"}
MCUpstream == {"%", "0", "1", "I", "m", "|", "nbsp", "odots", "capY", "strike", "cya", "cyer",
          "cyu", "cysha", "cyi", "fatha", "arone", "pe", "devone", "endash", "rsquo",
          "ellipsis", "ls", "kelvin", "ideostop", "filler", "alefqamats", "fullbang", "fulla"}
MCRegistered == {<<"#", "vs15">>, <<"#", "vs16">>, <<"*", "vs15">>, <<"*", "vs16">>,
          <<"0", "vs1">>, <<"0", "vs15">>, <<"0", "vs16">>, <<"1", "vs15">>, <<"1", "vs16">>,
          <<"2", "vs15">>, <<"2", "vs16">>, <<"3", "vs15">>, <<"3", "vs16">>, <<"4", "vs15">>,
          <<"4", "vs16">>, <<"5", "vs15">>, <<"5", "vs16">>, <<"6", "vs15">>, <<"6", "vs16">>,
          <<"7", "vs15">>, <<"7", "vs16">>, <<"8", "vs15">>, <<"8", "vs16">>, <<"9", "vs15">>,
          <<"9", "vs16">>, <<"rsquo", "vs1">>, <<"heart", "vs15">>, <<"heart", "vs16">>,
          <<"ideostop", "vs1">>, <<"fullbang", "vs1">>, <<"fullstop", "vs1">>}
MCIvd == {<<"bian", "ivs0">>, <<"bian", "ivs1">>, <<"bian", "ivs2">>, <<"bian", "ivs3">>,
          <<"bian", "ivs4">>, <<"bian", "ivs5">>, <<"bian", "ivs6">>, <<"bian", "ivs7">>}
Utf8Length ==
  "nel" :> 2 @@ "nbsp" :> 2 @@ "shy" :> 2 @@ "Adots" :> 2 @@ "Edots" :> 2 @@ "Idots" :> 2
  @@ "Odots" :> 2 @@ "Udots" :> 2 @@ "sharps" :> 2 @@ "adots" :> 2 @@ "edots" :> 2
  @@ "idots" :> 2 @@ "odots" :> 2 @@ "udots" :> 2 @@ "ydots" :> 2 @@ "Ydots" :> 2 @@ "capY" :> 2
  @@ "capL" :> 2 @@ "dots" :> 2 @@ "underline" :> 2 @@ "strike" :> 2 @@ "overlay" :> 2
  @@ "cgj" :> 2 @@ "unassigned" :> 2 @@ "omega" :> 2 @@ "cya" :> 2 @@ "cyer" :> 2 @@ "cyu" :> 2
  @@ "cysha" :> 2 @@ "cyi" :> 2 @@ "yi" :> 2 @@ "cymark" :> 2 @@ "cyadots" :> 2
  @@ "cyudots" :> 2 @@ "qamats" :> 2 @@ "alef" :> 2 @@ "bet" :> 2 @@ "number" :> 2
  @@ "arquestion" :> 2 @@ "ba" :> 2 @@ "tatweel" :> 2 @@ "fatha" :> 2 @@ "arone" :> 2
  @@ "pe" :> 2 @@ "devone" :> 3 @@ "kiyeok" :> 3 @@ "FILLER" :> 3 @@ "jungA" :> 3 @@ "capA" :> 3
  @@ "capP" :> 3 @@ "Hdots" :> 3 @@ "hdots" :> 3 @@ "Wdots" :> 3 @@ "wdots" :> 3 @@ "Xdots" :> 3
  @@ "xdots" :> 3 @@ "tdots" :> 3 @@ "zwsp" :> 3 @@ "zwnj" :> 3 @@ "zwj" :> 3 @@ "lrm" :> 3
  @@ "rlm" :> 3 @@ "endash" :> 3 @@ "rsquo" :> 3 @@ "ellipsis" :> 3 @@ "ls" :> 3 @@ "rlo" :> 3
  @@ "wj" :> 3 @@ "itimes" :> 3 @@ "iplus" :> 3 @@ "lri" :> 3 @@ "pdi" :> 3 @@ "nads" :> 3
  @@ "circle" :> 3 @@ "keycap" :> 3 @@ "kelvin" :> 3 @@ "circled" :> 3 @@ "heart" :> 3
  @@ "braille" :> 3 @@ "ideostop" :> 3 @@ "ka" :> 3 @@ "bopo" :> 3 @@ "filler" :> 3
  @@ "bian" :> 3 @@ "ga" :> 3 @@ "pua" :> 3 @@ "alefqamats" :> 3 @@ "nonchar" :> 3 @@ "vs1" :> 3
  @@ "vs15" :> 3 @@ "vs16" :> 3 @@ "fullbang" :> 3 @@ "fullpercent" :> 3 @@ "fullstop" :> 3
  @@ "fulla" :> 3 @@ "halfstop" :> 3 @@ "riA" :> 4 @@ "flag" :> 4 @@ "face" :> 4 @@ "taga" :> 4
  @@ "tagg" :> 4 @@ "tagy" :> 4 @@ "canceltag" :> 4 @@ "ivs0" :> 4 @@ "ivs1" :> 4 @@ "ivs2" :> 4
  @@ "ivs3" :> 4 @@ "ivs4" :> 4 @@ "ivs5" :> 4 @@ "ivs6" :> 4 @@ "ivs7" :> 4 @@ "vsH" :> 4
  @@ "vsi" :> 4
MCUndrawn == {"shy", "number", "zwsp", "zwnj", "zwj", "lrm", "rlm", "rlo", "wj", "itimes",
          "iplus", "lri", "pdi", "nads", "pua", "taga", "tagg", "tagy", "canceltag"}
MCSmall == {"a", "b", "c", "d", "e", "f", "g", "h", "i", "j", "k", "l", "m", "n", "o", "p", "q",
          "r", "s", "t", "u", "v", "w", "x", "y", "z", "sharps", "adots", "edots", "idots",
          "odots", "udots", "ydots", "capY", "capL", "omega", "cya", "cyer", "cyu", "cysha",
          "cyi", "yi", "cyadots", "cyudots", "capA", "capP", "hdots", "wdots", "xdots", "tdots",
          "circled", "fulla"}
MCCapital == {"A", "B", "C", "D", "E", "F", "G", "H", "I", "J", "K", "L", "M", "N", "O", "P",
          "Q", "R", "S", "T", "U", "V", "W", "X", "Y", "Z", "Adots", "Edots", "Idots", "Odots",
          "Udots", "Ydots", "Hdots", "Wdots", "Xdots", "kelvin"}
MCWhite == {"tab", "lf", "vt", "cr", " ", "nel", "nbsp", "ls"}
CellOf ==
  "bs" :> 0 @@ "tab" :> 0 @@ "lf" :> 0 @@ "vt" :> 0 @@ "cr" :> 0 @@ "nel" :> 0 @@ "shy" :> 0
  @@ "sharps" :> 3 @@ "udots" :> 3 @@ "dots" :> 0 @@ "underline" :> 0 @@ "strike" :> 0
  @@ "overlay" :> 0 @@ "cgj" :> 0 @@ "omega" :> 3 @@ "cya" :> 3 @@ "cyer" :> 3 @@ "cyu" :> 3
  @@ "cysha" :> 3 @@ "cymark" :> 0 @@ "qamats" :> 0 @@ "number" :> 0 @@ "fatha" :> 0
  @@ "kiyeok" :> 2 @@ "FILLER" :> 0 @@ "jungA" :> 0 @@ "zwsp" :> 0 @@ "zwnj" :> 0 @@ "zwj" :> 0
  @@ "lrm" :> 0 @@ "rlm" :> 0 @@ "endash" :> 3 @@ "rsquo" :> 3 @@ "ellipsis" :> 3 @@ "rlo" :> 0
  @@ "wj" :> 0 @@ "itimes" :> 0 @@ "iplus" :> 0 @@ "lri" :> 0 @@ "pdi" :> 0 @@ "nads" :> 0
  @@ "circle" :> 0 @@ "keycap" :> 0 @@ "circled" :> 3 @@ "ideostop" :> 2 @@ "ka" :> 2
  @@ "bopo" :> 2 @@ "filler" :> 0 @@ "bian" :> 2 @@ "ga" :> 2 @@ "pua" :> 3 @@ "vs1" :> 0
  @@ "vs15" :> 0 @@ "vs16" :> 0 @@ "fullbang" :> 2 @@ "fullpercent" :> 2 @@ "fullstop" :> 2
  @@ "fulla" :> 2 @@ "flag" :> 2 @@ "face" :> 2 @@ "taga" :> 0 @@ "tagg" :> 0 @@ "tagy" :> 0
  @@ "canceltag" :> 0 @@ "ivs0" :> 0 @@ "ivs1" :> 0 @@ "ivs2" :> 0 @@ "ivs3" :> 0 @@ "ivs4" :> 0
  @@ "ivs5" :> 0 @@ "ivs6" :> 0 @@ "ivs7" :> 0 @@ "vsH" :> 0 @@ "vsi" :> 0
MCEmojiPresentation == {"riA", "flag", "face"}
MCEmojiYes == {"#", "*", "0", "1", "2", "3", "4", "5", "6", "7", "8", "9", "heart", "riA",
          "flag", "face"}

-----------------------------------------------------------------------------
Identity == [c \in MCChars |-> <<c>>]
MCNone == <<>>
MCCcc == Table(CombiningClass @@ [c \in MCChars |-> 0])
MCCanonical == Table(Decomposition @@ Identity)
MCCompatible == Table(CompatibleForm @@ MCCanonical)
MCBytes == Table(Utf8Length @@ [c \in Ascii |-> 1])
MCAlphanumeric == MCAlphabetic \cup Digits
AsciiNumbers == {"0", "1", "2", "3", "4", "5", "6", "7", "8", "9"}
CapitalAscii == {c \in Ascii : CodePoints[c] \in 65..90}
Ivs == {"ivs0", "ivs1", "ivs2", "ivs3", "ivs4", "ivs5", "ivs6", "ivs7"}

MCClass == [c \in MCChars |-> KindsOf(CodePoints[c])]
MCScriptName == [c \in MCChars |-> DetectCharScript(c)]
MCScriptClass == [c \in MCChars \ Ascii |-> ClassifyChar(CodePoints[c])]
MCRole == [c \in {d \in MCChars \ Ascii : MCScriptClass[d] = "Indic"} |-> IndicCharRole(CodePoints[c])]
MCOverrides == Table("fa" :> FaRows)
MCDiscriminators == Table("Cyrillic" :> ("yi" :> "uk" @@ "cyi" :> "uk") @@ "Arabic" :> ("pe" :> "fa")
  @@ "Latin" :> ("sharps" :> "de"))
MCPrototype == Table("I" :> "l" @@ "1" :> "l" @@ "0" :> "O")
MCSupplementary == Ivs \cup {"vsH", "vsi"}
MCAsciiGraphic == {c \in Ascii : CodePoints[c] \in 33..126}
MCFlags == {<<"tagg", "canceltag">>}

\* slugify and sanitize_filename
MCClustered == {<<"kiyeok", "jungA">>}
MCNamedEntities == Table(<<"&", "a", "m", "p", ";">> :> "&")
MCDigitValue == Table([c \in AsciiNumbers |-> CodePoints[c] - 48]
  @@ "a" :> 10 @@ "b" :> 11 @@ "c" :> 12 @@ "d" :> 13 @@ "e" :> 14 @@ "f" :> 15
  @@ "A" :> 10 @@ "B" :> 11 @@ "C" :> 12 @@ "D" :> 13 @@ "E" :> 14 @@ "F" :> 15)
MCCharAt == Table(97 :> "a" @@ 65 :> "A" @@ 228 :> "adots" @@ 1096 :> "cysha" @@ 38 :> "&" @@ 776 :> "dots")
MCIllegal == [universal |-> {"/", "\\", ":", "*", "?", "|"}, posix |-> {"/"}]
MCControlBlank == {"bs", "tab", "lf", "vt", "cr", " "}
Con == <<"c", "o", "n">>
MCReserved == {Con}

\* context and reverse
MCContextWord == {"alef", "bet", "qamats", "alefqamats", "ba", "fatha", "pe", "tatweel", "arone"}
MCHardBoundaries == {"lf", "cr", ".", "!", "?", "arquestion"}
MCReverseTable == Table(
  <<"s", "h", "c", "h">> :> <<"shcha">> @@ <<"S", "h", "c", "h">> :> <<"SHCHA">>
  @@ <<"s", "h">> :> <<"sha">> @@ <<"S", "h">> :> <<"SHA">> @@ <<"c", "h">> :> <<"che">> @@ <<"C", "h">> :> <<"CHE">>
  @@ <<"y", "a">> :> <<"ya">> @@ <<"Y", "a">> :> <<"YA">> @@ <<"s">> :> <<"es">> @@ <<"S">> :> <<"ES">>
  @@ <<"a">> :> <<"a-">> @@ <<"A">> :> <<"A-">> @@ <<"y">> :> <<"yery">> @@ <<"Y">> :> <<"YERY">>)
MCNativeUppercase == Table("shcha" :> "SHCHA" @@ "sha" :> "SHA" @@ "che" :> "CHE" @@ "ya" :> "YA" @@ "es" :> "ES"
  @@ "a-" :> "A-" @@ "yery" :> "YERY" @@ "h" :> "H" @@ "c" :> "C")
MCAsciiLowercase == Table([c \in CapitalAscii |-> MCLower[c][1]] @@ [c \in Ascii |-> c])

\* hostnames
MCLabelSeparators == {".", "fullstop", "ideostop", "halfstop"}
MCIdnaMap == Table(MCLower
  @@ "fulla" :> <<"a">> @@ "circled" :> <<"a">> @@ "fullbang" :> <<"!">> @@ "fullpercent" :> <<"%">>
  @@ "nbsp" :> <<" ">> @@ [c \in {"shy", "zwsp", "wj", "cgj", "vs1", "vs15", "vs16"} |-> <<>>])
MCIdnaRefused == {"rlo", "lri", "pdi", "rlm", "lrm", "nonchar", "pua", "unassigned", "filler", "FILLER",
                  "ls", "nel", "ellipsis"}
MCAceLabels == Table(<<"x", "n", "-", "-", "1">> :> <<"cyer", "cya", "y">> @@ <<"x", "n", "-", "-", "2">> :> <<"ba", "zwnj", "ba">>)
MCHexDigits == DOMAIN MCDigitValue
MCContractions == Table(<<"r", "n">> :> "m" @@ <<"v", "v">> :> "w" @@ <<"c", "l">> :> "d")

\* hidden payloads
MCTagByte == Table("taga" :> 97 @@ "tagg" :> 103 @@ "tagy" :> 121)
MCVariationByte == Table([c \in Ivs |-> 16 + CodePoints[c] - 917760]
  @@ "vs1" :> 0 @@ "vs15" :> 14 @@ "vs16" :> 15 @@ "vsH" :> 72 @@ "vsi" :> 105)
MCPresentation == {"vs15", "vs16"}
HexCapital == [c \in AsciiNumbers \cup {"A", "B", "C", "D", "E", "F"} |-> MCDigitValue[c]]
MCSneakyBit == Table("itimes" :> 0 @@ "iplus" :> 1)
MCZeroWidthBit == Table("zwsp" :> 0 @@ "zwnj" :> 1)
MCMultiByte == {<<195, 169>>}

\* anomalies
MCSegmentJoiners == {"_", "-", "endash", "."}
MCWordJoiners == {"-", "_", "/", ":", "@", ","}
MCWrap == {".", ",", ";", ":", "?", "!", "(", ")", "[", "]", "'", "rsquo", "ellipsis", " ", "tab"}
MCLeetSub == Table("0" :> "o" @@ "1" :> "i" @@ "!" :> "i" @@ "2" :> "z" @@ "3" :> "e" @@ "4" :> "a" @@ "@" :> "a"
  @@ "5" :> "s" @@ "$" :> "s" @@ "6" :> "g" @@ "9" :> "g" @@ "7" :> "t" @@ "+" :> "t" @@ "8" :> "b" @@ "|" :> "l")
MCDigitSystem == Table([c \in AsciiNumbers |-> "Ascii"] @@ "arone" :> "Arabic" @@ "devone" :> "Devanagari")
MCUnits == {<<"k", "omega">>, <<"m", "omega">>, <<"g", "omega">>, <<"omega">>}
MCOrdinalSuffixes == {<<"s", "t">>, <<"n", "d">>, <<"r", "d">>, <<"t", "h">>, <<"a", "m">>, <<"p", "m">>}
MCOrdinaryWhole == {"fulla", "fullstop", "fullbang", "fullpercent", "halfstop", "kelvin"}
MCOrdinaryCompat == MCOrdinaryWhole \cup {"capY", "capL", "capA", "capP"}
Pay == <<"p", "a", "y">>
Papal == <<"p", "a", "p", "a", "l">>
Play == <<"p", "l", "a", "y">>
MCLexiconWords == {Pay, Papal, Play}

\* columns, punctuation and log lines
MCCellClass == Table(CellOf @@ [c \in MCChars |-> 1])
MCKeycapBases == AsciiNumbers \cup {"#", "*"}
MCTypographic == Table("endash" :> <<"-">> @@ "rsquo" :> <<"'">> @@ "ellipsis" :> <<".", ".", ".">> @@ "nbsp" :> <<" ">>)
MCLogBreaking == {c \in MCChars : CodePoints[c] \in 0..31 \cup 127..159 \cup {8232, 8233}}

-----------------------------------------------------------------------------
\* Pieces put together.
Pieced(pieces, n) == {FlattenSeq(p) : p \in BoundedSeq(pieces, n)}
Single(C) == {<<c>> : c \in C}
Sized(S, from, to) == {s \in BoundedSeq(S, to) : Len(s) >= from}
Times(p, n) == FlattenSeq([i \in 1..n |-> p])
Asked(op, texts, options) == {[op |-> op, text |-> t, option |-> o] : t \in texts, o \in options}

\* Slugs: of words, of marks and joiners, of entities.
NewSlug == [separator |-> <<"-">>, lowercase |-> TRUE, maxLength |-> 0, wordBoundary |-> FALSE,
            saveOrder |-> FALSE, stopwords |-> {}, removed |-> {}, replacements |-> <<>>,
            allowUnicode |-> FALSE, lang |-> "none", entities |-> TRUE, decimal |-> TRUE,
            hexadecimal |-> TRUE, safe |-> {}]
Separators == {<<"-">>, <<>>, <<"-", "-">>}
WordSlugs == {[NewSlug EXCEPT !.separator = sep, !.maxLength = max, !.wordBoundary = at, !.saveOrder = inner,
                              !.stopwords = stop, !.allowUnicode = at] :
               sep \in Separators, max \in {0, 2, 3, 4}, at \in BOOLEAN, inner \in {FALSE},
               stop \in {{}, {<<"A">>}}}
MarkSlugs == {[NewSlug EXCEPT !.separator = sep, !.maxLength = max, !.wordBoundary = at,
                              !.allowUnicode = TRUE] :
               sep \in {<<"-">>, <<>>}, max \in {0, 3, 5}, at \in BOOLEAN}
OtherSlugs == {[NewSlug EXCEPT !.lowercase = FALSE, !.allowUnicode = TRUE],
               [NewSlug EXCEPT !.lowercase = FALSE, !.stopwords = {<<"a">>}],
               [NewSlug EXCEPT !.removed = {"b"}], [NewSlug EXCEPT !.safe = {".", " "}],
               [NewSlug EXCEPT !.saveOrder = TRUE, !.stopwords = {<<"a">>}],
               [NewSlug EXCEPT !.separator = <<"endash">>, !.maxLength = 5],
               [NewSlug EXCEPT !.replacements = << <<<<"a", "b">>, <<" ">> >>, <<<<"b">>, <<"adots">> >> >>],
               [NewSlug EXCEPT !.replacements = << <<<<"dots">>, <<"a">> >> >>, !.allowUnicode = TRUE]}
Words4 == Pieced(Single({"a", "b", " "}), 4)
Marked == Pieced(Single({"a", "A", "dots", "cysha", "zwj", " ", "kelvin"}), 3)
          \cup Pieced(Single({"a", "dots", "zwj", " "}), 4)
          \cup Pieced(Single({"kiyeok", "jungA", "a", "tdots"}), 3)
Entities == {h \o d \o t : h \in {<<"&", "#", "x">>, <<"&", "#">>, <<"&", "a">>},
                           d \in Pieced(Single({"E", "4", "1", "6", "dots"}), 3), t \in {<<>>, <<";", "a">>}}
            \cup {<<"&", "a", "m", "p", ";">>, <<"&", "a", "m", "p", ";", "#", "9", "7", ";">>}
SlugCalls == {Asked("slugify", Words4, WordSlugs), Asked("slugify", Marked, MarkSlugs),
                    Asked("slugify", Words4 \cup Marked, OtherSlugs),
                    Asked("slugify", Entities, {NewSlug, [NewSlug EXCEPT !.allowUnicode = TRUE]})}

\* File names: the separators bring dots, letters of the text and the device name itself.
PlainPieces == {<<"x">>, <<".">>, <<" ">>, <<"*">>, <<"_">>, Con}
ForeignPieces == {<<"x">>, <<".">>, <<"%">>, <<"ellipsis">>, <<"fullpercent">>, <<"unassigned">>, Con}
Runs == {<<"x">> \o Times(p, 9) \o t :
           p \in {<<".", "*">>, <<"*", ".">>, <<"_", ".">>, <<" ", "*", ".">>, Con \o <<".">>},
           t \in {<<>>, <<"x">>, <<".", "x">>}}
Windows(separators, max) ==
  [separator : separators, maxLength : max, platform : {"universal"}, preserve : BOOLEAN, lang : {"none"}]
Posix == [separator : {<<"_">>, <<"*">>}, maxLength : {5}, platform : {"posix"}, preserve : BOOLEAN, lang : {"auto"}]
NameCalls ==
  {Asked("sanitize_filename", Pieced(PlainPieces, 3) \cup Runs,
         Windows({<<>>, <<".">>, <<"x">>, <<"_", "x">>, <<".", "_">>, Con}, {0, 5})),
   Asked("sanitize_filename", Pieced(ForeignPieces, 3), Windows({<<"_">>}, {0, 3, 6}) \cup Posix),
   Asked("sanitize_filename", Pieced(PlainPieces, 4), Windows({<<>>}, {5})),
   Asked("sanitize_filename", Pieced(PlainPieces, 2) \cup Runs, Windows({<<" ">>, <<"_">>, <<"_", " ">>}, {0, 6}))}

\* Hosts.
InLabel == {"a", "x", "cya", "cyer", "dots", "alef", "zwsp", "rlo", "fulla", "circled", "fullpercent", "kelvin",
            "ka", "bian", "shy", "vs16", "pua", "filler", "unassigned", "omega", "lrm"}
Hosts == Pieced(Single(InLabel), 2)
         \cup {h \o <<sep>> \o t : h \in Single(InLabel), sep \in MCLabelSeparators, t \in Single(InLabel) \cup {<<>>}}
         \cup {<<"r", "n">>, <<"r", "zwsp", "n">>, <<"r", ".", "n">>, <<"v", "v", "v">>, <<"x", "n", "-", "-", "1">>, <<"x", "n", "-", "-", "2">>,
               <<"X", "n", "-", "-", "1", ".", "a">>, <<"[", "1", ":", "a", "%", "b", "]">>,
               <<"[", "a", "]">>, <<"cya", "dots", ".", "a", "dots">>}
HostCalls == {Asked("hostname", Hosts, BOOLEAN)}

\* Context: two dictionaries, one of which may be gone, corrupt or another.
File(unigrams, bigrams) ==
  [magic |-> "TRLD", version |-> 1, unigramOffset |-> 24, bigramOffset |-> 64, unigramCount |-> Len(unigrams),
   bigramCount |-> Len(bigrams), unigrams |-> unigrams, bigrams |-> bigrams]
HebrewFile == File(<<[skeleton |-> <<"bet">>, forms |-> <<>>],
                     [skeleton |-> <<"alef">>, forms |-> << <<"alef", "qamats">>, <<"alef", "bet">> >>],
                     [skeleton |-> <<"alef">>, forms |-> << <<"bet">> >>]>>,
                   <<[prev |-> <<"bet">>, curr |-> <<"alef">>, form |-> <<"alef", "bet">>],
                     [prev |-> <<"alef">>, curr |-> <<"bet">>, form |-> <<"bet", "qamats">>],
                     [prev |-> <<"bet">>, curr |-> <<"alef">>, form |-> <<"bet">>]>>)
ArabicFile == File(<<[skeleton |-> <<"ba">>, forms |-> << <<"ba", "fatha">> >>]>>, <<>>)
PersianFile == File(<<[skeleton |-> <<"pe">>, forms |-> << <<"pe", "fatha">> >>]>>,
                    <<[prev |-> <<"pe">>, curr |-> <<"ba">>, form |-> <<"ba">>]>>)
MCFiles == [hebrew |-> << <<HebrewFile>> >>, arabic |-> << <<>>, <<ArabicFile>> >>, persian |-> << <<PersianFile>> >>]
Malformed == {[PersianFile EXCEPT !.magic = "none"], [PersianFile EXCEPT !.version = 2],
              [PersianFile EXCEPT !.unigramOffset = 8], [PersianFile EXCEPT !.bigramOffset = 20],
              [PersianFile EXCEPT !.unigramCount = 2], [PersianFile EXCEPT !.bigramCount = 2]}
MCDisks == {MCFiles, [MCFiles EXCEPT !.persian = << <<>> >>],
            [MCFiles EXCEPT !.arabic = << <<>> >>]}
           \cup {[MCFiles EXCEPT !.persian = << <<f>>, <<PersianFile>> >>] : f \in Malformed}
           \cup {[MCFiles EXCEPT !.arabic = << <<[ArabicFile EXCEPT !.unigramCount = 0]>>, <<ArabicFile>> >>]}
How(lang) == [lang |-> lang, errors |-> "ignore", replacement |-> <<>>]
ContextCalls ==
  {Asked("context", Pieced({<<"alef">>, <<"bet">>, <<"qamats">>, <<" ">>, <<".">>, <<"lf">>}, 4), {How("he")}),
   Asked("context", Pieced({<<"ba">>, <<"pe">>, <<"fatha">>, <<" ">>, <<"arquestion">>}, 4), {How("fa"), How("auto")})}
MCFileCalls == Asked("context", {<<"pe">>, <<"ba">>}, {How("fa")}) \cup Asked("context", {<<"ba">>}, {How("ar")})

\* Detection.
ScriptCalls == {Asked("scripts", Pieced(Single({"a", "cya", "yi", "alef", "ba", "pe", "bian", "ka", "ga", "bopo", "sharps",
                                               " ", "-", "tatweel"}), 3), {{}})}
FoldCalls == {Asked("confusables", Pieced(Single({"a", "cya", "dots", "|", "kelvin", "fulla", "1", "yi", "kiyeok",
                                                 "jungA", "odots"}), 3), {{}, {"Cyrillic"}})}
Values == {<<"a">>, <<"A">>, <<"cya">>, <<"fulla">>, <<"cyadots">>, <<"cya", "dots">>}
CollisionCalls == {Asked("collisions", BoundedSeq(Values, 3) \cup {<< <<"a">>, <<"A">>, <<"a">>, <<"A">> >>},
                        {"fold_case", "normalize_confusables"})}

\* Pieces: short texts and runs of marks.
CappedForms == {[form |-> "NFC", cap |-> n] : n \in {1, 2}}
Normals == {[form |-> f, cap |-> 1] : f \in {"NFC", "NFD", "NFKC", "NFKD"}} \cup {[form |-> "NFC", cap |-> n] : n \in {0, 2, 3}}
NormalCalls == {Asked("normalize", Pieced(Single({"a", "adots", "dots", "underline", "cgj", "kiyeok", "jungA", "ga",
                                                  "fulla", "alefqamats"}), 3), CappedForms),
                Asked("normalize", Pieced(Single({"adots", "dots", "underline", "strike", "jungA", "ga", "kelvin"}), 2), Normals),
                Asked("normalize", {<<"a">> \o s : s \in Sized({"dots", "underline", "cgj", "a"}, 4, 5)},
                      {[form |-> "NFC", cap |-> n] : n \in {1, 3}})}
WidthCalls == {Asked("width", Pieced(Single({"a", "1", "adots", "sharps", "dots", "ka", "kiyeok", "jungA", "heart", "vs16",
                                             "keycap", "zwj", "face", "riA", "number"}), 3),
                     [ambiguousWide : {FALSE}, max : {1}]),
               Asked("width", Pieced(Single({"a", "sharps", "riA", "number", "vs15", "ga", "lf"}), 3), [ambiguousWide : {TRUE}, max : {2}])}
PunctuationCalls == {Asked("punctuation", Pieced(Single({"a", "adots", "dots", "endash", "rsquo", "ellipsis", "nbsp", "'"}), 3), {{}})}

\* Sinks, and bytes with the marks of three encodings.
SinkCalls ==
  {Asked("html", Pieced({<<"&">>, <<"<">>, <<">">>, <<"\"">>, <<"'">>, <<";">>, <<"a", "m", "p">>, <<"#", "x", "2", "7">>}, 4), {{}}),
   Asked("percent", BoundedSeq({32, 35, 37, 38, 43, 47, 61, 63, 65, 126, 169, 195}, 3), {"path", "segment", "query", "form"}),
   Asked("log", Pieced(Single({"a", "tab", "lf", "nel", "ls", "bs"}), 3),
         [replacement : {<<>>, <<" ">>, <<"tab">>, <<"a", "lf">>}, keepTab : BOOLEAN])}
Sizes == {0, 65, 169, 187, 191, 195, 239, 254, 255}
Marks3 == {<<>>, <<239, 187, 191>>, <<254, 255>>, <<255, 254>>}
Unsent == [label : {"none", "utf-8", "utf-16", "utf-16le", "utf-16be", "unicodefeff", "windows-1252", "utf-9"},
           minConfidence : {95}, strict : BOOLEAN, sent : {{}}]
SentAs(encoding, text, marked) ==
  Asked("decode", {(IF marked THEN Bom[encoding] ELSE <<>>) \o Encoded(encoding, text)},
        [label : {"none", "utf-8", "utf-16", "utf-16le", "utf-16be", "unicodefeff", "windows-1252"}, minConfidence : {0, 96, 101},
         strict : {TRUE}, sent : {{[encoding |-> encoding, text |-> text, marked |-> marked]}}])
DecodeCalls ==
  {Asked("decode", {m \o s : m \in Marks3, s \in BoundedSeq(Sizes, 2)} \cup BoundedSeq({0, 65, 195, 169}, 4), Unsent)}
  \cup {SentAs(e, t, m) : e \in DOMAIN Bom, t \in Sized({65, 233, 1072}, 1, 3), m \in BOOLEAN}
  \cup {SentAs("windows-1252", t, FALSE) : t \in Sized({65, 254, 255, 239, 187, 191}, 1, 3)}

\* Strings of NUL, characters of one, two and three bytes, and surrogates.
JavaCalls == {{[op |-> "java", text |-> ModifiedUtf8(units), option |-> units]
                : units \in BoundedSeq({0, 65, 233, 8364, 55357, 56832}, 4)}}

ReverseCalls == {Asked("reverse", Pieced(Single({"s", "h", "c"}), 4) \cup Pieced(Single({"s", "h", "y", "a"}), 3), {{}})}

\* Hidden payloads.
Sent(framing, bytes, front, behind) ==
  [op |-> "smuggled", text |-> front \o Hide(framing, bytes) \o behind,
   option |-> [framing |-> framing, bytes |-> bytes]]
Around == {<<>>, <<"a">>}
Stray == UNION {[1..n -> {"zwsp"}] \cup [1..n -> {"zwnj"}] \cup {[i \in 1..n |-> IF i = n THEN "zwnj" ELSE "zwsp"]}
                : n \in 0..7}
Letters == {s \in Sized({33, 40, 63, 64, 97, 126, 32}, 2, 4) :
              s[1] # 32 /\ Last(s) # 32 /\ \A i \in 1..(Len(s) - 1) : ~(s[i] = 32 /\ s[i + 1] = 32)}
SmuggledCalls == {
  {Sent("tags", b, f, t) : b \in Sized({97, 103, 121}, 1, 3), f \in Around, t \in Around \cup {<<"canceltag">>}},
  {Sent("selectors", b, f, t) : b \in Sized({72, 105}, 2, 4), f \in Around \cup {<<"heart", "vs16">>}, t \in Around},
  {Sent("selectors", b, <<>>, t) : b \in Sized({14, 15, 23, 72}, 2, 3), t \in Around},
  {Sent("percent", b, f, t) : b \in Sized({10, 65, 195, 169}, 2, 3), f \in Around, t \in Around},
  {Sent("bytes", b, f, t) : b \in Sized({72, 105, 195, 169}, 1, 3), f \in Around, t \in Around},
  {Sent("letters", b, f, <<>>) : b \in Letters, f \in Around},
  {Sent("zero width", b, f, <<>>) : b \in Sized({65, 72, 105, 32}, 1, 2), f \in Stray},
  {Sent("zero width", b, <<>>, t) : b \in Sized({65, 72, 105, 32}, 1, 2), t \in Stray}}

\* Anomalies: words with a character put in or put for another, with two, and
\* texts that meet the rules of a whole text; then the hidden payloads.
PutIn(w, C) == {InsertAt(w, i, c) : i \in 1..(Len(w) + 1), c \in C}
PutFor(w, C) == {ReplaceAt(w, i, c) : i \in DOMAIN w, c \in C}
Hiding == {"strike", "bs", "cr", "zwj", "shy", "vs16", "pua", "fulla", "alef", "taga"}
Struck(w, m) == FlattenSeq([i \in DOMAIN w |-> <<w[i], m>>])
Whole == {Times(<<"a", c>>, n) : c \in {"vs1", "cgj", "pua", "zwj", "vsH"}, n \in {7, 8}}
         \cup {Times(<<c>>, n) : c \in {"zwsp", "pua", "shy", "nonchar", "taga"}, n \in {1, 4, 8}}
         \cup {FlattenSeq([i \in 1..n |-> <<"bian", <<"ivs0", "ivs1", "ivs2", "ivs3", "ivs4", "ivs5", "ivs6", "ivs7">>[i]>>])
               : n \in {7, 8}}
         \cup {Pay \o <<"cr">> \o Times(<<" ">>, n) \o t : n \in 0..4, t \in {<<>>, <<"a">>, <<"lf">>}}
         \cup {Struck(w, m) : w \in MCLexiconWords, m \in {"strike", "underline", "overlay", "dots", "circle"}}
         \cup {Struck(w, "strike") : w \in Sized({"a", "|", "1"}, 2, 3)}
         \cup {Struck(Pay, "underline") \o <<c>> : c \in {"a", "shy", "zwsp", "-"}}
         \cup {<<"p", "strike", c, "a", "strike", "y">> : c \in MCUndrawn \cup {"bs"}}
         \cup {<<"p", c, "a", c, "p", c, "a", c, "l">> : c \in {"-", "endash", "nbsp", ".", "_", " ", "rsquo"}}
         \cup {<<"p", "a", c, "p", "a", "l">> : c \in MCWhite}
         \cup {<<"p", "4", "y">>, <<"p", "@", "y", "!">>, <<"p", "4", "p", "4", "|">>, <<"1", "s", "t">>,
               <<"p", "a", "p", "a", "l", "1">>, <<"4", "p", "a", "p", "l">>, <<"cyer", "cya", "cyer", "cya">>,
               <<"capP", "capA", "capP", "capA", "capL">>, <<"fulla", "fulla", "fulla", "fulla">>,
               <<"1", "vs16", "keycap">>, <<"cya", "cymark", "cya", "cymark">>, <<"p", "circle", "a", "circle">>,
               <<"k", "omega">>, <<"bian", "fullbang", "a">>, <<"1", "arone">>, <<"flag", "tagg", "canceltag">>,
               <<"taga", "tagg", "tagy">>, <<"p", "dots", "dots">>}
AnomalyTexts == PutIn(Pay, MCChars) \cup PutFor(Papal, MCChars) \cup UNION {PutIn(t, Hiding) : t \in PutIn(Pay, Hiding)}
                \cup Whole
HiddenIn(framing, messages, fronts, behinds) ==
  {LET sent == Sent(framing, b, f, t)
   IN [op |-> "anomalies", text |-> sent.text, option |-> {sent.option}]
     : b \in messages, f \in fronts, t \in behinds}
HiddenCalls == {
  HiddenIn("tags", Sized({97, 121}, 1, 2), Around, {<<>>, <<"canceltag">>}),
  HiddenIn("selectors", Sized({14, 23, 72}, 2, 2), Around, Around),
  HiddenIn("percent", Sized({10, 65, 169}, 2, 2), Around, Around),
  HiddenIn("bytes", {<<72, 105>>, <<105>>, <<195, 169>>}, Around, Around),
  HiddenIn("letters", Sized({33, 64, 97}, 2, 2) \cup {<<64, 33, 64>>, <<97, 32, 64>>}, Around, {<<>>}),
  HiddenIn("zero width", {<<72>>, <<72, 105>>}, Stray, {<<>>}),
  HiddenIn("zero width", {<<105>>, <<65, 32>>}, {<<>>}, Stray)}
AnomalyCalls == {Asked("anomalies", AnomalyTexts, {{}})} \cup HiddenCalls

MCCalls == SlugCalls \cup NameCalls \cup HostCalls \cup ContextCalls \cup ScriptCalls \cup FoldCalls
           \cup NormalCalls \cup WidthCalls \cup PunctuationCalls \cup SinkCalls \cup DecodeCalls \cup JavaCalls
           \cup CollisionCalls \cup ReverseCalls \cup SmuggledCalls \cup AnomalyCalls
=============================================================================
