-------------------------------- MODULE Emoji -------------------------------
(***************************************************************************)
(* What an emoji is to disarm (emoji.rs): how long the emoji presentation  *)
(* sequence, or the named sequence, at the start of a text is; the window  *)
(* a scan reads its text through; and the scan that replaces emoji by      *)
(* their names.                                                            *)
(***************************************************************************)
EXTENDS Characters

CONSTANTS
  EmojiPresentation, EmojiYes,   \* Emoji_Presentation=Yes, Emoji=Yes
  EmojiProperty,                 \* Emoji or Extended_Pictographic
  RegionalIndicators, SkinTones, Tags, KeycapBases,
  Zwj, Vs15, Vs16, Keycap,
  SingleNames,                   \* a character's CLDR name
  Sequences,                     \* a sequence's CLDR name, selectors left out
  NonEmojiRows, Tr39ClaimedRows, \* named rows a policy leaves alone
  FoldsToWord,                   \* the Latin confusable starts alphanumeric
  Whitespace,                    \* char::is_whitespace
  NameBreak,                     \* the ": " a modifier's name starts with
  MAX_EMOJI_SEQ_LEN

Invisibles == {Zwj, Vs15, Vs16}

ASSUME EmojiAssumption ==
  /\ EmojiYes \cup EmojiPresentation \cup RegionalIndicators \cup SkinTones \cup KeycapBases
       \subseteq EmojiProperty
  /\ EmojiProperty \cup Tags \cup Invisibles \cup {Keycap} \cup FoldsToWord \cup Whitespace \subseteq Chars
  /\ KeycapBases \subseteq AsciiChars
  /\ NonEmojiRows \cup Tr39ClaimedRows \subseteq DOMAIN SingleNames
  /\ DOMAIN SingleNames \subseteq Chars
  /\ \A k \in DOMAIN Sequences :
       /\ Len(k) \in 2..MAX_EMOJI_SEQ_LEN
       /\ ToSet(k) \cap {Vs15, Vs16} = {} /\ Last(k) # Zwj
  /\ 2 * MAX_EMOJI_SEQ_LEN >= 4

\* What a provider of names does that has none to give and says so.
Raises == <<"raises">>

HEAD_LOOKAHEAD == 3
MAX_WINDOW == 2 * MAX_EMOJI_SEQ_LEN

From(s, i) == SubSeq(s, i, Len(s))
AtMost(m, n) == IF m <= n THEN m ELSE n
Is(s, i, S) == i \in DOMAIN s /\ s[i] \in S

-----------------------------------------------------------------------------
(***************************************************************************)
(* Presentation sequences.  A length of 0 says that none starts here.      *)
(***************************************************************************)
Bound == {Vs15, Vs16} \cup SkinTones \cup Tags

OpensEmojiPresentation(c) == c \in EmojiPresentation \cup RegionalIndicators

\* The first character and what is bound to it: a flag, a keycap, or a base.
HeadLen(s) ==
  LET selected == IF Is(s, 2, {Vs16}) THEN 1 ELSE 0
      ends == {i \in 1..Len(s) : \A j \in 2..i : s[j] \in Bound}
  IN CASE s = <<>> -> 0
       [] Is(s, 1, RegionalIndicators) -> IF Is(s, 2, RegionalIndicators) THEN 2 ELSE 1
       [] Is(s, 1, KeycapBases) -> IF Is(s, 2 + selected, {Keycap}) THEN 2 + selected ELSE 0
       [] OTHER ->
            IF OpensEmojiPresentation(s[1]) \/ (selected = 1 /\ s[1] \in EmojiYes)
            THEN CHOOSE i \in ends : \A j \in ends : j <= i
            ELSE 0

\* One head and the joiner chain hanging off it; flags and keycaps chain nothing.
PresentationLen(s) ==
  LET chain[n \in 1..Len(s)] ==
        IF Is(s, n + 1, Bound) THEN chain[n + 1]
        ELSE IF Is(s, n + 1, {Zwj}) /\ HeadLen(From(s, n + 2)) > 0
        THEN chain[n + 1 + HeadLen(From(s, n + 2))]
        ELSE n
  IN IF HeadLen(s) = 0 \/ s[1] \in RegionalIndicators \cup KeycapBases
     THEN HeadLen(s)
     ELSE chain[HeadLen(s)]

\* An emoji without a name must not need asking; a lone tag goes too.
UnnamedLen(s) ==
  IF s # <<>> /\ OpensEmojiPresentation(s[1]) THEN PresentationLen(s)
  ELSE IF Is(s, 1, Tags) THEN 1 ELSE 0

-----------------------------------------------------------------------------
(***************************************************************************)
(* Names.                                                                  *)
(***************************************************************************)
SelectorMayFollow(c) == c \in EmojiProperty \ (RegionalIndicators \cup SkinTones)

\* Mutant: a key is matched as it is spelled, without its selectors.
NamedLensUnqualified(s) ==
  {n \in 2..Len(s) : s[n] \notin Invisibles /\ SubSeq(s, 1, n) \in DOMAIN Sequences}
\* Lengths at which the walk of the name trie stands on a name: a selector the
\* keys leave out is skipped straight after an emoji base.
NamedLens(s) ==
  {n \in 2..Len(s) :
     /\ s[n] \notin Invisibles /\ s[1] # Vs16
     /\ \A i \in 2..n : s[i] = Vs16 => SelectorMayFollow(s[i - 1])
     /\ SelectSeq(SubSeq(s, 1, n), LAMBDA c : c # Vs16) \in DOMAIN Sequences}

\* The longest name at the start of s and what it takes, <<>> if there is none.
MatchEmoji(s) ==
  LET lens == NamedLens(s)
      n == CHOOSE n \in lens : \A k \in lens : k <= n
      cap == <<s[1], Keycap>>
  IN CASE lens # {} -> <<Sequences[SelectSeq(SubSeq(s, 1, n), LAMBDA c : c # Vs16)], n>>
       [] lens = {} /\ Is(s, 2, {Vs15, Vs16}) /\ Is(s, 3, {Keycap}) /\ cap \in DOMAIN Sequences ->
            <<Sequences[cap], 3>>
       [] OTHER -> IF s[1] \in DOMAIN SingleNames
                   THEN <<SingleNames[s[1]], IF Is(s, 2, {Vs15, Vs16}) THEN 2 ELSE 1>>
                   ELSE <<>>

StripModifierSuffix(name) ==
  LET breaks == {i \in DOMAIN name : name[i] = NameBreak}
  IN IF breaks = {} THEN name
     ELSE SubSeq(name, 1, (CHOOSE i \in breaks : \A j \in breaks : i <= j) - 1)

NeedsSeparator(c) == c \in Alphanumeric \cup Marks \cup FoldsToWord

PadReplacement(out, name) ==
  out \o (IF out # <<>> /\ Last(out) \notin Whitespace THEN <<Space>> ELSE <<>>) \o name

-----------------------------------------------------------------------------
(***************************************************************************)
(* The window: the characters in hand, those a peek has pulled and handed  *)
(* back, and the rest of the text.                                         *)
(***************************************************************************)
Stream(w) == w.chars \o w.pushback \o w.rest

NewWindow(s) ==
  [chars |-> SubSeq(s, 1, AtMost(MAX_WINDOW, Len(s))), pushback |-> <<>>,
   rest |-> From(s, AtMost(MAX_WINDOW, Len(s)) + 1)]

\* Drop n characters and refill, from what was handed back first.
Advance(w, n) ==
  LET left == From(Stream(w), n + 1)
      taken == AtMost(MAX_WINDOW, Len(left))
      pulled == n + taken - Len(w.chars)
      back == AtMost(pulled, Len(w.pushback))
  IN [chars |-> SubSeq(left, 1, taken),
      pushback |-> From(w.pushback, back + 1),
      rest |-> From(w.rest, pulled - back + 1)]

\* Follow a match past the window: scan twice as much until that changes nothing.
Grown(s, scan, len) ==
  LET twice(k) == AtMost(2 * k, Len(s))
      longer(k, n) == IF PresentationLen(SubSeq(s, 1, k)) = 0 THEN n ELSE PresentationLen(SubSeq(s, 1, k))
      grow[k \in 1..Len(s), n \in 1..Len(s)] ==
        IF twice(k) = k THEN <<n, k>>
        ELSE IF longer(twice(k), n) = n THEN <<n, twice(k)>>
        ELSE grow[twice(k), longer(twice(k), n)]
  IN grow[scan, len]

\* Mutant: only what the match declined is handed back.
HandedBackDeclined(w, len, scan) ==
  [w EXCEPT !.pushback = SubSeq(Stream(w), len + 1, scan) \o From(@, scan - Len(w.chars) + 1),
            !.rest = From(@, scan - Len(w.chars) - Len(w.pushback) + 1)]
\* The window after a peek that scanned so much: all it pulled is handed back.
HandedBack(w, len, scan) ==
  LET fresh == scan - Len(w.chars) - Len(w.pushback)
  IN [w EXCEPT !.pushback = IF fresh > 0 THEN @ \o SubSeq(w.rest, 1, fresh) ELSE @,
               !.rest = IF fresh > 0 THEN From(@, fresh + 1) ELSE @]

\* The match is not final: it runs to the edge, or stops at a joiner it could
\* not judge for want of characters behind it.
Unfinished(w, len) ==
  /\ Len(w.chars) = MAX_WINDOW
  /\ len = MAX_WINDOW
     \/ (w.chars[len + 1] = Zwj /\ MAX_WINDOW - (len + 1) < HEAD_LOOKAHEAD)

\* The length of the sequence at the cursor and the window the look leaves.
Peek(w) ==
  LET len == PresentationLen(w.chars)
      end == Grown(Stream(w), MAX_WINDOW, len)
  IN IF len > 0 /\ Unfinished(w, len)
     THEN <<end[1], HandedBack(w, end[1], end[2])>>
     ELSE <<len, w>>

PastModifiers(w) ==
  LET s == Stream(w)
      swept == {n \in 0..Len(s) : \A i \in 1..n : s[i] \in Invisibles \cup SkinTones \cup Tags}
      n == CHOOSE n \in swept : \A k \in swept : k <= n
  IN IF n = 0 THEN w ELSE Advance(w, n)

\* Mutant: the seam looks back at one character of the output.
SeamTailOne(out) == SubSeq(out, Len(out) - AtMost(1, Len(out)) + 1, Len(out))
SeamTail(out) == SubSeq(out, Len(out) - AtMost(HEAD_LOOKAHEAD - 1, Len(out)) + 1, Len(out))

\* Drop the selectors and keycaps that would bind to what precedes them now.
CloseSeam(w, out) ==
  LET tail == SeamTail(out)
      s == Stream(w)
      binds(n) ==
        \E back \in 1..Len(tail) :
          HeadLen(From(tail, Len(tail) - back + 1)
                    \o SubSeq(s, n + 1, AtMost(n + HEAD_LOOKAHEAD - back, Len(s)))) > back
      kept == {n \in DOMAIN s : ~(s[n] \in {Vs15, Vs16, Keycap} /\ binds(n - 1))}
      dropped == Min(kept \cup {Len(s) + 1}) - 1
  IN IF dropped = 0 THEN w ELSE Advance(w, dropped)

-----------------------------------------------------------------------------
(***************************************************************************)
(* The naming scan.  `named` says that an emoji was the last thing written *)
(* and `raw` that it was written as itself.                                *)
(***************************************************************************)
NewScan(s) == [win |-> NewWindow(s), out |-> <<>>, named |-> FALSE, raw |-> FALSE]

\* A call: whether modifiers are stripped off names, the rows left alone, and
\* what is written for an emoji without a name.
Naming(strip, skips, unnamed, with) ==
  [strip |-> strip, skips |-> skips, unnamed |-> unnamed, with |-> with]

NameEverything == {}
PipelineBaseline == NonEmojiRows
ComparisonPolicy == NonEmojiRows \cup Tr39ClaimedRows

MayActAt(c) ==
  \/ c \in Invisibles \cup DOMAIN SingleNames \cup Tags \cup EmojiPresentation \cup RegionalIndicators
  \/ \E k \in DOMAIN Sequences : k[1] = c

Current(st) == st.win.chars[1]

Dropped(st, n) == [st EXCEPT !.win = CloseSeam(Advance(@, n), st.out)]

SkipInvisible(st) == Dropped(st, 1)

\* Write a character of the text, apart from a name before it.
Emit(st, apart) ==
  [win |-> Advance(st.win, 1), named |-> FALSE, raw |-> FALSE,
   out |-> st.out \o (IF apart THEN <<Space>> ELSE <<>>) \o <<Current(st)>>]

EmitPlain(st) ==
  Emit(st, st.named /\ IF st.raw THEN Current(st) \in Alphanumeric ELSE NeedsSeparator(Current(st)))

WriteName(st, name, consumed) ==
  [win |-> PastModifiers(Advance(st.win, consumed)), named |-> TRUE, raw |-> FALSE,
   out |-> PadReplacement(st.out, name)]

NameOf(how, match) == IF how.strip THEN StripModifierSuffix(match[1]) ELSE match[1]

\* Nothing written leaves the flags alone and closes the seam.
WriteUnnamed(how, st, consumed) ==
  LET written == CASE how.unnamed = "drop" -> <<>>
                   [] how.unnamed = "replace" -> how.with
                   [] how.unnamed = "preserve" -> SubSeq(st.win.chars, 1, consumed)
  IN IF written # <<>>
     THEN [win |-> Advance(st.win, consumed), out |-> st.out \o written, named |-> TRUE,
           raw |-> how.unnamed = "preserve"]
     ELSE Dropped(st, consumed)

\* One turn of the loop; a character no table knows is copied without asking
\* when no emoji stands before it.
PassOver(how, st, unnamed) ==
  IF unnamed > 0 THEN WriteUnnamed(how, st, unnamed) ELSE EmitPlain(st)

Replaced(how, st, match) ==
  IF match # <<>> THEN WriteName(st, NameOf(how, match), match[2])
  ELSE PassOver(how, st, UnnamedLen(st.win.chars))

ScanStep(how, st) ==
  LET c == Current(st)
  IN CASE ~st.named /\ ~MayActAt(c) -> Emit(st, FALSE)
       [] (st.named \/ MayActAt(c)) /\ c \in Invisibles -> SkipInvisible(st)
       [] c \in how.skips -> Emit(st, st.named /\ NeedsSeparator(c))
       [] OTHER -> Replaced(how, st, MatchEmoji(st.win.chars))

\* demojize_named: every turn consumes at least one character of the text.
Demojize(how, s) ==
  IF IsAscii(s) THEN s
  ELSE FoldLeft(LAMBDA st, i : IF st.win.chars = <<>> THEN st ELSE ScanStep(how, st),
                NewScan(s), [i \in DOMAIN s |-> i]).out
=============================================================================
