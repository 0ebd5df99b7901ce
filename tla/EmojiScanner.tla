---------------------------- MODULE EmojiScanner ----------------------------
(***************************************************************************)
(* The two emoji operations of a text, turn by turn: replace_emoji, and    *)
(* demojize with a Python provider, whose loop is written apart from the   *)
(* core's (py/emoji.rs).  The core's own loop is Demojize.                 *)
(*                                                                         *)
(*   text, op, how, replacement, provider    the call                      *)
(*   phase, scan                             what is read and written      *)
(*   names                                   where names stand in the      *)
(*                                           output; the code keeps none   *)
(***************************************************************************)
EXTENDS Emoji

CONSTANTS
  Texts,
  Hows,          \* the naming calls
  Replacements,  \* the strings replace_emoji is given
  Providers      \* each a partial function from sequences to a name or Raises

VARIABLES text, op, how, replacement, provider, phase, scan, names

call == <<text, op, how, replacement, provider>>
vars == <<call, phase, scan, names>>

Init ==
  /\ text \in Texts
  /\ \/ /\ op = "replace" /\ replacement \in Replacements
        /\ how = Naming(FALSE, {}, "drop", <<>>) /\ provider = <<>>
     \/ /\ op = "name" /\ how \in Hows
        /\ provider \in IF how.skips = {} THEN Providers ELSE {<<>>}
        /\ replacement = <<>>
  /\ phase = "call" /\ scan = NewScan(text) /\ names = {}

\* A provider is asked for the Python function only, which skips no row.
Python == op = "name" /\ how.skips = {}

AsciiText ==
  /\ phase = "call" /\ IsAscii(text)
  /\ phase' = "done" /\ scan' = [scan EXCEPT !.out = text]
  /\ UNCHANGED <<call, names>>

Core ==
  /\ phase = "call" /\ ~IsAscii(text) /\ op = "name" /\ ~Python
  /\ phase' = "done" /\ scan' = [scan EXCEPT !.out = Demojize(how, text)]
  /\ UNCHANGED <<call, names>>

Begin ==
  /\ phase = "call" /\ ~IsAscii(text) /\ (op = "replace" \/ Python)
  /\ phase' = "scan"
  /\ UNCHANGED <<call, scan, names>>

Scanning(kind) == phase = "scan" /\ op = kind /\ scan.win.chars # <<>>

Turn(st) == scan' = st /\ UNCHANGED <<call, phase>>

-----------------------------------------------------------------------------
\* replace_emoji
ReplaceOne ==
  /\ Scanning("replace")
  /\ \E peek \in {Peek(scan.win)} :
       /\ peek[1] > 0
       /\ \E out \in {scan.out \o replacement} :
            Turn([scan EXCEPT !.win = CloseSeam(Advance(peek[2], peek[1]), out), !.out = out])
  /\ UNCHANGED names

CopyOne ==
  /\ Scanning("replace") /\ Peek(scan.win)[1] = 0
  /\ Turn([scan EXCEPT !.win = Advance(@, 1), !.out = Append(@, Current(scan))])
  /\ UNCHANGED names

-----------------------------------------------------------------------------
(***************************************************************************)
(* The provider is asked for the longest sequence first; when it raises it *)
(* is given up at this place.                                              *)
(***************************************************************************)
Provided(s) ==
  LET known == {n \in 1..AtMost(MAX_EMOJI_SEQ_LEN, Len(s)) : SubSeq(s, 1, n) \in DOMAIN provider}
      n == CHOOSE n \in known : \A k \in known : k <= n
  IN IF known = {} \/ provider[SubSeq(s, 1, n)] = Raises THEN <<>>
     ELSE <<provider[SubSeq(s, 1, n)], n>>

\* A keycap's base claimed alone takes its keycap along.
Claimed(s, n) ==
  IF n = 1 /\ s[1] \in KeycapBases /\ PresentationLen(s) > 0 THEN PresentationLen(s) ELSE n

Window == scan.win.chars

\* A name goes behind what is written, apart from it.
Names(name, consumed) ==
  /\ Turn(WriteName(scan, name, consumed))
  /\ names' = names \cup {<<Len(PadReplacement(scan.out, name)) - Len(name) + 1,
                           Len(PadReplacement(scan.out, name))>>}

Skip ==
  /\ Scanning("name") /\ Current(scan) \in Invisibles
  /\ Turn(SkipInvisible(scan)) /\ UNCHANGED names

Ask ==
  /\ Scanning("name") /\ Current(scan) \notin Invisibles
  /\ Provided(Window) # <<>>
  /\ Names(Provided(Window)[1], Claimed(Window, Provided(Window)[2]))

Unclaimed == Scanning("name") /\ Current(scan) \notin Invisibles /\ Provided(Window) = <<>>

Name ==
  /\ Unclaimed /\ MatchEmoji(Window) # <<>>
  /\ Names(NameOf(how, MatchEmoji(Window)), MatchEmoji(Window)[2])

Unnamed(consumed) == WriteUnnamed(how, scan, consumed)

NoName ==
  /\ Unclaimed /\ MatchEmoji(Window) = <<>> /\ UnnamedLen(Window) > 0
  /\ Turn(Unnamed(UnnamedLen(Window))) /\ UNCHANGED names

PassThrough ==
  /\ Unclaimed /\ MatchEmoji(Window) = <<>> /\ UnnamedLen(Window) = 0
  /\ Turn(EmitPlain(scan)) /\ UNCHANGED names

Finish ==
  /\ phase = "scan" /\ scan.win.chars = <<>>
  /\ phase' = "done"
  /\ UNCHANGED <<call, scan, names>>

Next ==
  \/ AsciiText \/ Core \/ Begin \/ ReplaceOne \/ CopyOne
  \/ Skip \/ Ask \/ Name \/ NoName \/ PassThrough \/ Finish

Spec == Init /\ [][Next]_vars

-----------------------------------------------------------------------------
\* The text as a window of any size would have it replaced: what is at the
\* cursor, judged with all of the text behind it.
ReplacedWhole ==
  LET turn(st, i) ==
        IF st.left = <<>> THEN st
        ELSE IF PresentationLen(st.left) = 0
        THEN [out |-> Append(st.out, st.left[1]), left |-> From(st.left, 2)]
        ELSE LET out == st.out \o replacement
                 w == [chars |-> <<>>, pushback |-> <<>>,
                       rest |-> From(st.left, PresentationLen(st.left) + 1)]
             IN [out |-> out, left |-> Stream(CloseSeam(w, out))]
  IN FoldLeft(turn, [out |-> <<>>, left |-> text], [i \in DOMAIN text |-> i]).out

\* However long a joiner chain is, one emoji takes one replacement and nothing
\* behind it is lost: the window and what a peek pulls leave no trace.
WindowInvisible ==
  op = "replace" /\ phase = "done" => scan.out = ReplacedWhole

\* What an answer still holds at place i that replace_emoji would take.
Left(s) == {i \in DOMAIN s : PresentationLen(From(s, i)) > 0}

\* Taking an emoji out brings its neighbours together, and no emoji comes of it:
\* nothing is left that a second call would replace, or drop.
NothingManufactured ==
  phase = "done" /\ how.unnamed # "preserve" => Left(scan.out) = {}

\* A name is a word of its own: no letter, mark or symbol that folds to a letter
\* is attached to it, whatever was dropped between them.
NamesStandApart ==
  \A n \in names :
    /\ n[1] = 1 \/ scan.out[n[1] - 1] \in Whitespace
    /\ n[2] < Len(scan.out) =>
         scan.out[n[2] + 1] \notin Alphanumeric \cup Marks \cup FoldsToWord

\* The two loops agree: with a provider that knows nothing of the text, or only
\* raises, Python's answer is the core's.
LoopsAgree ==
  /\ Python /\ phase = "done"
  /\ \A i \in DOMAIN text, n \in 1..MAX_EMOJI_SEQ_LEN :
       i + n - 1 <= Len(text) /\ SubSeq(text, i, i + n - 1) \in DOMAIN provider =>
         provider[SubSeq(text, i, i + n - 1)] = Raises
  => scan.out = Demojize(how, text)

\* A selector written straight behind an emoji's base, as the fully qualified
\* spelling has it, does not change what is named.
QualifiedAlike ==
  LET plain(s) == FlattenSeq([i \in DOMAIN s |->
        IF i > 1 /\ s[i] = Vs16 /\ SelectorMayFollow(s[i - 1]) THEN <<>> ELSE <<s[i]>>])
      single == \A i \in DOMAIN text : Is(text, i, {Vs16}) => ~Is(text, i + 1, {Vs15, Vs16})
  IN single /\ op = "name" /\ phase = "done" /\ provider = <<>> /\ how.unnamed # "preserve" =>
       scan.out = Demojize(how, plain(text))

\* A preset's step leaves what it wrote: no name holds a row it would name.
Settled ==
  op = "name" /\ phase = "done" /\ how.skips # {} => Demojize(how, scan.out) = scan.out

\* The two loops and the window are one scanner.
OneScanner == WindowInvisible /\ LoopsAgree

\* An answer holds no emoji the call has made, nor one it would name again.
AnswerSettled == NothingManufactured /\ Settled

\* A name stands apart, and its selectors do not change it.
NamesSound == NamesStandApart /\ QualifiedAlike
=============================================================================
