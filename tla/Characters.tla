----------------------------- MODULE Characters -----------------------------
(***************************************************************************)
(* The alphabet a text is a sequence over, and what every component asks   *)
(* of a character: is it a mark, is it ASCII, does it continue a word.     *)
(***************************************************************************)
EXTENDS Integers, SequencesExt, FiniteSetsExt

CONSTANTS
  Chars,
  Marks,         \* General_Category=Mark, spacing marks (class 0) included
  AsciiChars,
  Alphanumeric,  \* char::is_alphanumeric
  Space,         \* U+0020
  Lower,         \* to_lowercase of the characters it changes
  Joiners        \* U+200C and U+200D

ASSUME CharactersAssumption ==
  /\ Marks \cup AsciiChars \cup Alphanumeric \cup Joiners \cup {Space} \subseteq Chars
  /\ Space \in AsciiChars
  /\ DOMAIN Lower \subseteq Chars

Lowercase(s) == FlattenSeq([i \in DOMAIN s |-> IF s[i] \in DOMAIN Lower THEN Lower[s[i]] ELSE <<s[i]>>])

\* What is left of s without the characters of C at its ends.
Trimmed(s, C) ==
  LET kept == {i \in DOMAIN s : s[i] \notin C}
  IN IF kept = {} THEN <<>> ELSE SubSeq(s, Min(kept), Max(kept))

\* At most n passes, none once a pass changes nothing.
Iterate(pass(_), n, s) ==
  LET another(pair, i) == IF pair[1] = pair[2] THEN pair ELSE <<pair[2], pass(pair[2])>>
  IN FoldLeft(another, <<<<>>, s>>, [i \in 1..n |-> i])[2]

IsAscii(s) == \A i \in DOMAIN s : s[i] \in AsciiChars
=============================================================================
