----------------------------- MODULE Composition ----------------------------
(***************************************************************************)
(* Canonical composition at lookup (compose.rs) over an alphabet whose     *)
(* Unicode data are constants.  The tables of confusable and of            *)
(* transliteration rows are keyed by precomposed characters; composed()    *)
(* brings a decomposed cluster to the character a row has.  The normal     *)
(* forms themselves are the unicode-normalization crate's.                 *)
(***************************************************************************)
EXTENDS Characters

CONSTANTS
  Ccc,           \* canonical combining class of every character
  Canonical,     \* full canonical decomposition of every character
  Compatible,    \* full compatibility decomposition of every character
  Composite,     \* <<first, second>> to the primary composite, Hangul included
  Excluded,      \* NFC string to the composition-excluded character it came from
  HangulL, HangulV, HangulT,
  Backward       \* starters that compose with the starter before (U+16D67)

ASSUME CompositionAssumption ==
  /\ Marks \cup HangulL \cup HangulV \cup HangulT \cup Backward \subseteq Chars
  /\ Ccc \in [Chars -> Nat]
  /\ Canonical \in [Chars -> Seq(Chars)] /\ Compatible \in [Chars -> Seq(Chars)]
  /\ DOMAIN Composite \subseteq Chars \X Chars

-----------------------------------------------------------------------------
(***************************************************************************)
(* Normal forms.                                                           *)
(***************************************************************************)
\* A mark moves left past the marks of a higher class, never past an equal one.
Insert(s, c) ==
  LET stops == {i \in DOMAIN s : Ccc[s[i]] = 0 \/ Ccc[s[i]] <= Ccc[c]}
      after == CHOOSE i \in stops \cup {0} : \A j \in stops : j <= i
  IN IF Ccc[c] = 0 THEN Append(s, c) ELSE InsertAt(s, after + 1, c)

Ordered(s) == FoldLeft(Insert, <<>>, s)

\* One character joins what is composed so far: `starter` is the place of the
\* last starter, `last` the class of the character after which c comes, -1 when
\* c is right behind the starter.
ComposeWith(acc, c) ==
  LET pair == <<acc.out[acc.starter], c>>
      open == acc.starter > 0 /\ acc.last < Ccc[c]
  IN IF open /\ pair \in DOMAIN Composite
     THEN [acc EXCEPT !.out[acc.starter] = Composite[pair]]
     ELSE [out |-> Append(acc.out, c),
           starter |-> IF Ccc[c] = 0 THEN Len(acc.out) + 1 ELSE acc.starter,
           last |-> IF Ccc[c] = 0 THEN -1 ELSE Ccc[c]]

Compose(s) == FoldLeft(ComposeWith, [out |-> <<>>, starter |-> 0, last |-> -1], s).out

Expand(map, s) == FlattenSeq([i \in DOMAIN s |-> map[s[i]]])

NFD(s) == Ordered(Expand(Canonical, s))
NFC(s) == Compose(NFD(s))
NFKC(s) == Compose(Ordered(Expand(Compatible, s)))

-----------------------------------------------------------------------------
(***************************************************************************)
(* composed(): cluster by cluster, composing and never decomposing a       *)
(* character that stands alone.                                            *)
(***************************************************************************)
IsFollower(c) == c \in Marks \cup Backward

\* Mutant: the gate sees marks only, as before conjoining jamo were composed.
CouldComposeMarksOnly(c) == c \in Marks
CouldCompose(c) == c \in Marks \cup HangulL \cup Backward

NeedsComposition(s) == \E i \in DOMAIN s : CouldCompose(s[i])
StartsUnit(c) == ~IsFollower(c) /\ c \notin HangulV \cup HangulT

\* Is s[i] there and in C?
Here(s, i, C) == i \in DOMAIN s /\ s[i] \in C

\* The last place of the unit that starts at i: a syllable, or an anchor and
\* the followers behind it.
UnitEnd(s, i) ==
  IF s[i] \in HangulL /\ Here(s, i + 1, HangulV)
  THEN IF Here(s, i + 2, HangulT) THEN i + 2 ELSE i + 1
  ELSE CHOOSE e \in i..Len(s) :
         /\ \A j \in (i + 1)..e : IsFollower(s[j])
         /\ e = Len(s) \/ ~IsFollower(s[e + 1])

\* Greedily, the longest excluded key at each place.
RecomposeExcluded(s) ==
  LET keys(i) == {n \in 2..(Len(s) - i + 1) : SubSeq(s, i, i + n - 1) \in DOMAIN Excluded}
      longest(i) == CHOOSE n \in keys(i) : \A m \in keys(i) : m <= n
      from[i \in 1..(Len(s) + 1)] ==
        IF i > Len(s) THEN <<>>
        ELSE IF keys(i) = {} THEN <<s[i]>> \o from[i + 1]
        ELSE <<Excluded[SubSeq(s, i, i + longest(i) - 1)]>> \o from[i + longest(i)]
  IN from[1]

Unit(s) ==
  IF Len(s) = 1 THEN s
  ELSE IF s[1] \in HangulL /\ s[2] \in HangulV THEN Compose(s)
  ELSE RecomposeExcluded(NFC(s))

CutInUnits(s) ==
  LET from[i \in 1..(Len(s) + 1)] ==
        IF i > Len(s) THEN <<>>
        ELSE <<SubSeq(s, i, UnitEnd(s, i))>> \o from[UnitEnd(s, i) + 1]
  IN from[1]

Composed(s) == FoldLeft(LAMBDA out, unit : out \o Unit(unit), <<>>, CutInUnits(s))
=============================================================================
