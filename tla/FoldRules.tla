------------------------------- MODULE FoldRules -----------------------------
(***************************************************************************)
(* The confusable map and one pass of the fold (confusables.rs): a digit   *)
(* policy chooses among the rows, the form says what a pass does about     *)
(* composition.                                                            *)
(***************************************************************************)
EXTENDS Composition

CONSTANTS
  Rows,           \* the confusable map: character to string
  Tr39Rows,       \* its overrides under the policy "tr39"
  AsciiDigits

ASSUME FoldRulesAssumption ==
  /\ DOMAIN Rows \subseteq Chars /\ DOMAIN Tr39Rows \subseteq Chars
  /\ AsciiDigits \subseteq Chars

Policies == {"numeric", "tr39", "preserve"}

\* Mutant: "preserve" is not consulted.
FoldsDigits(p, c) == c \in DOMAIN Rows \/ (p = "tr39" /\ c \in DOMAIN Tr39Rows)
Folds(p, c) ==
  \/ p = "tr39" /\ c \in DOMAIN Tr39Rows
  \/ c \in DOMAIN Rows /\ ~(p = "preserve" /\ Rows[c] \in {<<d>> : d \in AsciiDigits})

Row(p, c) == IF p = "tr39" /\ c \in DOMAIN Tr39Rows THEN Tr39Rows[c] ELSE Rows[c]

Fold(p, s) == FlattenSeq([i \in DOMAIN s |-> IF Folds(p, s[i]) THEN Row(p, s[i]) ELSE <<s[i]>>])

Pass(p, f, s) ==
  CASE f = "lookup" -> Fold(p, IF NeedsComposition(s) THEN Composed(s) ELSE s)
    [] f = "NFC" -> NFC(Fold(p, s))
    [] f = "NFKC" -> NFKC(Fold(p, s))

\* The fixed point taken a pass at a time: more passes than any text needs.
FixedPoint(p, f, s) == Iterate(LAMBDA t : Pass(p, f, t), 2 * Len(s) + 3, s)
=============================================================================
