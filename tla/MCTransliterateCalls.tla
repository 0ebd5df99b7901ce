------------------------ MODULE MCTransliterateCalls ------------------------
(* A small instance of TransliterateCalls.                                 *)
EXTENDS TransliterateCalls, TLC

CONSTANTS l1, l2, m1, m2, k1, v1

Replacing(pairs) ==
  [op |-> "register_replacements",
   new |-> [k \in Keys |-> IF k \in DOMAIN pairs THEN pairs[k] ELSE Absent]]

MCReadCalls ==
  {Replacing(k1 :> v1), Replacing(EmptyKey :> v1)}
    \cup {[op |-> "remove_replacement", key |-> k1]}
    \cup {[op |-> "register_lang", lang |-> l1, map |-> m] : m \in {m1, m2, BadMap}}
    \cup ClearCalls \cup SealCalls

\* Bound: the two tables share the gate and the seal and nothing else, so a
\* history that fills one of them at most shows every race of either.
OneSide ==
  \/ langs = NoLangs
  \/ table = NoReplacements /\ ~torn

Symmetry == Permutations(Threads)
=============================================================================
