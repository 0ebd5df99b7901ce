--------------------------- MODULE MCRegistration ---------------------------
(* Small instances of Registration: which calls the threads may make.      *)
EXTENDS Registration, TLC

CONSTANTS l1, l2, m1, m2, k1, k2, v1, v2

Replacing(pairs) ==
  [op |-> "register_replacements",
   new |-> [k \in Keys |-> IF k \in DOMAIN pairs THEN pairs[k] ELSE Absent]]

Registering(l, m) == [op |-> "register_lang", lang |-> l, map |-> m]

\* Two languages for one slot, an overwrite, a bad map; one key, two keys and
\* the empty key for two places; remove, clear, seal.
MCCalls ==
  {Registering(l1, m1), Registering(l1, m2), Registering(l1, BadMap), Registering(l2, m1)}
    \cup {Replacing(k1 :> v1), Replacing(k1 :> v2 @@ k2 :> v1), Replacing(EmptyKey :> v1)}
    \cup {[op |-> "remove_replacement", key |-> k1]}
    \cup ClearCalls \cup SealCalls
=============================================================================
