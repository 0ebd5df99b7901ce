----------------------------- MODULE MCBatchCalls ----------------------------
(***************************************************************************)
(* Two threads, chunks of two and caches of one entry: two tables that     *)
(* replace the same keys by other values, two that no automaton is built   *)
(* for, with the empty key before and behind the other, a single pair;     *)
(* lists that fit one chunk, that take two, that are too long, and with an *)
(* item that raises in either chunk.  The text a is the key twice over.    *)
(***************************************************************************)
EXTENDS BatchCalls, TLC

CONSTANTS a, b, hard, key, other, x, y, plain, digits, long, refused

MCLists ==
  {<<a, EmptyText, b>>, <<b, a, hard>>, <<hard, a, NotStr>>, <<hard, NotStr>>, <<a, b, a, b>>}

Here == <<<<key, x>>, <<other, x>>>>
There == <<<<key, y>>, <<other, x>>>>
EmptyFirst == <<<<EmptyKey, x>>, <<key, x>>>>
EmptyLast == <<<<key, x>>, <<EmptyKey, x>>>>
Tables == {<<>>, Here, There, <<<<key, x>>>>, EmptyFirst, EmptyLast}
MCRepetitions == {<<a, key>>}

Asking(op, pattern, pairs) ==
  [op |-> op, text |-> a, lang |-> "en", max_length |-> 0, pattern |-> pattern, pairs |-> pairs]

MCCalls ==
  {Asking("slugify", NoPattern, There), Asking("slugify", plain, <<>>), Asking("slugify", long, <<>>),
   [Asking("slugify", plain, <<>>) EXCEPT !.text = EmptyText],
   Asking("Slugifier", digits, Here), Asking("Slugifier", refused, Here),
   [Asking("Slugifier", plain, There) EXCEPT !.max_length = -1],
   [op |-> "Slugifier.slugify", text |-> b],
   [Asking("slugify", NoPattern, EmptyLast) EXCEPT !.text = b],
   [Asking("slugify_batch", plain, Here) EXCEPT !.lang = "xx"]}
    \cup {Asking("slugify_batch", IF pairs = Here THEN digits ELSE NoPattern, pairs) : pairs \in Tables}
    \cup {[op |-> "transliterate_batch", exclusive |-> mode = "ignore", lang |-> "en", errors |-> mode] :
            mode \in {"strict", "ignore", "unknown"}}
    \cup {[op |-> "normalize_batch", form |-> f] : f \in {"NFC", "unknown"}}
    \cup {[op |-> "strip_accents_batch"]}

\* Bound: an answer is left before the next is given; no step reads one.
OneAnswer == \A t, u \in Threads : call[t].stage = "done" /\ call[u].stage = "done" => t = u

Symmetry == Permutations(Threads)
=============================================================================
