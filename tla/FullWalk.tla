------------------------------ MODULE FullWalk ------------------------------
(***************************************************************************)
(* What UniqueSlugifier promises: each call walks the candidates of its    *)
(* base from counter 0, skips those it has given before, asks check about  *)
(* every other one in turn, and gives out the first that check accepts.    *)
(* Nothing is remembered between calls but the slugs given.                *)
(***************************************************************************)
EXTENDS Integers

CONSTANTS
  Candidate(_, _),     \* of a base and a counter, or NoRoom for it
  NoRoom,
  Bases,               \* the slugs, not empty, of the texts callers pass
  MAX_UNIQUE_ATTEMPTS, \* limits.rs: 10 000
  HasCheck             \* whether a check callback is configured

VARIABLES seen, phase, base, next, attempts, outcome

vars == <<seen, phase, base, next, attempts, outcome>>

Init ==
  /\ seen = {}
  /\ phase = "idle"
  /\ base = <<>>
  /\ next = 0
  /\ attempts = 0
  /\ outcome = <<>>

Finish(o) == phase' = "done" /\ outcome' = o

Call(b) ==
  /\ phase = "idle"
  /\ base' = b
  /\ IF b = <<>> THEN Finish(<<"slug", <<>>>>) ELSE phase' = "walk" /\ UNCHANGED outcome
  /\ UNCHANGED <<seen, next, attempts>>

\* On to the first counter whose candidate has not been given, NoRoom included.
WalkOn ==
  /\ phase = "walk"
  /\ next' \in Nat /\ next <= next'
  /\ Candidate(base, next') \notin seen
  /\ \A k \in next..(next' - 1) : Candidate(base, k) \in seen

Ask ==
  /\ WalkOn
  /\ Candidate(base, next') # NoRoom
  /\ attempts <= MAX_UNIQUE_ATTEMPTS
  /\ phase' = "ask"
  /\ attempts' = attempts + 1
  /\ UNCHANGED <<seen, base, outcome>>

NoCandidate ==
  /\ WalkOn
  /\ Candidate(base, next') = NoRoom
  /\ Finish(<<"max_length_too_small">>)
  /\ UNCHANGED <<seen, base, attempts>>

TooManyAttempts ==
  /\ WalkOn
  /\ Candidate(base, next') # NoRoom
  /\ attempts > MAX_UNIQUE_ATTEMPTS
  /\ Finish(<<"attempts_exceeded">>)
  /\ UNCHANGED <<seen, base, attempts>>

Accept ==
  /\ phase = "ask"
  /\ seen' = seen \cup {Candidate(base, next)}
  /\ Finish(<<"slug", Candidate(base, next)>>)
  /\ UNCHANGED <<base, next, attempts>>

Refuse ==
  /\ phase = "ask" /\ HasCheck
  /\ phase' = "walk"
  /\ next' = next + 1
  /\ UNCHANGED <<seen, base, attempts, outcome>>

Raise ==
  /\ phase = "ask" /\ HasCheck
  /\ Finish(<<"raised">>)
  /\ UNCHANGED <<seen, base, next, attempts>>

Return ==
  /\ phase = "done"
  /\ phase' = "idle"
  /\ base' = <<>> /\ next' = 0 /\ attempts' = 0 /\ outcome' = <<>>
  /\ UNCHANGED seen

Reset ==
  /\ phase = "idle"
  /\ seen' = {}
  /\ UNCHANGED <<phase, base, next, attempts, outcome>>

Next ==
  \/ \E b \in Bases \cup {<<>>} : Call(b)   \* <<>>: the text has no slug
  \/ Ask \/ NoCandidate \/ TooManyAttempts \/ Accept \/ Refuse \/ Raise
  \/ Return \/ Reset

Spec == Init /\ [][Next]_vars
=============================================================================
