--------------------------- MODULE UniqueSlugifier --------------------------
(***************************************************************************)
(* One UniqueSlugifier shared by threads: the Python wrapper's RLock       *)
(* (_api.py), the exclusive borrow PyO3 takes, and take_first_free over    *)
(* the remembered suffix walk of the base (py/slugify.rs).  check is a     *)
(* Python callback: it may accept, refuse or raise, and while it runs any  *)
(* other thread may run.                                                   *)
(*                                                                         *)
(*   seen, walks      the slugs given, and the walk of each base: `next`   *)
(*                    and the `refused` counters below it                  *)
(*   walk             the walk taken out for the call in progress          *)
(*   phase, base, counter, attempts, outcome    the call in progress       *)
(*   lock, borrowed   holder of the RLock and of the PyO3 borrow           *)
(*   thread           what each thread is doing                            *)
(*   asked            history: where a full walk that has asked as much is *)
(***************************************************************************)
EXTENDS Integers, Sequences, FiniteSets

CONSTANTS
  Separator,   \* config.separator
  MaxLength,   \* config.max_length, 0 for no limit
  Wide,        \* characters of two bytes
  Bases, MAX_UNIQUE_ATTEMPTS, HasCheck, Threads, NoThread,
  MaxSlugs     \* bound: no call begins with this many slugs in seen

ASSUME SlugAssumption ==
  Separator \in Seq(STRING) /\ MaxLength \in Nat /\ Wide \subseteq STRING

ASSUME UniqueSlugifierAssumption ==
  /\ Bases \subseteq Seq(STRING)
  /\ MAX_UNIQUE_ATTEMPTS \in Nat /\ MaxSlugs \in Nat
  /\ HasCheck \in BOOLEAN
  /\ NoThread \notin Threads

-----------------------------------------------------------------------------
(***************************************************************************)
(* The names it may give for a base: the base, then the base with a        *)
(* counted suffix, cut to max_length bytes (slugify.rs).  A slug is a      *)
(* sequence of characters of one byte, or of two if they are Wide, a digit *)
(* the character "0" to "9".                                               *)
(***************************************************************************)
\* No candidate: the suffix leaves no room for one character of the base.
NoRoom == <<"no room">>

Digit(d) == <<"0", "1", "2", "3", "4", "5", "6", "7", "8", "9">>[d + 1]
Decimal[k \in Nat] ==
  IF k < 10 THEN <<Digit(k)>> ELSE Decimal[k \div 10] \o <<Digit(k % 10)>>

Suffix(k) == Separator \o Decimal[k]

IsTrailing(p, s) ==
  Len(p) <= Len(s) /\ SubSeq(s, Len(s) - Len(p) + 1, Len(s)) = p

\* The longest prefix of the separator that s ends with is taken off.
TrimCutTail(s) ==
  LET lengths == {n \in 0..Len(Separator) : IsTrailing(SubSeq(Separator, 1, n), s)}
      longest == CHOOSE n \in lengths : \A m \in lengths : m <= n
  IN SubSeq(s, 1, Len(s) - longest)

Bytes(s) == Len(s) + Cardinality({i \in DOMAIN s : s[i] \in Wide})

\* The head that makes room for a suffix of n bytes, cut between characters.
CutHead(base, n) ==
  LET fits == {k \in 0..Len(base) : k = 0 \/ Bytes(SubSeq(base, 1, k)) + n <= MaxLength}
  IN TrimCutTail(SubSeq(base, 1, CHOOSE k \in fits : \A j \in fits : j <= k))

\* unique_slug_candidate for a base that is not empty.
Candidate(base, k) ==
  LET suffix == Suffix(k)
      head == CutHead(base, Bytes(suffix))
  IN IF k = 0 THEN base
     ELSE IF MaxLength = 0 \/ Bytes(base \o suffix) <= MaxLength THEN base \o suffix
     ELSE IF head = <<>> THEN NoRoom
     ELSE head \o suffix

-----------------------------------------------------------------------------
VARIABLES seen, walks, walk, phase, base, counter, attempts, outcome,
          lock, borrowed, thread, asked

callVars == <<walk, phase, base, counter, attempts, outcome, asked>>
lockVars == <<lock, borrowed, thread>>
vars == <<seen, walks, callVars, lockVars>>

FreshWalk == [next |-> 0, refused |-> {}]
WalkType == [next : Nat, refused : SUBSET Nat]

TypeOK ==
  /\ walks \in [Bases -> WalkType] /\ walk \in WalkType
  /\ phase \in {"idle", "retry", "ask_retry", "loop", "ask_loop", "put_back"}
  /\ base \in Bases \cup {<<>>}
  /\ counter \in Nat /\ attempts \in Nat /\ asked \in Nat
  /\ lock \in Threads \cup {NoThread} /\ borrowed \in Threads \cup {NoThread}
  /\ thread \in [Threads -> {"idle", "locked", "inside", "reentering", "leaving"}]

Init ==
  /\ seen = {}
  /\ walks = [b \in Bases |-> FreshWalk]
  /\ walk = FreshWalk
  /\ phase = "idle" /\ base = <<>> /\ counter = 0 /\ attempts = 0
  /\ outcome = <<>> /\ asked = 0
  /\ lock = NoThread /\ borrowed = NoThread
  /\ thread = [t \in Threads |-> "idle"]

ThreadTo(t, from, to) == thread[t] = from /\ thread' = [thread EXCEPT ![t] = to]

-----------------------------------------------------------------------------
(***************************************************************************)
(* The wrapper: `with self._lock`, then the call that borrows the object.  *)
(***************************************************************************)
Acquire(t) ==
  /\ lock = NoThread
  /\ lock' = t
  /\ ThreadTo(t, "idle", "locked")
  /\ UNCHANGED <<seen, walks, callVars, borrowed>>

\* check calls back into this instance: the RLock lets its own thread in.
Reenter(t) ==
  /\ phase \in {"ask_retry", "ask_loop"} /\ HasCheck
  /\ borrowed = t
  /\ ThreadTo(t, "inside", "reentering")
  /\ UNCHANGED <<seen, walks, callVars, lock, borrowed>>

Call(t, b) ==
  /\ Cardinality(seen) < MaxSlugs
  /\ borrowed = NoThread
  /\ borrowed' = t
  /\ ThreadTo(t, "locked", "inside")
  /\ base' = b
  /\ IF b = <<>>
     THEN phase' = "put_back" /\ outcome' = <<"slug", <<>>>> /\ UNCHANGED <<walk, counter>>
     ELSE /\ phase' = "retry"
          /\ walk' = walks[b]
          /\ counter' = 0
          /\ UNCHANGED outcome
  /\ UNCHANGED <<seen, walks, attempts, asked, lock>>

Reset(t) ==
  /\ borrowed = NoThread
  /\ ThreadTo(t, "locked", "leaving")
  /\ seen' = {}
  /\ walks' = [b \in Bases |-> FreshWalk]
  /\ UNCHANGED <<callVars, lock, borrowed>>

\* The object is borrowed: PyO3 raises RuntimeError and nothing has changed.
AlreadyBorrowed(t) ==
  /\ borrowed # NoThread
  /\ thread[t] \in {"locked", "reentering"}
  /\ ThreadTo(t, thread[t], IF thread[t] = "locked" THEN "leaving" ELSE "inside")
  /\ UNCHANGED <<seen, walks, callVars, lock, borrowed>>

Release(t) ==
  /\ ThreadTo(t, "leaving", "idle")
  /\ lock' = IF lock = t THEN NoThread ELSE lock
  /\ UNCHANGED <<seen, walks, callVars, borrowed>>

-----------------------------------------------------------------------------
(***************************************************************************)
(* take_first_free.  First the counters check refused before, lowest       *)
(* first; `counter` is where that pass stands.                             *)
(***************************************************************************)
InCall == UNCHANGED <<walks, base, lockVars>>
Answers(p) == phase = p /\ \A t \in Threads : thread[t] # "reentering"
Pending == {c \in walk.refused : c >= counter}
LeastPending == CHOOSE c \in Pending : \A d \in Pending : c <= d

RetryPassed ==
  /\ phase = "retry"
  /\ Pending # {}
  /\ Candidate(base, LeastPending) \in seen
  /\ walk' = [walk EXCEPT !.refused = @ \ {LeastPending}]
  /\ counter' = LeastPending + 1
  /\ UNCHANGED <<seen, phase, attempts, outcome, asked>>
  /\ InCall

RetryAsk ==
  /\ phase = "retry"
  /\ Pending # {}
  /\ Candidate(base, LeastPending) \notin seen
  /\ phase' = "ask_retry"
  /\ counter' = LeastPending
  /\ asked' = LeastPending
  /\ attempts' = attempts + 1
  /\ UNCHANGED <<seen, walk, outcome>>
  /\ InCall

RetryAccepted ==
  /\ Answers("ask_retry")
  /\ walk' = [walk EXCEPT !.refused = @ \ {counter}]
  /\ seen' = seen \cup {Candidate(base, counter)}
  /\ phase' = "put_back"
  /\ outcome' = <<"slug", Candidate(base, counter)>>
  /\ UNCHANGED <<counter, attempts, asked>>
  /\ InCall

RetryRefused ==
  /\ Answers("ask_retry") /\ HasCheck
  /\ phase' = "retry"
  /\ counter' = counter + 1
  /\ asked' = counter + 1
  /\ UNCHANGED <<seen, walk, attempts, outcome>>
  /\ InCall

RetryEnds ==
  /\ phase = "retry"
  /\ Pending = {}
  /\ phase' = "loop"
  /\ UNCHANGED <<seen, walk, counter, attempts, outcome, asked>>
  /\ InCall

-----------------------------------------------------------------------------
\* Then on from `next`.
Fail(o, k) ==
  /\ phase' = "put_back"
  /\ outcome' = o
  /\ asked' = k
  /\ UNCHANGED <<seen, walk, counter, attempts>>
  /\ InCall

LoopNoCandidate ==
  /\ phase = "loop"
  /\ Candidate(base, walk.next) = NoRoom
  /\ Fail(<<"max_length_too_small">>, walk.next)

\* Mutant: the walk is not moved past a candidate that is taken.
LoopSeenStays ==
  /\ phase = "loop"
  /\ Candidate(base, walk.next) \in seen
  /\ UNCHANGED <<seen, walk, phase, counter, attempts, outcome, asked>>
  /\ InCall

LoopSeen ==
  /\ phase = "loop"
  /\ Candidate(base, walk.next) \in seen
  /\ walk' = [walk EXCEPT !.next = @ + 1]
  /\ UNCHANGED <<seen, phase, counter, attempts, outcome, asked>>
  /\ InCall

\* Mutant: the limit is compared with the counter, as before #1102.
LoopTooManyByCounter ==
  /\ phase = "loop"
  /\ Candidate(base, walk.next) \notin seen \cup {NoRoom}
  /\ walk.next > MAX_UNIQUE_ATTEMPTS
  /\ Fail(<<"attempts_exceeded">>, walk.next)

LoopTooMany ==
  /\ phase = "loop"
  /\ Candidate(base, walk.next) \notin seen \cup {NoRoom}
  /\ attempts > MAX_UNIQUE_ATTEMPTS
  /\ Fail(<<"attempts_exceeded">>, walk.next)

LoopAsk ==
  /\ phase = "loop"
  /\ Candidate(base, walk.next) \notin seen \cup {NoRoom}
  /\ attempts <= MAX_UNIQUE_ATTEMPTS
  /\ phase' = "ask_loop"
  /\ asked' = walk.next
  /\ attempts' = attempts + 1
  /\ UNCHANGED <<seen, walk, counter, outcome>>
  /\ InCall

LoopAccepted ==
  /\ Answers("ask_loop")
  /\ seen' = seen \cup {Candidate(base, walk.next)}
  /\ walk' = [walk EXCEPT !.next = @ + 1]
  /\ phase' = "put_back"
  /\ outcome' = <<"slug", Candidate(base, walk.next)>>
  /\ UNCHANGED <<counter, attempts, asked>>
  /\ InCall

\* Mutant: a refusal is not remembered.
LoopRefusedForgotten ==
  /\ Answers("ask_loop") /\ HasCheck
  /\ walk' = [walk EXCEPT !.next = @ + 1]
  /\ phase' = "loop"
  /\ asked' = walk.next + 1
  /\ UNCHANGED <<seen, counter, attempts, outcome>>
  /\ InCall

LoopRefused ==
  /\ Answers("ask_loop") /\ HasCheck
  /\ walk' = [next |-> walk.next + 1, refused |-> walk.refused \cup {walk.next}]
  /\ phase' = "loop"
  /\ asked' = walk.next + 1
  /\ UNCHANGED <<seen, counter, attempts, outcome>>
  /\ InCall

\* check raises, in either pass.
CheckRaises ==
  /\ Answers("ask_retry") \/ Answers("ask_loop")
  /\ HasCheck
  /\ Fail(<<"raised">>, asked)

\* Back in slugify: keep the walk if it saves anything, and return.
PutBack(t) ==
  /\ phase = "put_back"
  /\ borrowed = t
  /\ borrowed' = NoThread
  /\ ThreadTo(t, "inside", "leaving")
  /\ walks' = IF base = <<>> THEN walks
              ELSE [walks EXCEPT ![base] =
                      IF walk.next > 1 \/ walk.refused # {} THEN walk ELSE FreshWalk]
  /\ walk' = FreshWalk
  /\ phase' = "idle" /\ base' = <<>> /\ counter' = 0 /\ attempts' = 0
  /\ outcome' = <<>> /\ asked' = 0
  /\ UNCHANGED <<seen, lock>>

TakeFirstFree ==
  \/ RetryPassed \/ RetryAsk \/ RetryAccepted \/ RetryRefused \/ RetryEnds
  \/ LoopNoCandidate \/ LoopSeen \/ LoopTooMany \/ LoopAsk \/ LoopAccepted
  \/ LoopRefused \/ CheckRaises

Next ==
  \/ \E t \in Threads :
       \/ Acquire(t) \/ Reenter(t) \/ Reset(t) \/ AlreadyBorrowed(t) \/ PutBack(t) \/ Release(t)
       \/ \E b \in Bases \cup {<<>>} : Call(t, b)
  \/ TakeFirstFree

Spec == Init /\ [][Next]_vars

\* A call in progress is computed to its end: Rust does not stop, and check
\* answers in the end, however often it calls back first (hence SF).
FairSpec ==
  /\ Spec
  /\ SF_vars(TakeFirstFree)
  /\ \A t \in Threads :
       WF_vars(AlreadyBorrowed(t)) /\ WF_vars(PutBack(t)) /\ WF_vars(Release(t))

-----------------------------------------------------------------------------
\* The walk of base b as the next call on it will find it.
Remembered(b) == IF b = base THEN walk ELSE walks[b]

\* SuffixWalk's stated invariant: below `next` every candidate is given or its
\* counter refused, so nothing free is ever skipped.
SkipsNothingFree ==
  \A b \in Bases \ {<<>>} :
    \A c \in 0..(Remembered(b).next - 1) :
      Candidate(b, c) \in seen \/ c \in Remembered(b).refused

\* The limit counts what one call asks check, retries included, and nothing
\* else: no call asks more than MAX_UNIQUE_ATTEMPTS + 1 times or leaves more to
\* ask again, and a base that has given many slugs never runs into it ("a base
\* has no limit").
LimitCountsQuestions ==
  /\ attempts <= MAX_UNIQUE_ATTEMPTS + 1
  /\ \A b \in Bases : Cardinality(Remembered(b).refused) <= MAX_UNIQUE_ATTEMPTS + 1
  /\ outcome = <<"attempts_exceeded">> => HasCheck /\ attempts > MAX_UNIQUE_ATTEMPTS

\* What a walk keeps from call to call is enough to go on from: it skips nothing
\* that is free, and no call before has used up the questions of the next.
WalkInvariant == SkipsNothingFree /\ LimitCountsQuestions

\* A call that has begun returns.
CallsReturn == \A t \in Threads : thread[t] = "inside" ~> thread[t] = "idle"

\* The comment at slugify.rs:1129, "distinct counters give distinct candidates",
\* over the counters a walk has been through.
CountersNeverAlias ==
  \A b \in Bases \ {<<>>} :
    \A c, d \in 0..(Remembered(b).next - 1) :
      c # d => Candidate(b, c) # Candidate(b, d)

Phase ==
  CASE phase \in {"retry", "loop"} -> "walk"
    [] phase \in {"ask_retry", "ask_loop"} -> "ask"
    [] phase = "put_back" -> "done"
    [] OTHER -> "idle"

Reference == INSTANCE FullWalk WITH phase <- Phase, next <- asked

\* The remembered walk is "a cache and nothing more": every slug, every question
\* put to check and every error is that of a full walk from counter 0.
ImplementsFullWalk == Reference!Spec
=============================================================================
