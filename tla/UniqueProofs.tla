---------------------------- MODULE UniqueProofs ----------------------------
(***************************************************************************)
(* Proofs about UniqueSlugifier for every set of bases and threads, every  *)
(* separator and max_length, and every limit.  The limit holds because of  *)
(* what the attempts of a call have been spent on: while it retries, on    *)
(* the refused counters below its own, all of them refused again           *)
(* (AskedAgain), and in the loop on every counter that is refused          *)
(* (QuestionsInv).  A walk therefore never keeps more refused counters     *)
(* than one call may ask about, which is what leaves the next call its     *)
(* questions.  That the walks are remembered changes nothing a caller      *)
(* sees: between where a walk from counter 0 would be and where the        *)
(* remembered one is, every candidate has been given (AskedInv), so that   *)
(* the full walk passes over them in the same step.                        *)
(***************************************************************************)
EXTENDS UniqueSlugifier, FiniteSetTheorems, WellFoundedInduction, TLAPS

\* Every nonempty set of naturals has a least element.
LEMMA LeastNatural ==
  ASSUME NEW S, S \subseteq Nat, S # {}
  PROVE  \E n \in S : \A m \in S : n <= m
<1> DEFINE R == OpToRel(<, Nat)
<1>1. IsWellFoundedOn(R, Nat)
  BY NatLessThanWellFounded
<1>2. \A x, y \in Nat : x < y => <<x, y>> \in R
  BY DEF OpToRel
<1> HIDE DEF R
<1>3. PICK n \in S : \A m \in S : <<m, n>> \notin R
  BY <1>1, WFMin
<1>4. ASSUME NEW m \in S PROVE n <= m
  <2>1. m \in Nat /\ n \in Nat
    OBVIOUS
  <2>2. ~(m < n)
    BY <1>2, <1>3, <2>1
  <2> QED
    BY <2>1, <2>2
<1> QED
  BY <1>4

\* The object is borrowed exactly while a call runs; without one there is no
\* base, no attempt and no walk in hand.
CallInv ==
  /\ borrowed = NoThread <=> phase = "idle"
  /\ phase = "idle" => base = <<>> /\ attempts = 0 /\ walk = FreshWalk
  /\ base = <<>> => phase \in {"idle", "put_back"} /\ walk = FreshWalk
  /\ base # <<>> => phase # "idle"

\* A walk refuses only counters it has been through, and no more than one call
\* may ask about; without a check, none.
GoodWalk(w) ==
  /\ w.refused \subseteq 0..(w.next - 1)
  /\ Cardinality(w.refused) <= MAX_UNIQUE_ATTEMPTS + 1
  /\ ~HasCheck => w.refused = {}

\* The walk in hand and all the walks that are put away.
WalksInv == GoodWalk(walk) /\ \A b \in Bases : GoodWalk(walks[b])

\* The refused counters that the call in progress has asked about again.
AskedAgain == {c \in walk.refused : c < counter}

\* What the attempts of the call have been spent on.
QuestionsInv ==
  /\ phase = "retry" => attempts = Cardinality(AskedAgain)
  /\ phase = "ask_retry" => attempts = Cardinality(AskedAgain) + 1 /\ counter \in walk.refused
  /\ phase = "loop" => attempts = Cardinality(walk.refused)
  /\ phase = "ask_loop" => attempts = Cardinality(walk.refused) + 1
  /\ attempts <= MAX_UNIQUE_ATTEMPTS + 1
  /\ outcome = <<"attempts_exceeded">> => HasCheck /\ attempts > MAX_UNIQUE_ATTEMPTS
  /\ phase \in {"idle", "retry", "ask_retry", "loop", "ask_loop"} => outcome = <<>>

\* The inductive invariant.
UniqueInv == TypeOK /\ CallInv /\ WalksInv /\ QuestionsInv /\ SkipsNothingFree

\* What is refused is finite, and so is every part of it.
LEMMA WalkFinite ==
  ASSUME TypeOK, WalksInv
  PROVE  /\ walk.next \in Nat /\ walk.refused \subseteq Nat
         /\ \A S : S \subseteq walk.refused =>
              /\ IsFiniteSet(S) /\ Cardinality(S) \in Nat
              /\ Cardinality(S) <= Cardinality(walk.refused)
         /\ Cardinality(walk.refused) \in Nat
         /\ AskedAgain \subseteq walk.refused
<1>1. walk.next \in Nat /\ walk.refused \subseteq 0..(walk.next - 1)
  BY DEF TypeOK, WalkType, WalksInv, GoodWalk
<1>2. IsFiniteSet(walk.refused)
  <2>1. IsFiniteSet(0..(walk.next - 1))
    BY <1>1, FS_Interval
  <2> QED
    BY <1>1, <2>1, FS_Subset
<1>3. ASSUME NEW S, S \subseteq walk.refused
      PROVE  /\ IsFiniteSet(S) /\ Cardinality(S) \in Nat
             /\ Cardinality(S) <= Cardinality(walk.refused)
  BY <1>2, <1>3, FS_Subset, FS_CardinalityType
<1>4. Cardinality(walk.refused) \in Nat
  BY <1>2, FS_CardinalityType
<1> QED
  BY <1>1, <1>3, <1>4 DEF AskedAgain

\* The next counter to ask again is the least refused one not yet asked again:
\* what has been asked again stays below it.
LEMMA LeastIsPending ==
  ASSUME TypeOK, WalksInv, Pending # {}
  PROVE  /\ LeastPending \in walk.refused /\ LeastPending \in Nat /\ LeastPending >= counter
         /\ \A c \in walk.refused : c < LeastPending <=> c < counter
<1>1. Pending \subseteq Nat /\ walk.refused \subseteq Nat /\ counter \in Nat
  BY WalkFinite DEF Pending, TypeOK
<1>2. \E c \in Pending : \A d \in Pending : c <= d
  BY <1>1, LeastNatural
<1>3. LeastPending \in Pending /\ \A d \in Pending : LeastPending <= d
  BY <1>2 DEF LeastPending
<1> HIDE DEF LeastPending
<1>4. ASSUME NEW c \in walk.refused PROVE c < LeastPending <=> c < counter
  <2>1. c \in Nat /\ LeastPending \in Nat /\ LeastPending >= counter
    BY <1>1, <1>3 DEF Pending
  <2>2. c >= counter => c \in Pending
    BY DEF Pending
  <2> QED
    BY <1>1, <1>3, <2>1, <2>2
<1> QED
  BY <1>1, <1>3, <1>4 DEF Pending

\* While a refused counter is left to ask again, the call has a question left
\* for it.
LEMMA RoomToAsk ==
  ASSUME TypeOK, WalksInv, Pending # {}
  PROVE  Cardinality(AskedAgain) <= MAX_UNIQUE_ATTEMPTS /\ Cardinality(AskedAgain) \in Nat
<1> DEFINE l == LeastPending
<1>1. l \in walk.refused /\ l \in Nat /\ l >= counter
  BY LeastIsPending
<1> HIDE DEF l
<1>2. /\ counter \in Nat /\ walk.refused \subseteq Nat /\ MAX_UNIQUE_ATTEMPTS \in Nat
      /\ Cardinality(walk.refused) <= MAX_UNIQUE_ATTEMPTS + 1 /\ Cardinality(walk.refused) \in Nat
      /\ IsFiniteSet(walk.refused)
  BY WalkFinite, UniqueSlugifierAssumption DEF TypeOK, WalksInv, GoodWalk
<1>3. AskedAgain \subseteq walk.refused \ {l}
  BY <1>1, <1>2 DEF AskedAgain
<1>4. /\ Cardinality(walk.refused \ {l}) = Cardinality(walk.refused) - 1
      /\ IsFiniteSet(walk.refused \ {l})
  BY <1>1, <1>2, FS_RemoveElement
<1>5. Cardinality(AskedAgain) \in Nat /\ Cardinality(AskedAgain) <= Cardinality(walk.refused \ {l})
  BY <1>3, <1>4, FS_Subset, FS_CardinalityType
<1> QED
  BY <1>2, <1>4, <1>5

\* Every step keeps the invariant.  A case for each action of Next, and in it a
\* step for each conjunct of the invariant.
LEMMA UniqueNext == UniqueInv /\ [Next]_vars => UniqueInv'
<1> SUFFICES ASSUME UniqueInv, [Next]_vars PROVE UniqueInv'
  OBVIOUS
<1>a. TypeOK /\ CallInv /\ WalksInv /\ QuestionsInv /\ SkipsNothingFree
  BY DEF UniqueInv
<1> DEFINE Finite == \A S : S \subseteq walk.refused => IsFiniteSet(S) /\ Cardinality(S) \in Nat
<1>b. /\ walk.next \in Nat /\ walk.refused \subseteq Nat
      /\ walk = [next |-> walk.next, refused |-> walk.refused]
       /\ walk.refused \subseteq 0..(walk.next - 1)
       /\ Cardinality(walk.refused) \in Nat /\ Cardinality(walk.refused) <= MAX_UNIQUE_ATTEMPTS + 1
       /\ Cardinality(AskedAgain) \in Nat /\ Cardinality(AskedAgain) <= Cardinality(walk.refused)
       /\ MAX_UNIQUE_ATTEMPTS \in Nat /\ HasCheck \in BOOLEAN
       /\ counter \in Nat /\ attempts \in Nat
       /\ IsFiniteSet(walk.refused) /\ IsFiniteSet(AskedAgain) /\ AskedAgain \subseteq walk.refused
  BY <1>a, WalkFinite, UniqueSlugifierAssumption DEF TypeOK, WalkType, WalksInv, GoodWalk
<1>1. ASSUME RetryPassed PROVE UniqueInv'
  <2>a. /\ LeastPending \in walk.refused /\ LeastPending \in Nat /\ LeastPending >= counter
        /\ \A c \in walk.refused : c < LeastPending <=> c < counter
    BY <1>1, <1>a, LeastIsPending DEF RetryPassed
  <2>1. TypeOK'
    BY <1>1, <1>a, <1>b, <2>a DEF RetryPassed, InCall, lockVars, TypeOK, WalkType
  <2>2. CallInv'
    BY <1>1, <1>a, <1>b DEF RetryPassed, InCall, lockVars, CallInv
  <2>3. WalksInv'
    <3>1. walk' = [walk EXCEPT !.refused = @ \ {LeastPending}]
      BY <1>1 DEF RetryPassed
    <3>2. walk'.next = walk.next /\ walk'.refused = walk.refused \ {LeastPending}
      BY <1>b, <3>1
    <3>3. /\ Cardinality(walk'.refused) <= Cardinality(walk.refused)
          /\ Cardinality(walk'.refused) \in Nat
      BY <1>a, <3>2, WalkFinite
    <3> QED
      BY <1>1, <1>a, <1>b, <3>2, <3>3 DEF RetryPassed, InCall, WalksInv, GoodWalk
  <2>4. QuestionsInv'
    <3>1. AskedAgain' = AskedAgain
      BY <1>1, <1>b, <2>a DEF RetryPassed, AskedAgain
    <3> QED
      BY <1>1, <1>a, <3>1 DEF RetryPassed, QuestionsInv
  <2>5. SkipsNothingFree'
    <3> SUFFICES ASSUME NEW b \in Bases \ {<<>>}, NEW c \in 0..(Remembered(b)'.next - 1)
                 PROVE  Candidate(b, c) \in seen' \/ c \in Remembered(b)'.refused
      BY DEF SkipsNothingFree
    <3>1. b = base \/ b # base
      OBVIOUS
    <3> QED
      BY <1>1, <1>a, <1>b, <2>a DEF RetryPassed, InCall, SkipsNothingFree, Remembered
  <2> QED
    BY <2>1, <2>2, <2>3, <2>4, <2>5 DEF UniqueInv
<1>2. ASSUME RetryAsk PROVE UniqueInv'
  <2>a. /\ LeastPending \in walk.refused /\ LeastPending \in Nat /\ LeastPending >= counter
        /\ \A c \in walk.refused : c < LeastPending <=> c < counter
    BY <1>2, <1>a, LeastIsPending DEF RetryAsk
  <2>1. TypeOK'
    BY <1>2, <1>a, <1>b, <2>a DEF RetryAsk, InCall, lockVars, TypeOK
  <2>2. CallInv'
    BY <1>2, <1>a, <1>b DEF RetryAsk, InCall, lockVars, CallInv
  <2>3. WalksInv'
    BY <1>2, <1>a DEF RetryAsk, InCall, lockVars, WalksInv
  <2>4. QuestionsInv'
    <3>1. AskedAgain' = AskedAgain
      BY <1>2, <1>b, <2>a DEF RetryAsk, AskedAgain
    <3>2. AskedAgain \subseteq walk.refused \ {LeastPending}
      BY <1>b, <2>a DEF AskedAgain
    <3>3. Cardinality(walk.refused \ {LeastPending}) = Cardinality(walk.refused) - 1
      BY <1>b, <2>a, FS_RemoveElement
    <3>4. Cardinality(AskedAgain) <= Cardinality(walk.refused \ {LeastPending})
      BY <1>b, <3>2, FS_RemoveElement, FS_Subset
    <3>5. /\ attempts = Cardinality(AskedAgain) /\ attempts' = attempts + 1
          /\ counter' = LeastPending /\ walk' = walk /\ phase' = "ask_retry"
      BY <1>2, <1>a DEF RetryAsk, QuestionsInv
    <3> QED
      BY <1>2, <1>a, <1>b, <2>a, <3>1, <3>3, <3>4, <3>5 DEF RetryAsk, QuestionsInv
  <2>5. SkipsNothingFree'
    BY <1>2, <1>a DEF RetryAsk, InCall, lockVars, SkipsNothingFree, Remembered
  <2> QED
    BY <2>1, <2>2, <2>3, <2>4, <2>5 DEF UniqueInv
<1>3. ASSUME RetryAccepted PROVE UniqueInv'
  <2>1. TypeOK'
    BY <1>3, <1>a, <1>b DEF RetryAccepted, InCall, Answers, lockVars, TypeOK, WalkType
  <2>2. CallInv'
    BY <1>3, <1>a, <1>b DEF RetryAccepted, InCall, Answers, lockVars, CallInv
  <2>3. WalksInv'
    <3>1. walk' = [walk EXCEPT !.refused = @ \ {counter}]
      BY <1>3 DEF RetryAccepted
    <3>2. walk'.next = walk.next /\ walk'.refused = walk.refused \ {counter}
      BY <1>b, <3>1
    <3>3. /\ Cardinality(walk'.refused) <= Cardinality(walk.refused)
          /\ Cardinality(walk'.refused) \in Nat
      BY <1>a, <3>2, WalkFinite
    <3> QED
      BY <1>3, <1>a, <1>b, <3>2, <3>3 DEF RetryAccepted, InCall, Answers, WalksInv, GoodWalk
  <2>4. QuestionsInv'
    BY <1>3, <1>a, <1>b DEF RetryAccepted, InCall, Answers, lockVars, QuestionsInv, AskedAgain
  <2>5. SkipsNothingFree'
    <3> SUFFICES ASSUME NEW b \in Bases \ {<<>>}, NEW c \in 0..(Remembered(b)'.next - 1)
                 PROVE  Candidate(b, c) \in seen' \/ c \in Remembered(b)'.refused
      BY DEF SkipsNothingFree
    <3>1. b = base \/ b # base
      OBVIOUS
    <3> QED
      BY <1>3, <1>a, <1>b DEF RetryAccepted, InCall, Answers, SkipsNothingFree, Remembered
  <2> QED
    BY <2>1, <2>2, <2>3, <2>4, <2>5 DEF UniqueInv
<1>4. ASSUME RetryRefused PROVE UniqueInv'
  <2>1. TypeOK'
    BY <1>4, <1>a, <1>b DEF RetryRefused, InCall, Answers, lockVars, TypeOK, WalkType
  <2>2. CallInv'
    BY <1>4, <1>a, <1>b DEF RetryRefused, InCall, Answers, lockVars, CallInv
  <2>3. WalksInv'
    BY <1>4, <1>a DEF RetryRefused, InCall, Answers, lockVars, WalksInv
  <2>4. QuestionsInv'
    <3>1. AskedAgain' = AskedAgain \cup {counter} /\ counter \notin AskedAgain
      BY <1>4, <1>a, <1>b DEF RetryRefused, Answers, AskedAgain, QuestionsInv
    <3>2. Cardinality(AskedAgain') = Cardinality(AskedAgain) + 1
      BY <1>b, <3>1, FS_AddElement
    <3> QED
      BY <1>4, <1>a, <3>2 DEF RetryRefused, Answers, QuestionsInv
  <2>5. SkipsNothingFree'
    BY <1>4, <1>a DEF RetryRefused, InCall, Answers, lockVars, SkipsNothingFree, Remembered
  <2> QED
    BY <2>1, <2>2, <2>3, <2>4, <2>5 DEF UniqueInv
<1>5. ASSUME RetryEnds PROVE UniqueInv'
  <2>1. TypeOK'
    BY <1>5, <1>a, <1>b DEF RetryEnds, InCall, lockVars, TypeOK, WalkType
  <2>2. CallInv'
    BY <1>5, <1>a, <1>b DEF RetryEnds, InCall, lockVars, CallInv
  <2>3. WalksInv'
    BY <1>5, <1>a DEF RetryEnds, InCall, lockVars, WalksInv
  <2>4. QuestionsInv'
    <3>1. AskedAgain = walk.refused
      BY <1>5, <1>b DEF RetryEnds, AskedAgain, Pending
    <3> QED
      BY <1>5, <1>a, <3>1 DEF RetryEnds, QuestionsInv
  <2>5. SkipsNothingFree'
    BY <1>5, <1>a DEF RetryEnds, InCall, lockVars, SkipsNothingFree, Remembered
  <2> QED
    BY <2>1, <2>2, <2>3, <2>4, <2>5 DEF UniqueInv
<1>6. ASSUME LoopNoCandidate PROVE UniqueInv'
  <2>1. TypeOK'
    BY <1>6, <1>a, <1>b DEF LoopNoCandidate, InCall, Fail, lockVars, TypeOK, WalkType
  <2>2. CallInv'
    BY <1>6, <1>a, <1>b DEF LoopNoCandidate, InCall, Fail, lockVars, CallInv
  <2>3. WalksInv'
    BY <1>6, <1>a DEF LoopNoCandidate, InCall, Fail, lockVars, WalksInv
  <2>4. QuestionsInv'
    BY <1>6, <1>a, <1>b DEF LoopNoCandidate, InCall, Fail, lockVars, QuestionsInv, AskedAgain
  <2>5. SkipsNothingFree'
    BY <1>6, <1>a DEF LoopNoCandidate, InCall, Fail, lockVars, SkipsNothingFree, Remembered
  <2> QED
    BY <2>1, <2>2, <2>3, <2>4, <2>5 DEF UniqueInv
<1>7. ASSUME LoopSeen PROVE UniqueInv'
  <2>1. TypeOK'
    BY <1>7, <1>a, <1>b DEF LoopSeen, InCall, lockVars, TypeOK, WalkType
  <2>2. CallInv'
    BY <1>7, <1>a, <1>b DEF LoopSeen, InCall, lockVars, CallInv
  <2>3. WalksInv'
    <3>1. walk'.next = walk.next + 1 /\ walk'.refused = walk.refused
      BY <1>7, <1>b DEF LoopSeen
    <3> QED
      BY <1>7, <1>a, <1>b, <3>1 DEF LoopSeen, InCall, WalksInv, GoodWalk
  <2>4. QuestionsInv'
    BY <1>7, <1>a, <1>b DEF LoopSeen, InCall, lockVars, QuestionsInv, AskedAgain
  <2>5. SkipsNothingFree'
    <3> SUFFICES ASSUME NEW b \in Bases \ {<<>>}, NEW c \in 0..(Remembered(b)'.next - 1)
                 PROVE  Candidate(b, c) \in seen' \/ c \in Remembered(b)'.refused
      BY DEF SkipsNothingFree
    <3>1. b = base \/ b # base
      OBVIOUS
    <3> QED
      BY <1>7, <1>a, <1>b DEF LoopSeen, InCall, SkipsNothingFree, Remembered
  <2> QED
    BY <2>1, <2>2, <2>3, <2>4, <2>5 DEF UniqueInv
<1>8. ASSUME LoopTooMany PROVE UniqueInv'
  <2>1. TypeOK'
    BY <1>8, <1>a, <1>b DEF LoopTooMany, InCall, Fail, lockVars, TypeOK, WalkType
  <2>2. CallInv'
    BY <1>8, <1>a, <1>b DEF LoopTooMany, InCall, Fail, lockVars, CallInv
  <2>3. WalksInv'
    BY <1>8, <1>a DEF LoopTooMany, InCall, Fail, lockVars, WalksInv
  <2>4. QuestionsInv'
    <3>1. attempts = Cardinality(walk.refused) /\ attempts > MAX_UNIQUE_ATTEMPTS
      BY <1>8, <1>a DEF LoopTooMany, QuestionsInv
    <3>2. HasCheck
      BY <1>a, <1>b, <3>1, FS_EmptySet DEF WalksInv, GoodWalk
    <3> QED
      BY <1>8, <1>a, <3>2 DEF LoopTooMany, Fail, QuestionsInv
  <2>5. SkipsNothingFree'
    BY <1>8, <1>a DEF LoopTooMany, InCall, Fail, lockVars, SkipsNothingFree, Remembered
  <2> QED
    BY <2>1, <2>2, <2>3, <2>4, <2>5 DEF UniqueInv
<1>9. ASSUME LoopAsk PROVE UniqueInv'
  <2>1. TypeOK'
    BY <1>9, <1>a, <1>b DEF LoopAsk, InCall, lockVars, TypeOK, WalkType
  <2>2. CallInv'
    BY <1>9, <1>a, <1>b DEF LoopAsk, InCall, lockVars, CallInv
  <2>3. WalksInv'
    BY <1>9, <1>a DEF LoopAsk, InCall, lockVars, WalksInv
  <2>4. QuestionsInv'
    BY <1>9, <1>a, <1>b DEF LoopAsk, InCall, lockVars, QuestionsInv, AskedAgain
  <2>5. SkipsNothingFree'
    BY <1>9, <1>a DEF LoopAsk, InCall, lockVars, SkipsNothingFree, Remembered
  <2> QED
    BY <2>1, <2>2, <2>3, <2>4, <2>5 DEF UniqueInv
<1>10. ASSUME LoopAccepted PROVE UniqueInv'
  <2>1. TypeOK'
    BY <1>10, <1>a, <1>b DEF LoopAccepted, InCall, Answers, lockVars, TypeOK, WalkType
  <2>2. CallInv'
    BY <1>10, <1>a, <1>b DEF LoopAccepted, InCall, Answers, lockVars, CallInv
  <2>3. WalksInv'
    <3>1. walk'.next = walk.next + 1 /\ walk'.refused = walk.refused
      BY <1>10, <1>b DEF LoopAccepted
    <3> QED
      BY <1>10, <1>a, <1>b, <3>1 DEF LoopAccepted, InCall, WalksInv, GoodWalk
  <2>4. QuestionsInv'
    BY <1>10, <1>a, <1>b DEF LoopAccepted, InCall, Answers, lockVars, QuestionsInv, AskedAgain
  <2>5. SkipsNothingFree'
    <3> SUFFICES ASSUME NEW b \in Bases \ {<<>>}, NEW c \in 0..(Remembered(b)'.next - 1)
                 PROVE  Candidate(b, c) \in seen' \/ c \in Remembered(b)'.refused
      BY DEF SkipsNothingFree
    <3>1. b = base \/ b # base
      OBVIOUS
    <3> QED
      BY <1>10, <1>a, <1>b DEF LoopAccepted, InCall, Answers, SkipsNothingFree, Remembered
  <2> QED
    BY <2>1, <2>2, <2>3, <2>4, <2>5 DEF UniqueInv
<1>11. ASSUME LoopRefused PROVE UniqueInv'
  <2>a. /\ walk'.next = walk.next + 1 /\ walk'.refused = walk.refused \cup {walk.next}
        /\ Cardinality(walk'.refused) = Cardinality(walk.refused) + 1
        /\ attempts = Cardinality(walk.refused) + 1
    <3>1. walk' = [next |-> walk.next + 1, refused |-> walk.refused \cup {walk.next}]
      BY <1>11 DEF LoopRefused
    <3>2. walk.next \notin walk.refused
      BY <1>b
    <3>3. Cardinality(walk.refused \cup {walk.next}) = Cardinality(walk.refused) + 1
      BY <1>b, <3>2, FS_AddElement
    <3> QED
      BY <1>11, <1>a, <3>1, <3>3 DEF LoopRefused, Answers, QuestionsInv
  <2>1. TypeOK'
    BY <1>11, <1>a, <1>b DEF LoopRefused, InCall, Answers, lockVars, TypeOK, WalkType
  <2>2. CallInv'
    BY <1>11, <1>a, <1>b DEF LoopRefused, InCall, Answers, lockVars, CallInv
  <2>3. WalksInv'
    <3>1. attempts <= MAX_UNIQUE_ATTEMPTS + 1
      BY <1>a DEF QuestionsInv
    <3> QED
      BY <1>11, <1>a, <1>b, <2>a, <3>1 DEF LoopRefused, Answers, InCall, WalksInv, GoodWalk
  <2>4. QuestionsInv'
    BY <1>11, <1>a, <1>b, <2>a DEF LoopRefused, Answers, QuestionsInv
  <2>5. SkipsNothingFree'
    <3> SUFFICES ASSUME NEW b \in Bases \ {<<>>}, NEW c \in 0..(Remembered(b)'.next - 1)
                 PROVE  Candidate(b, c) \in seen' \/ c \in Remembered(b)'.refused
      BY DEF SkipsNothingFree
    <3>1. b = base \/ b # base
      OBVIOUS
    <3> QED
      BY <1>11, <1>a, <1>b, <2>a DEF LoopRefused, InCall, Answers, SkipsNothingFree, Remembered
  <2> QED
    BY <2>1, <2>2, <2>3, <2>4, <2>5 DEF UniqueInv
<1>12. ASSUME CheckRaises PROVE UniqueInv'
  <2>1. TypeOK'
    BY <1>12, <1>a, <1>b DEF CheckRaises, InCall, Answers, Fail, lockVars, TypeOK, WalkType
  <2>2. CallInv'
    BY <1>12, <1>a, <1>b DEF CheckRaises, InCall, Answers, Fail, lockVars, CallInv
  <2>3. WalksInv'
    BY <1>12, <1>a DEF CheckRaises, InCall, Answers, Fail, lockVars, WalksInv
  <2>4. QuestionsInv'
    BY <1>12, <1>a, <1>b DEF CheckRaises, InCall, Answers, Fail, lockVars, QuestionsInv, AskedAgain
  <2>5. SkipsNothingFree'
    BY <1>12, <1>a DEF CheckRaises, InCall, Answers, Fail, lockVars, SkipsNothingFree, Remembered
  <2> QED
    BY <2>1, <2>2, <2>3, <2>4, <2>5 DEF UniqueInv
<1>13. ASSUME NEW t \in Threads, PutBack(t) PROVE UniqueInv'
  <2>a. /\ base # <<>> => base \in Bases
        /\ walks' = IF base = <<>> THEN walks
                    ELSE [walks EXCEPT ![base] =
                            IF walk.next > 1 \/ walk.refused # {} THEN walk ELSE FreshWalk]
        /\ walk' = FreshWalk /\ phase' = "idle" /\ base' = <<>> /\ counter' = 0 /\ attempts' = 0
        /\ outcome' = <<>> /\ seen' = seen /\ borrowed' = NoThread /\ t # NoThread
    BY <1>13, <1>a, UniqueSlugifierAssumption DEF PutBack, TypeOK
  <2>1. TypeOK'
    <3>1. FreshWalk \in WalkType
      BY DEF FreshWalk, WalkType
    <3> QED
      BY <1>13, <1>a, <2>a, <3>1 DEF PutBack, ThreadTo, TypeOK
  <2>2. CallInv'
    BY <2>a DEF CallInv
  <2>3. WalksInv'
    <3>1. GoodWalk(FreshWalk)
      BY <1>b, FS_EmptySet DEF GoodWalk, FreshWalk
    <3> QED
      BY <1>a, <2>a, <3>1 DEF WalksInv, TypeOK
  <2>4. QuestionsInv'
    BY <1>b, <2>a DEF QuestionsInv
  <2>5. SkipsNothingFree'
    <3> SUFFICES ASSUME NEW b \in Bases \ {<<>>}, NEW c \in 0..(Remembered(b)'.next - 1)
                 PROVE  Candidate(b, c) \in seen' \/ c \in Remembered(b)'.refused
      BY DEF SkipsNothingFree
    <3>1. Remembered(b)' = walks'[b]
      BY <2>a DEF Remembered
    <3>2. walks'[b] = Remembered(b) \/ walks'[b] = FreshWalk
      BY <1>a, <2>a DEF Remembered, TypeOK
    <3> QED
      BY <1>a, <2>a, <3>1, <3>2 DEF SkipsNothingFree, FreshWalk
  <2> QED
    BY <2>1, <2>2, <2>3, <2>4, <2>5 DEF UniqueInv
<1>14. ASSUME NEW t \in Threads, NEW b \in Bases \cup {<<>>}, Call(t, b) PROVE UniqueInv'
  <2>a. /\ phase = "idle" /\ base = <<>> /\ attempts = 0 /\ walk = FreshWalk /\ t # NoThread
        /\ outcome = <<>>
    BY <1>14, <1>a, UniqueSlugifierAssumption DEF Call, CallInv, QuestionsInv
  <2>1. TypeOK'
    BY <1>14, <1>a, <1>b, <2>a DEF Call, ThreadTo, TypeOK
  <2>2. CallInv'
    BY <1>14, <1>a, <2>a DEF Call, CallInv
  <2>3. WalksInv'
    BY <1>14, <1>a, <2>a DEF Call, WalksInv
  <2>4. QuestionsInv'
    <3>1. CASE b = <<>>
      BY <1>14, <1>a, <1>b, <2>a, <3>1 DEF Call, QuestionsInv
    <3>2. CASE b # <<>>
      <4>1. /\ walk' = walks[b] /\ counter' = 0 /\ phase' = "retry" /\ outcome' = outcome
            /\ attempts' = attempts
        BY <1>14, <3>2 DEF Call
      <4>2. walks[b].refused \subseteq Nat
        BY <1>a, <3>2 DEF TypeOK, WalkType
      <4>3. AskedAgain' = {}
        BY <4>1, <4>2 DEF AskedAgain
      <4> QED
        BY <1>b, <2>a, <4>1, <4>3, FS_EmptySet DEF QuestionsInv
    <3> QED
      BY <3>1, <3>2
  <2>5. SkipsNothingFree'
    <3> SUFFICES ASSUME NEW d \in Bases \ {<<>>}, NEW c \in 0..(Remembered(d)'.next - 1)
                 PROVE  Candidate(d, c) \in seen' \/ c \in Remembered(d)'.refused
      BY DEF SkipsNothingFree
    <3>1. Remembered(d)' = Remembered(d)
      BY <1>14, <2>a DEF Call, Remembered
    <3> QED
      BY <1>14, <1>a, <3>1 DEF Call, SkipsNothingFree
  <2> QED
    BY <2>1, <2>2, <2>3, <2>4, <2>5 DEF UniqueInv
<1>15. ASSUME NEW t \in Threads, Reset(t) PROVE UniqueInv'
  <2>a. /\ phase = "idle" /\ base = <<>> /\ walk = FreshWalk
        /\ UNCHANGED <<walk, phase, base, counter, attempts, outcome, borrowed>>
        /\ walks' = [b \in Bases |-> FreshWalk]
        /\ UNCHANGED <<asked, lock>>
    BY <1>15, <1>a DEF Reset, callVars, CallInv
  <2>1. TypeOK'
    <3>1. FreshWalk \in WalkType
      BY DEF FreshWalk, WalkType
    <3>2. thread' \in [Threads -> {"idle", "locked", "inside", "reentering", "leaving"}]
      BY <1>15, <1>a DEF Reset, ThreadTo, TypeOK
    <3> QED
      BY <1>a, <2>a, <3>1, <3>2 DEF TypeOK
  <2>2. CallInv'
    BY <1>a, <2>a DEF CallInv
  <2>3. WalksInv'
    <3>1. GoodWalk(FreshWalk)
      BY <1>b, FS_EmptySet DEF GoodWalk, FreshWalk
    <3> QED
      BY <1>a, <2>a, <3>1 DEF WalksInv
  <2>4. QuestionsInv'
    BY <1>a, <2>a DEF QuestionsInv, AskedAgain
  <2>5. SkipsNothingFree'
    BY <2>a DEF SkipsNothingFree, Remembered, FreshWalk
  <2> QED
    BY <2>1, <2>2, <2>3, <2>4, <2>5 DEF UniqueInv
<1>16. ASSUME UNCHANGED <<seen, walks, callVars, borrowed>>,
             lock' \in Threads \cup {NoThread},
             thread' \in [Threads -> {"idle", "locked", "inside", "reentering", "leaving"}]
      PROVE  UniqueInv'
  BY <1>16, <1>a DEF callVars, UniqueInv, TypeOK, CallInv, WalksInv, QuestionsInv, AskedAgain,
     SkipsNothingFree, Remembered
<1>17. ASSUME NEW t \in Threads, Acquire(t) \/ Reenter(t) \/ AlreadyBorrowed(t) \/ Release(t)
      PROVE  UniqueInv'
  <2>1. thread' \in [Threads -> {"idle", "locked", "inside", "reentering", "leaving"}]
    BY <1>17, <1>a DEF Acquire, Reenter, AlreadyBorrowed, Release, ThreadTo, TypeOK
  <2>2. lock' \in Threads \cup {NoThread}
    BY <1>17, <1>a DEF Acquire, Reenter, AlreadyBorrowed, Release, TypeOK
  <2> QED
    BY <1>16, <1>17, <2>1, <2>2 DEF Acquire, Reenter, AlreadyBorrowed, Release
<1>18. CASE UNCHANGED vars
  <2>1. thread' \in [Threads -> {"idle", "locked", "inside", "reentering", "leaving"}]
    BY <1>18, <1>a DEF vars, lockVars, TypeOK
  <2>2. lock' \in Threads \cup {NoThread}
    BY <1>18, <1>a DEF vars, lockVars, TypeOK
  <2> QED
    BY <1>16, <1>18, <2>1, <2>2 DEF vars, lockVars
<1> QED
  BY <1>1, <1>2, <1>3, <1>4, <1>5, <1>6, <1>7, <1>8, <1>9, <1>10, <1>11, <1>12, <1>13, <1>14,
     <1>15, <1>17, <1>18 DEF Next, TakeFirstFree

\* Initially no walk has been anywhere.
LEMMA UniqueInit == Init => UniqueInv
<1> SUFFICES ASSUME Init PROVE UniqueInv
  OBVIOUS
<1>1. FreshWalk \in WalkType /\ GoodWalk(FreshWalk) /\ FreshWalk.next = 0
  BY FS_EmptySet, UniqueSlugifierAssumption DEF FreshWalk, WalkType, GoodWalk
<1>2. TypeOK /\ WalksInv
  BY <1>1 DEF Init, TypeOK, WalksInv
<1>3. CallInv /\ QuestionsInv
  BY UniqueSlugifierAssumption DEF Init, CallInv, QuestionsInv
<1>4. SkipsNothingFree
  BY <1>1 DEF Init, SkipsNothingFree, Remembered
<1> QED
  BY <1>2, <1>3, <1>4 DEF UniqueInv

\* Both halves of WalkInvariant are among the invariant's conjuncts.
LEMMA UniqueImplies == UniqueInv => WalkInvariant
BY DEF UniqueInv, WalkInvariant, LimitCountsQuestions, WalksInv, GoodWalk, QuestionsInv, Remembered

\* No walk skips a free candidate, no call asks check more than
\* MAX_UNIQUE_ATTEMPTS + 1 times, and none leaves the next one more to ask
\* again (slugify.rs, SuffixWalk and UniqueSlugifier).
THEOREM WalkStaysGood == Spec => []WalkInvariant
<1>1. Spec => []UniqueInv
  BY UniqueInit, UniqueNext, PTL DEF Spec
<1> QED
  BY <1>1, UniqueImplies, PTL

-----------------------------------------------------------------------------
\* A candidate that was given or refused is a slug, not the lack of one.
NamesInv ==
  /\ NoRoom \notin seen
  /\ \A b \in Bases \ {<<>>} : \A c \in Remembered(b).refused : Candidate(b, c) # NoRoom

\* Where the full walk of the call is: at the counter of the last question, or
\* just past it.  Between it and the remembered walk's counter everything has
\* been given.
AskedInv ==
  /\ phase = "retry" =>
       /\ asked <= counter /\ counter <= walk.next
       /\ \A k \in asked..(counter - 1) : Candidate(base, k) \in seen
  /\ phase = "ask_retry" => asked = counter
  /\ phase = "loop" =>
       /\ asked <= walk.next
       /\ \A k \in asked..(walk.next - 1) : Candidate(base, k) \in seen
  /\ phase = "ask_loop" => asked = walk.next /\ Candidate(base, walk.next) # NoRoom
  /\ phase = "idle" => asked = 0

\* The inductive invariant under which a step is one of the full walk's.
FullWalkInv == UniqueInv /\ NamesInv /\ AskedInv

\* While it retries, the full walk passes over every counter up to the next
\* refused one.
LEMMA Walked ==
  ASSUME UniqueInv, AskedInv, phase = "retry",
         NEW n \in Nat, n <= walk.next, \A c \in walk.refused : c >= counter => c >= n
  PROVE  \A k \in asked..(n - 1) : Candidate(base, k) \in seen
<1> SUFFICES ASSUME NEW k \in asked..(n - 1) PROVE Candidate(base, k) \in seen
  OBVIOUS
<1>1. /\ asked \in Nat /\ counter \in Nat /\ walk.next \in Nat /\ walk.refused \subseteq Nat
      /\ base \in Bases \ {<<>>} /\ walk = Remembered(base)
  BY WalkFinite DEF UniqueInv, TypeOK, CallInv, Remembered
<1>2. CASE k < counter
  BY <1>1, <1>2 DEF AskedInv
<1>3. CASE k >= counter
  <2>1. k \in 0..(Remembered(base).next - 1) /\ k < n
    BY <1>1
  <2>2. Candidate(base, k) \in seen \/ k \in walk.refused
    BY <1>1, <2>1 DEF UniqueInv, SkipsNothingFree
  <2> QED
    BY <1>1, <1>3, <2>1, <2>2
<1> QED
  BY <1>1, <1>2, <1>3

\* Every step keeps the full walk where AskedInv says.
LEMMA FullWalkNext == FullWalkInv /\ [Next]_vars => FullWalkInv'
<1> SUFFICES ASSUME FullWalkInv, [Next]_vars PROVE FullWalkInv'
  OBVIOUS
<1>a. UniqueInv /\ NamesInv /\ AskedInv /\ UniqueInv'
  BY UniqueNext DEF FullWalkInv
<1>b. /\ asked \in Nat /\ counter \in Nat /\ walk.next \in Nat /\ walk.refused \subseteq Nat
      /\ walk.refused \subseteq 0..(walk.next - 1) /\ walk \in WalkType
      /\ phase # "idle" /\ phase # "put_back" => base \in Bases \ {<<>>} /\ walk = Remembered(base)
  BY <1>a, WalkFinite DEF UniqueInv, TypeOK, CallInv, WalksInv, GoodWalk, Remembered
<1> SUFFICES NamesInv' /\ AskedInv'
  BY <1>a DEF FullWalkInv
<1>1. CASE RetryPassed
  <2>a. /\ LeastPending \in walk.refused /\ LeastPending \in Nat /\ LeastPending >= counter
        /\ \A c \in walk.refused : c < LeastPending <=> c < counter
    BY <1>1, <1>a, LeastIsPending DEF RetryPassed, UniqueInv
  <2>1. NamesInv'
    BY <1>1, <1>a, <1>b DEF RetryPassed, InCall, NamesInv, Remembered
  <2>b. \A k \in asked..(LeastPending - 1) : Candidate(base, k) \in seen
    BY <1>1, <1>a, <1>b, <2>a, Walked DEF RetryPassed
  <2>2. AskedInv'
    BY <1>1, <1>a, <1>b, <2>a, <2>b DEF RetryPassed, InCall, AskedInv
  <2> QED
    BY <2>1, <2>2
<1>2. CASE RetryAsk
  <2>a. /\ LeastPending \in walk.refused /\ LeastPending \in Nat /\ LeastPending >= counter
        /\ \A c \in walk.refused : c < LeastPending <=> c < counter
    BY <1>2, <1>a, LeastIsPending DEF RetryAsk, UniqueInv
  <2>1. NamesInv'
    BY <1>2, <1>a, <1>b DEF RetryAsk, InCall, NamesInv, Remembered
  <2>2. AskedInv'
    BY <1>2, <1>a, <1>b, <2>a DEF RetryAsk, InCall, AskedInv
  <2> QED
    BY <2>1, <2>2
<1>3. CASE RetryAccepted
  <2>a. Candidate(base, counter) # NoRoom
    BY <1>3, <1>a, <1>b DEF RetryAccepted, Answers, NamesInv, UniqueInv, QuestionsInv
  <2>1. NamesInv'
    BY <1>3, <1>a, <1>b, <2>a DEF RetryAccepted, InCall, NamesInv, Remembered
  <2>2. AskedInv'
    BY <1>3, <1>a, <1>b DEF RetryAccepted, InCall, Answers, AskedInv
  <2> QED
    BY <2>1, <2>2
<1>4. CASE RetryRefused
  <2>1. NamesInv'
    BY <1>4, <1>a, <1>b DEF RetryRefused, InCall, NamesInv, Remembered
  <2>a. counter \in walk.refused
    BY <1>4, <1>a DEF RetryRefused, Answers, UniqueInv, QuestionsInv
  <2>2. AskedInv'
    BY <1>4, <1>a, <1>b, <2>a DEF RetryRefused, InCall, Answers, AskedInv
  <2> QED
    BY <2>1, <2>2
<1>5. CASE RetryEnds
  <2>1. NamesInv'
    BY <1>5, <1>a, <1>b DEF RetryEnds, InCall, NamesInv, Remembered
  <2>a. \A k \in asked..(walk.next - 1) : Candidate(base, k) \in seen
    BY <1>5, <1>a, <1>b, Walked DEF RetryEnds, Pending
  <2>2. AskedInv'
    BY <1>5, <1>a, <1>b, <2>a DEF RetryEnds, InCall, AskedInv
  <2> QED
    BY <2>1, <2>2
<1>6. CASE LoopNoCandidate
  <2>1. NamesInv'
    BY <1>6, <1>a, <1>b DEF LoopNoCandidate, InCall, Fail, NamesInv, Remembered
  <2>2. AskedInv'
    BY <1>6, <1>a, <1>b DEF LoopNoCandidate, InCall, Fail, AskedInv
  <2> QED
    BY <2>1, <2>2
<1>7. CASE LoopSeen
  <2>1. NamesInv'
    BY <1>7, <1>a, <1>b DEF LoopSeen, InCall, NamesInv, Remembered
  <2>2. AskedInv'
    BY <1>7, <1>a, <1>b DEF LoopSeen, InCall, AskedInv
  <2> QED
    BY <2>1, <2>2
<1>8. CASE LoopTooMany
  <2>1. NamesInv'
    BY <1>8, <1>a, <1>b DEF LoopTooMany, InCall, Fail, NamesInv, Remembered
  <2>2. AskedInv'
    BY <1>8, <1>a, <1>b DEF LoopTooMany, InCall, Fail, AskedInv
  <2> QED
    BY <2>1, <2>2
<1>9. CASE LoopAsk
  <2>1. NamesInv'
    BY <1>9, <1>a, <1>b DEF LoopAsk, InCall, NamesInv, Remembered
  <2>2. AskedInv'
    BY <1>9, <1>a, <1>b DEF LoopAsk, InCall, AskedInv
  <2> QED
    BY <2>1, <2>2
<1>10. CASE LoopAccepted
  <2>1. NamesInv'
    BY <1>10, <1>a, <1>b DEF LoopAccepted, InCall, Answers, AskedInv, NamesInv, Remembered
  <2>2. AskedInv'
    BY <1>10, <1>a, <1>b DEF LoopAccepted, InCall, Answers, AskedInv
  <2> QED
    BY <2>1, <2>2
<1>11. CASE LoopRefused
  <2>1. NamesInv'
    BY <1>11, <1>a, <1>b DEF LoopRefused, InCall, Answers, AskedInv, NamesInv, Remembered
  <2>2. AskedInv'
    BY <1>11, <1>a, <1>b DEF LoopRefused, InCall, Answers, AskedInv
  <2> QED
    BY <2>1, <2>2
<1>12. CASE CheckRaises
  <2>1. NamesInv'
    BY <1>12, <1>a, <1>b DEF CheckRaises, InCall, Fail, NamesInv, Remembered
  <2>2. AskedInv'
    BY <1>12, <1>a, <1>b DEF CheckRaises, InCall, Answers, Fail, AskedInv
  <2> QED
    BY <2>1, <2>2
<1>13. ASSUME NEW t \in Threads, NEW b \in Bases \cup {<<>>}, Call(t, b)
       PROVE  NamesInv' /\ AskedInv'
  <2>a. phase = "idle" /\ base = <<>> /\ walk = FreshWalk /\ asked = 0
    BY <1>13, <1>a DEF Call, UniqueInv, CallInv, AskedInv
  <2>1. NamesInv'
    BY <1>13, <1>a, <2>a DEF Call, NamesInv, Remembered
  <2>2. AskedInv'
    <3>1. b # <<>> => walks[b].next \in Nat
      BY <1>a DEF UniqueInv, TypeOK, WalkType
    <3>2. CASE b = <<>>
      BY <1>13, <3>2 DEF Call, AskedInv
    <3>3. CASE b # <<>>
      BY <1>13, <2>a, <3>1, <3>3 DEF Call, AskedInv
    <3> QED
      BY <3>2, <3>3
  <2> QED
    BY <2>1, <2>2
<1>14. ASSUME NEW t \in Threads, Reset(t) PROVE NamesInv' /\ AskedInv'
  <2>a. phase = "idle" /\ base = <<>> /\ asked = 0
    BY <1>14, <1>a DEF Reset, UniqueInv, CallInv, AskedInv
  <2>1. NamesInv'
    BY <1>14, <2>a DEF Reset, callVars, NamesInv, Remembered, FreshWalk
  <2>2. AskedInv'
    BY <1>14, <2>a DEF Reset, callVars, AskedInv
  <2> QED
    BY <2>1, <2>2
<1>15. ASSUME NEW t \in Threads, PutBack(t) PROVE NamesInv' /\ AskedInv'
  <2>1. NamesInv'
    <3>1. \A b \in Bases \ {<<>>} : Remembered(b)'.refused \subseteq Remembered(b).refused
      BY <1>15, <1>a, <1>b DEF PutBack, Remembered, FreshWalk, UniqueInv, TypeOK
    <3> QED
      BY <1>15, <1>a, <3>1 DEF PutBack, NamesInv
  <2>2. AskedInv'
    BY <1>15 DEF PutBack, AskedInv
  <2> QED
    BY <2>1, <2>2
<1>16. CASE UNCHANGED <<seen, walks, callVars>>
  BY <1>16, <1>a DEF callVars, NamesInv, AskedInv, Remembered
<1> QED
  BY <1>1, <1>2, <1>3, <1>4, <1>5, <1>6, <1>7, <1>8, <1>9, <1>10, <1>11, <1>12, <1>13, <1>14,
     <1>15, <1>16
  DEF Next, TakeFirstFree, Acquire, Reenter, AlreadyBorrowed, Release, vars

\* Initially nothing has been asked.
LEMMA FullWalkInit == Init => FullWalkInv
BY UniqueInit DEF Init, FullWalkInv, NamesInv, AskedInv, Remembered, FreshWalk

\* Every step is a step of the full walk or changes nothing it speaks of:
\* taking a refused counter off the walk because its candidate is given, and
\* passing over a candidate in the loop, are the parts of its next step.
LEMMA FullWalkStep == FullWalkInv /\ [Next]_vars => [Reference!Next]_(Reference!vars)
<1> SUFFICES ASSUME FullWalkInv, [Next]_vars PROVE [Reference!Next]_(Reference!vars)
  OBVIOUS
<1>a. UniqueInv /\ NamesInv /\ AskedInv
  BY DEF FullWalkInv
<1>b. /\ asked \in Nat /\ counter \in Nat /\ walk.next \in Nat /\ walk.refused \subseteq Nat
      /\ walk.refused \subseteq 0..(walk.next - 1)
      /\ phase # "idle" /\ phase # "put_back" => base \in Bases \ {<<>>} /\ walk = Remembered(base)
  BY <1>a, WalkFinite DEF UniqueInv, TypeOK, CallInv, WalksInv, GoodWalk, Remembered
<1> DEFINE Stutter == UNCHANGED <<seen, Phase, base, asked, attempts, outcome>>
<1>1. CASE RetryPassed
  <2>1. Stutter
    BY <1>1 DEF RetryPassed, InCall, Phase
  <2> QED
    BY <2>1 DEF Reference!vars
<1>2. CASE RetryAsk
  <2>a. /\ LeastPending \in walk.refused /\ LeastPending \in Nat /\ LeastPending >= counter
        /\ \A c \in walk.refused : c < LeastPending <=> c < counter
    BY <1>2, <1>a, LeastIsPending DEF RetryAsk, UniqueInv
  <2>b. \A k \in asked..(LeastPending - 1) : Candidate(base, k) \in seen
    BY <1>2, <1>a, <1>b, <2>a, Walked DEF RetryAsk
  <2>c. asked <= LeastPending /\ Candidate(base, LeastPending) # NoRoom
    BY <1>2, <1>a, <1>b, <2>a DEF RetryAsk, AskedInv, NamesInv
  <2>d. attempts <= MAX_UNIQUE_ATTEMPTS
    BY <1>2, <1>a, RoomToAsk DEF RetryAsk, UniqueInv, QuestionsInv
  <2>1. Reference!Ask
    BY <1>2, <1>a, <1>b, <2>a, <2>b, <2>c, <2>d DEF RetryAsk, Reference!Ask, Reference!WalkOn,
       InCall, Phase
  <2> QED
    BY <2>1 DEF Reference!Next
<1>3. CASE RetryAccepted
  <2>1. Reference!Accept
    BY <1>3, <1>a, <1>b DEF RetryAccepted, Reference!Accept, Reference!Finish, Answers, AskedInv,
       InCall, Phase
  <2> QED
    BY <2>1 DEF Reference!Next
<1>4. CASE RetryRefused
  <2>1. Reference!Refuse
    BY <1>4, <1>a, <1>b DEF RetryRefused, Reference!Refuse, Answers, AskedInv, InCall, Phase
  <2> QED
    BY <2>1 DEF Reference!Next
<1>5. CASE RetryEnds
  <2>1. Stutter
    BY <1>5 DEF RetryEnds, InCall, Phase
  <2> QED
    BY <2>1 DEF Reference!vars
<1>6. CASE LoopNoCandidate
  <2>1. Reference!NoCandidate
    BY <1>6, <1>a, <1>b DEF LoopNoCandidate, Reference!NoCandidate, Reference!WalkOn,
       Reference!Finish, Fail, AskedInv, NamesInv, InCall, Phase
  <2> QED
    BY <2>1 DEF Reference!Next
<1>7. CASE LoopTooMany
  <2>1. Reference!TooManyAttempts
    BY <1>7, <1>a, <1>b DEF LoopTooMany, Reference!TooManyAttempts, Reference!WalkOn,
       Reference!Finish, Fail, AskedInv, NamesInv, InCall, Phase
  <2> QED
    BY <2>1 DEF Reference!Next
<1>8. CASE LoopSeen
  <2>1. Stutter
    BY <1>8 DEF LoopSeen, InCall, Phase
  <2> QED
    BY <2>1 DEF Reference!vars
<1>9. CASE LoopAsk
  <2>1. Reference!Ask
    BY <1>9, <1>a, <1>b DEF LoopAsk, Reference!Ask, Reference!WalkOn, AskedInv, InCall, Phase
  <2> QED
    BY <2>1 DEF Reference!Next
<1>10. CASE LoopAccepted
  <2>1. Reference!Accept
    BY <1>10, <1>a, <1>b DEF LoopAccepted, Reference!Accept, Reference!Finish, Answers, AskedInv,
       InCall, Phase
  <2> QED
    BY <2>1 DEF Reference!Next
<1>11. CASE LoopRefused
  <2>1. Reference!Refuse
    BY <1>11, <1>a, <1>b DEF LoopRefused, Reference!Refuse, Answers, AskedInv, InCall, Phase
  <2> QED
    BY <2>1 DEF Reference!Next
<1>12. CASE CheckRaises
  <2>1. Reference!Raise
    BY <1>12, <1>a, <1>b DEF CheckRaises, Reference!Raise, Reference!Finish, Answers, Fail,
       InCall, Phase
  <2> QED
    BY <2>1 DEF Reference!Next
<1>13. ASSUME NEW t \in Threads, NEW b \in Bases \cup {<<>>}, Call(t, b)
      PROVE  [Reference!Next]_(Reference!vars)
  <2>a. phase = "idle"
    BY <1>13, <1>a DEF Call, UniqueInv, CallInv
  <2>1. Reference!Call(b)
    BY <1>13, <2>a DEF Call, Reference!Call, Reference!Finish, Phase
  <2> QED
    BY <2>1 DEF Reference!Next
<1>14. ASSUME NEW t \in Threads, PutBack(t) PROVE [Reference!Next]_(Reference!vars)
  <2>1. Reference!Return
    BY <1>14 DEF PutBack, Reference!Return, Phase
  <2> QED
    BY <2>1 DEF Reference!Next
<1>15. ASSUME NEW t \in Threads, Reset(t) PROVE [Reference!Next]_(Reference!vars)
  <2>a. phase = "idle"
    BY <1>15, <1>a DEF Reset, UniqueInv, CallInv
  <2>1. Reference!Reset
    BY <1>15, <2>a DEF Reset, Reference!Reset, callVars, Phase
  <2> QED
    BY <2>1 DEF Reference!Next
<1>16. CASE UNCHANGED <<seen, callVars>>
  BY <1>16 DEF callVars, Reference!vars, Phase
<1> QED
  BY <1>1, <1>2, <1>3, <1>4, <1>5, <1>6, <1>7, <1>8, <1>9, <1>10, <1>11, <1>12, <1>13, <1>14,
     <1>15, <1>16
  DEF Next, TakeFirstFree, Acquire, Reenter, AlreadyBorrowed, Release, vars

\* The remembered walks are a cache and nothing more (slugify.rs, SuffixWalk):
\* every slug, every question asked of check and every error is one of a walk
\* from counter 0 that remembers only the slugs given.
THEOREM RemembersNothingElse == Spec => ImplementsFullWalk
<1>1. Init => Reference!Init
  BY DEF Init, Reference!Init, Phase
<1>2. Spec => []FullWalkInv
  BY FullWalkInit, FullWalkNext, PTL DEF Spec
<1> QED
  BY <1>1, <1>2, FullWalkStep, PTL DEF Spec, ImplementsFullWalk, Reference!Spec
=============================================================================
