---------------------------- MODULE ConfusableFold ---------------------------
(***************************************************************************)
(* The confusable fold taken to its fixed point: normalize_confusables     *)
(* (form "lookup": compose at lookup, then fold) and the presets' and the  *)
(* pipeline's loop (form NFC or NFKC: fold, then normalize).  A fold cycle *)
(* takes one mark a pass, so a loop that outlasts its cap goes to          *)
(* converge_slow, which cuts the text into spans, settles them one by one  *)
(* and skips the repeats of a cycle.                                       *)
(*                                                                         *)
(*   policy, form, text   the call                                         *)
(*   phase, cur, passes, normal   the capped loop; normal: cur came out    *)
(*                        of the normal form                               *)
(*   rounds, built, span, left, budget   converge_slow: the spans settled, *)
(*                        the one in hand, the ones to come, the passes    *)
(*                        the one in hand may still take                   *)
(*   work                 history: passes over the span in hand            *)
(***************************************************************************)
EXTENDS FoldRules

CONSTANTS
  Texts,
  MAX_CONFUSABLE_PASSES,   \* confusables.rs: 8
  CYCLE_RUN_MIN            \* confusables.rs: 8

VARIABLES policy, form, text, phase, cur, passes, normal,
          rounds, built, span, left, budget, work

call == <<policy, form, text>>
slow == <<rounds, built, span, left, budget, work>>
vars == <<call, phase, cur, passes, normal, slow>>

Forms == {"lookup", "NFC", "NFKC"}

TypeOK ==
  /\ policy \in Policies /\ form \in Forms /\ text \in Seq(Chars)
  /\ phase \in {"first", "loop", "round", "span", "check", "done"}
  /\ cur \in Seq(Chars) /\ built \in Seq(Chars) /\ span \in Seq(Chars)
  /\ \A i \in DOMAIN left : left[i] \in Seq(Chars) \ {<<>>}
  /\ passes \in 0..MAX_CONFUSABLE_PASSES /\ rounds \in 0..MAX_CONFUSABLE_PASSES
  /\ normal \in BOOLEAN /\ work \in Nat

ThisPass(s) == Pass(policy, form, s)

-----------------------------------------------------------------------------
(***************************************************************************)
(* The cycle skip.                                                         *)
(***************************************************************************)
Runs(s) ==
  FoldLeft(LAMBDA rs, c : IF rs # <<>> /\ Last(rs)[1] = c
                          THEN Append(Front(rs), <<c, Last(rs)[2] + 1>>)
                          ELSE Append(rs, <<c, 1>>),
           <<>>, s)

FromRuns(rs) == FlattenSeq([i \in DOMAIN rs |-> [j \in 1..rs[i][2] |-> rs[i][1]]])

\* The places where two lists of runs, of one length, differ.
Differing(before, after) == {i \in DOMAIN before : before[i] # after[i]}

\* Mutant: one copy is taken off for every pass skipped.
SkipCycleOneAPass(prev, next) ==
  LET before == Runs(prev)
      after == Runs(next)
      run == CHOOSE i \in Differing(before, after) : TRUE
      taken == before[run][2] - after[run][2]
      kept == after[run][2]
  IN IF /\ Len(before) = Len(after)
        /\ \E i \in DOMAIN before : Differing(before, after) = {i}
        /\ taken \in 1..(CYCLE_RUN_MIN - 1)
        /\ kept >= CYCLE_RUN_MIN
     THEN FromRuns([after EXCEPT ![run][2] = kept - ((kept - CYCLE_RUN_MIN) \div taken + 1)])
     ELSE next

\* What the passes from prev, of which next is the first, leave of a cycle, or
\* next itself when they are not one.
SkipCycle(prev, next) ==
  LET before == Runs(prev)
      after == Runs(next)
      run == CHOOSE i \in Differing(before, after) : TRUE
      mark == before[run][1]
      taken == before[run][2] - after[run][2]
      kept == after[run][2]
      Longer(rs) == FromRuns([rs EXCEPT ![run][2] = @ + 1])
      remaining == kept - ((kept - CYCLE_RUN_MIN) \div taken + 1) * taken
  IN IF /\ Len(before) = Len(after)
        /\ \E i \in DOMAIN before : Differing(before, after) = {i}
        /\ mark = after[run][1]
        /\ taken \in 1..(CYCLE_RUN_MIN - 1)
        /\ kept >= CYCLE_RUN_MIN
        /\ Ccc[mark] # 0 /\ Compatible[mark] = <<mark>> /\ ~Folds(policy, mark)
        /\ ThisPass(Longer(before)) = Longer(after)
     THEN FromRuns([after EXCEPT ![run][2] = remaining])
     ELSE next

-----------------------------------------------------------------------------
\* A span may begin at c: neither c nor what it decomposes to joins what is before.
CutsBefore(c) == StartsUnit(c) /\ StartsUnit(Compatible[c][1])

Spans(s) ==
  LET starts == {1} \cup {i \in 2..Len(s) : CutsBefore(s[i])}
      end(i) == CHOOSE e \in i..Len(s) :
                  /\ e = Len(s) \/ e + 1 \in starts
                  /\ \A j \in (i + 1)..e : j \notin starts
      first == SetToSortSeq(starts, <)
  IN [k \in DOMAIN first |-> SubSeq(s, first[k], end(first[k]))]

-----------------------------------------------------------------------------
(***************************************************************************)
(* The capped loop.                                                        *)
(***************************************************************************)
Start(p, f, s) ==
  /\ policy' = p /\ form' = f /\ text' = s
  /\ phase' = IF f = "lookup" THEN "first" ELSE "loop"
  /\ cur' = s /\ passes' = 0 /\ normal' = FALSE
  /\ rounds' = 0 /\ built' = <<>> /\ span' = <<>> /\ left' = <<>>
  /\ budget' = 0 /\ work' = 0

Init ==
  /\ policy \in Policies /\ form \in Forms /\ text \in Texts
  /\ phase = (IF form = "lookup" THEN "first" ELSE "loop")
  /\ cur = text /\ passes = 0 /\ normal = FALSE
  /\ rounds = 0 /\ built = <<>> /\ span = <<>> /\ left = <<>>
  /\ budget = 0 /\ work = 0

\* The first pass is not counted; a text it would borrow is its own answer.
FirstPass ==
  /\ phase = "first"
  /\ \/ /\ ~NeedsComposition(cur) /\ \A i \in DOMAIN cur : ~Folds(policy, cur[i])
        /\ phase' = "done"
        /\ UNCHANGED cur
     \/ /\ NeedsComposition(cur) \/ \E i \in DOMAIN cur : Folds(policy, cur[i])
        /\ phase' = "loop"
        /\ cur' = ThisPass(cur)
  /\ UNCHANGED <<call, passes, normal, slow>>

\* The presets skip the normal form of a fold that changed nothing normal.
Settled ==
  /\ phase = "loop" /\ passes < MAX_CONFUSABLE_PASSES
  /\ \/ ThisPass(cur) = cur
     \/ form # "lookup" /\ normal /\ Fold(policy, cur) = cur
  /\ phase' = "done"
  /\ UNCHANGED <<call, cur, passes, normal, slow>>

LoopPass ==
  /\ phase = "loop" /\ passes < MAX_CONFUSABLE_PASSES
  /\ ThisPass(cur) # cur
  /\ form = "lookup" \/ ~normal \/ Fold(policy, cur) # cur
  /\ cur' = ThisPass(cur)
  /\ passes' = passes + 1
  /\ normal' = (form # "lookup")
  /\ UNCHANGED <<call, phase, slow>>

Outlast ==
  /\ phase = "loop" /\ passes = MAX_CONFUSABLE_PASSES
  /\ phase' = "round"
  /\ UNCHANGED <<call, cur, passes, normal, slow>>

-----------------------------------------------------------------------------
(***************************************************************************)
(* converge_slow.                                                          *)
(***************************************************************************)
TakeSpan(spans) ==
  /\ span' = Head(spans)
  /\ left' = Tail(spans)
  /\ budget' = Len(Head(spans)) + MAX_CONFUSABLE_PASSES + 1
  /\ work' = 0

Round ==
  /\ phase = "round" /\ rounds < MAX_CONFUSABLE_PASSES
  /\ phase' = "span"
  /\ built' = <<>>
  /\ rounds' = rounds + 1
  /\ TakeSpan(Spans(cur))
  /\ UNCHANGED <<call, cur, passes, normal>>

SpanPass ==
  /\ phase = "span" /\ budget > 0
  /\ ThisPass(span) # span
  /\ span' = SkipCycle(span, ThisPass(span))
  /\ budget' = budget - 1
  /\ work' = work + 1
  /\ UNCHANGED <<call, phase, cur, passes, normal, rounds, built, left>>

SpanSettled ==
  /\ phase = "span" /\ budget > 0
  /\ ThisPass(span) = span
  /\ built' = built \o span
  /\ IF left = <<>>
     THEN phase' = "check" /\ UNCHANGED <<span, left, budget, work>>
     ELSE UNCHANGED phase /\ TakeSpan(left)
  /\ UNCHANGED <<call, cur, passes, normal, rounds>>

Check ==
  /\ phase = "check"
  /\ cur' = built
  /\ phase' = IF ThisPass(built) = built THEN "done" ELSE "round"
  /\ UNCHANGED <<call, passes, normal, slow>>

\* The same call on its own answer.
Again == phase = "done" /\ cur # text /\ Start(policy, form, cur)

Next ==
  \/ FirstPass \/ Settled \/ LoopPass \/ Outlast
  \/ Round \/ SpanPass \/ SpanSettled \/ Check \/ Again

Spec == Init /\ [][Next]_vars

-----------------------------------------------------------------------------
\* The answer is the fixed point the passes reach one at a time: neither the cap,
\* the cut into spans, nor a skipped cycle changes it.
ReachesFixedPoint == phase = "done" => cur = FixedPoint(policy, form, text)

\* The answer has no character left to fold, in whatever form it is looked up,
\* but the digits that "preserve" keeps.
Complete ==
  phase = "done" =>
    LET s == IF form = "lookup" THEN Composed(cur) ELSE cur
    IN \A i \in DOMAIN s : ~Folds(policy, s[i]) \/ Row(policy, s[i]) = <<s[i]>>

\* The two debug assertions of converge_slow hold: a span settles within its
\* budget, and the first round's answer passes the check.
SlowPathConverges ==
  /\ phase = "span" => budget > 0
  /\ phase = "round" => rounds = 0

\* "The result is invariant to the input's normal form": a text in NFC and its NFD,
\* a text in NFD and its NFC fold alike at lookup.
FormInvariant ==
  phase = "done" /\ form = "lookup" /\ text \in {NFC(text), NFD(text)} =>
    cur = FixedPoint(policy, form, NFC(text)) /\ cur = FixedPoint(policy, form, NFD(text))

\* "A few passes, not one per mark": a span is settled in a number of passes
\* that its length does not enter.
FewPasses == work <= CYCLE_RUN_MIN + 2

\* The loop, its slow path and the skip come to the fixed point, and soon.
LoopConverges == ReachesFixedPoint /\ Complete /\ SlowPathConverges /\ FewPasses
=============================================================================
