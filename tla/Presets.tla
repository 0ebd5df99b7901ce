------------------------------- MODULE Presets ------------------------------
(***************************************************************************)
(* The presets engine and TextPipeline.process.  A preset classifies its   *)
(* text, answers at once when no step can act on it, and otherwise applies *)
(* its steps one by one, each checked against the output ceiling           *)
(* (presets/runner.rs); a pipeline has neither guard nor ceiling.          *)
(*                                                                         *)
(*   preset, ctx, text      the call, of a preset or a pipeline            *)
(*   again                  it is a call on the answer of the same call    *)
(*   phase, cur, at         the text in hand and the step it has come to,  *)
(*                          0 while the guard decides                      *)
(*   passes                 passes of the fixed point in hand, or of a     *)
(*                          list that is repeated as a whole               *)
(*   from                   the text such a pass of the list was given     *)
(***************************************************************************)
EXTENDS PresetSteps

CONSTANTS
  Texts,
  Bytes,                        \* UTF-8 length of every character
  MAX_NORMALIZE_OUTPUT_BYTES    \* limits.rs: 10 MiB

ASSUME PresetsAssumption ==
  /\ Texts \subseteq Seq(Chars)
  /\ Bytes \in [Chars -> 1..4]
  /\ MAX_NORMALIZE_OUTPUT_BYTES \in Nat

VARIABLES preset, ctx, text, again, phase, cur, at, passes, from

call == <<preset, ctx, text, again>>
vars == <<call, phase, cur, at, passes, from>>

TypeOK ==
  /\ preset \in Callees /\ ctx \in Contexts
  /\ text \in Seq(Chars) /\ cur \in Seq(Chars) /\ from \in Seq(Chars) /\ again \in BOOLEAN
  /\ phase \in {"guard", "step", "done", "failed"}
  /\ at \in 0..(Len(StepList(preset)) + 1)
  /\ passes \in 0..CONFUSABLE_FIXED_POINT_ITERS

-----------------------------------------------------------------------------
(***************************************************************************)
(* The runner.                                                             *)
(***************************************************************************)
Size(s) == FoldLeft(LAMBDA n, c : n + Bytes[c], 0, s)

\* Mutant: growth is measured from what the step was given.
TooLongFromStep(s) == preset \in Names /\ Size(s) > Size(cur) + MAX_NORMALIZE_OUTPUT_BYTES
TooLong(s) == preset \in Names /\ Size(s) > Size(text) + MAX_NORMALIZE_OUTPUT_BYTES

Start(name, x, s) ==
  /\ preset' = name /\ ctx' = x /\ text' = s
  /\ phase' = "guard" /\ cur' = s /\ at' = 0 /\ passes' = 0 /\ from' = s

Init ==
  /\ preset \in Callees /\ ctx \in Contexts /\ text \in Texts
  /\ CallAccepted(preset, ctx)
  /\ again = FALSE
  /\ phase = "guard" /\ cur = text /\ at = 0 /\ passes = 0 /\ from = text

\* The guard knows the rows of the default policy only.
Spared == preset \in Names /\ ctx.policy = "numeric" /\ Classify(preset, text) # "actionable"

FastPath ==
  /\ phase = "guard" /\ Spared
  /\ cur' = IF Classify(preset, text) = "inert" THEN text ELSE CollapseWs(text)
  /\ phase' = "done"
  /\ UNCHANGED <<call, at, passes, from>>

SlowPath ==
  /\ phase = "guard" /\ ~Spared
  /\ phase' = "step" /\ at' = 1
  /\ UNCHANGED <<call, cur, passes, from>>

\* The step in hand has come to s.
Goto(s) ==
  /\ cur' = s /\ at' = at + 1
  /\ phase' = IF at = Len(StepList(preset)) /\ ~IsRepeated(preset, ctx) THEN "done" ELSE "step"

Fail == phase' = "failed" /\ UNCHANGED <<call, cur, at, passes, from>>

InList == phase = "step" /\ at <= Len(StepList(preset))

ApplyStep ==
  /\ InList /\ StepList(preset)[at] # "FixedPoint"
  /\ \E next \in {Done(preset, StepList(preset)[at], ctx, cur)} :
       \/ TooLong(next) /\ Fail
       \/ ~TooLong(next) /\ Goto(next) /\ UNCHANGED <<call, passes, from>>

\* The ceiling holds for every step of a pass.
FixedPointPass ==
  /\ InList /\ StepList(preset)[at] = "FixedPoint"
  /\ passes < CONFUSABLE_FIXED_POINT_ITERS
  /\ \E held \in {Held(preset, "FixedPoint", ctx, cur)} :
       \/ (\E i \in DOMAIN held : TooLong(held[i])) /\ Fail
       \/ /\ ~(\E i \in DOMAIN held : TooLong(held[i]))
          /\ Last(held) = cur
          /\ Goto(cur) /\ passes' = 0
          /\ UNCHANGED <<call, from>>
       \/ /\ ~(\E i \in DOMAIN held : TooLong(held[i]))
          /\ Last(held) # cur
          /\ cur' = Last(held) /\ passes' = passes + 1
          /\ UNCHANGED <<call, phase, at, from>>

\* converge_slow finishes skeleton_key's loop; its passes only take marks away
\* and so do not meet the ceiling.  catalog_key's loop gives up as it stands.
FixedPointOutlasts ==
  /\ InList /\ StepList(preset)[at] = "FixedPoint"
  /\ passes = CONFUSABLE_FIXED_POINT_ITERS
  /\ Goto(IF CycleSkipApplies(Inner(preset)) THEN Converged(preset, "FixedPoint", ctx, cur) ELSE cur)
  /\ passes' = 0
  /\ UNCHANGED <<call, from>>

\* Mutant: the list of a key under a policy is run once.
SettledAfterOne == TRUE
\* A key's first pass is never its last, a profile's is if it changes nothing;
\* the cap ends the others.
Settled ==
  \/ passes = CONFUSABLE_FIXED_POINT_ITERS
  \/ cur = from /\ (passes > 0 \/ preset \notin Names)

\* The end of a list that is repeated: run it again, or answer.
EndOfPass ==
  /\ phase = "step" /\ at > Len(StepList(preset))
  /\ \/ Settled /\ phase' = "done" /\ UNCHANGED <<at, passes, from>>
     \/ ~Settled /\ at' = 1 /\ passes' = passes + 1 /\ from' = cur /\ UNCHANGED phase
  /\ UNCHANGED <<call, cur>>

\* The same call on its own answer.
Again ==
  /\ phase = "done" /\ cur # text /\ ~again
  /\ again' = TRUE
  /\ Start(preset, ctx, cur)

Next ==
  \/ FastPath \/ SlowPath \/ ApplyStep
  \/ FixedPointPass \/ FixedPointOutlasts \/ EndOfPass \/ Again

Spec == Init /\ [][Next]_vars

-----------------------------------------------------------------------------
\* The answer the guard gives without running a step is the one the steps give.
GuardSound == phase = "done" /\ at = 0 => cur = Answer(preset, ctx, text)

\* A preset or a profile accepts its own answer and returns it, and no step of a
\* preset's list exposes work for a step already done: each leaves the answer
\* alone.
AnswersItself == again /\ preset \in Names \cup Profiles => phase # "failed" /\ (phase = "done" => cur = text)

NothingLeft ==
  phase = "done" /\ preset \in Names => \A step \in Reached(preset) : Applied(step, ctx, cur) = cur
Idempotent == AnswersItself /\ NothingLeft

\* No step leaves the text longer than the ceiling allows over the text the
\* preset was called with, however many steps the growth is spread over.
GrowthBounded == preset \in Names => Size(cur) <= Size(text) + MAX_NORMALIZE_OUTPUT_BYTES

\* Under "preserve" no digit of another script is lost or rewritten, unless the
\* preset romanizes it.
DigitsKept ==
  LET kept(s) == SelectSeq(s, LAMBDA c : /\ c \in DOMAIN Rows \ AsciiDigits
                                         /\ Rows[c] \in {<<d>> : d \in AsciiDigits}
                                         /\ Compatible[c] = <<c>>)
  IN phase = "done" /\ ctx.policy = "preserve" /\ preset \in Names \ TakesLang
     /\ ~(\E i \in DOMAIN text : In(text[i], {"erase"})) =>
       kept(cur) = kept(text)

\* Canonically equivalent texts, unless an erase falls on jamo, which are a cell
\* each where the syllable is one.
Spellings ==
  LET erasesJamo == /\ \E i \in DOMAIN text : In(text[i], {"erase"})
                    /\ \E i \in DOMAIN text : text[i] \in HangulL \cup HangulV \cup HangulT
  IN IF preset \in {"strip_format", "code_context"} \/ erasesJamo THEN {} ELSE {NFC(text), NFD(text)}

\* The text without its invisible characters, for a preset that strips them.
Shown ==
  IF /\ preset \in (Names \ NamesEmoji) \ {"strip_format"}
     /\ ~(\E i \in DOMAIN text : In(text[i], {"erase", "flag", "emoji style"}))
  THEN {Drop(text, {"bidi", "format", "zerowidth", "ignorable", "control",
                    "selector", "tag", "nonchar", "pua", "cgj"})}
  ELSE {}

\* Texts that ought to be one have one answer.  Neither its spelling nor what it
\* does not show varies a text's answer, and search_key sees no more than
\* sort_key: it tells apart nothing that sort_key joins.
VariantsAlike ==
  LET alike == {[of |-> preset, texts |-> (Spellings \cup Shown) \ {text}, answers |-> {cur}]}
      joined == IF preset = "sort_key"
                THEN {[of |-> "search_key", texts |-> {cur, text}, answers |-> {}]}
                ELSE {}
  IN phase = "done" =>
       \A g \in alike \cup joined :
         Cardinality(g.answers \cup {Answer(g.of, ctx, s) : s \in g.texts}) = 1
=============================================================================
