----------------------------- MODULE PresetSteps ----------------------------
(***************************************************************************)
(* The presets as lists of steps (presets/text.rs, keys.rs), what a step   *)
(* does in the context of a call (steps.rs), and the guard's view of a     *)
(* list: the characters some step of it can act on (guard.rs).  And the    *)
(* same of a TextPipeline (pipeline.rs), over the steps presets have.      *)
(***************************************************************************)
EXTENDS TextSteps, Transliteration, Emoji

CONSTANTS
  BlockScript,    \* the script whose transliteration owns a character
  EmojiBlocks,    \* emoji.rs, is_emoji_codepoint: whole blocks
  Contexts,       \* what a call brings with it
  HandBuilt       \* name to the options of a pipeline a caller built

ASSUME PresetStepsAssumption ==
  /\ DOMAIN BlockScript = Chars /\ EmojiBlocks \subseteq Chars
  /\ \A x \in Contexts : x.policy \in Policies /\ x.cldr \in BOOLEAN

-----------------------------------------------------------------------------
(***************************************************************************)
(* The lists.                                                              *)
(***************************************************************************)
CanonicalizeStrict ==
  <<"ResolveDeletions", "PolicyPreFold", "Nfkc", "StripBidi", "StripZeroWidth",
    "StripControl", "StripInvisible", "ConfusablesMarkFixedPoint",
    "DropRepeatedMarks", "Zalgo", "CollapseWs", "Nfc">>

StripFormat ==
  <<"StripBidi", "StripInvisibleRendering", "StripControl", "StripZeroWidth", "CollapseWs">>

StripObfuscation ==
  <<"ResolveDeletions", "PolicyPreFold", "Nfkc", "Zalgo0", "StripBidi", "StripZeroWidth",
    "StripInvisible", "Confusables", "StripAccents", "StripControl", "CollapseWs",
    "NfcIfNonAscii">>

\* Mutant: the invisible classes go after the folds, as they once did.
SkeletonKeyStripsLate ==
  <<"ResolveDeletions", "Nfkc", "Confusables", "PrototypeFold", "FixedPoint", "StripBidi",
    "StripInvisible", "StripControl", "StripZeroWidth", "CollapseWs">>
SkeletonKey ==
  <<"ResolveDeletions", "StripBidi", "StripInvisible", "StripControl", "StripZeroWidth",
    "Nfkc", "Confusables", "PrototypeFold", "FixedPoint", "CollapseWs">>

\* The key builders that transliterate begin alike.
KeyPrologue ==
  <<"ResolveDeletions", "PolicyPreFold", "Nfkc", "StripBidi", "StripInvisible", "FoldCase">>

CatalogKey ==
  KeyPrologue \o <<"FixedPoint", "FoldCase", "StripControl", "StripZeroWidth", "CollapseWs",
                   "NfcIfNonAscii">>

SearchKey ==
  KeyPrologue \o <<"Transliterate", "StripAccents", "FoldCase", "StripControl", "StripZeroWidth",
                   "CollapseWs", "NfcIfNonAscii">>

SortKey ==
  KeyPrologue \o <<"TranslitPreservingLatin", "FoldCase", "StripControl", "StripZeroWidth",
                   "CollapseWs", "DropRepeatedMarks", "Zalgo", "NfcIfNonAscii">>

MlNormalize ==
  <<"ResolveDeletions", "Nfkc", "Demojize", "TransliterateIfLang", "StripAccents", "Demojize",
    "FoldCase", "StripControl", "StripZeroWidth", "CollapseWs", "NfcIfNonAscii">>

WithoutFoldCase(list) == SelectSeq(list, LAMBDA step : step # "FoldCase")

Steps == [canonicalize |-> Canonicalize, canonicalize_strict |-> CanonicalizeStrict,
          strip_format |-> StripFormat, strip_obfuscation |-> StripObfuscation,
          skeleton_key |-> SkeletonKey, catalog_key |-> CatalogKey, search_key |-> SearchKey,
          sort_key |-> SortKey, ml_normalize |-> MlNormalize,
          ml_normalize_cased |-> WithoutFoldCase(MlNormalize)]

Names == DOMAIN Steps

\* What a preset's call can choose.
TakesPolicy == Names \ {"strip_format", "ml_normalize", "ml_normalize_cased"}
TakesLang == {"catalog_key", "search_key", "sort_key", "ml_normalize", "ml_normalize_cased"}
NamesEmoji == {"ml_normalize", "ml_normalize_cased"}

Takes(name, x) ==
  /\ x.policy # "numeric" => name \in TakesPolicy
  /\ x.lang # "none" => name \in TakesLang
  /\ x.cldr => name \in NamesEmoji

\* The builders whose whole list is run to a fixed point under a policy.
Repeated(name, x) == name \in {"search_key", "sort_key"} /\ x.policy # "numeric"

-----------------------------------------------------------------------------
(***************************************************************************)
(* A step in the context of its call.                                      *)
(***************************************************************************)
KeptVerbatim(c) == c \in AsciiChars \/ BlockScript[c] \in {"Latin", "Common", "Inherited", "Bopomofo"}

\* Runs of the other scripts are romanized each on its own.
LatinRuns(s) ==
  LET join(runs, c) == IF runs # <<>> /\ KeptVerbatim(Last(Last(runs))) = KeptVerbatim(c)
                       THEN [runs EXCEPT ![Len(runs)] = Append(@, c)]
                       ELSE Append(runs, <<c>>)
  IN FoldLeft(join, <<>>, s)

TranslitPreservingLatin(lang, s) ==
  FoldLeft(LAMBDA out, run :
             out \o IF KeptVerbatim(run[1]) THEN run ELSE Transliterate(lang, "preserve", <<>>, run),
           <<>>, LatinRuns(s))

\* ml_normalize romanizes for a language only, and drops what has no row.
Romanized(step, lang, s) ==
  IF step = "TransliterateIfLang" /\ lang = "none" THEN s
  ELSE Transliterate(lang, IF step = "Transliterate" THEN "preserve" ELSE "ignore", <<>>, s)

Applied(step, x, s) ==
  CASE step \in {"Transliterate", "TransliterateIfLang"} -> Romanized(step, x.lang, s)
    [] step = "TranslitPreservingLatin" -> TranslitPreservingLatin(x.lang, s)
    [] step = "Demojize" ->
         IF x.cldr THEN Demojize(Naming(FALSE, PipelineBaseline, "drop", <<>>), s) ELSE s
    [] OTHER -> Apply[step, x.policy, s]

\* The list the FixedPoint of a preset carries.
Inner(name) ==
  IF name = "catalog_key" THEN <<"Transliterate", "Confusables", "StripAccents">>
  ELSE <<"FoldCase", "Confusables", "Nfkc">>

\* Whether a loop that outlasts its cap may be finished by skipping its cycles.
CycleSkipApplies(inner) == ToSet(inner) \subseteq {"FoldCase", "Confusables", "Nfkc", "Nfc"}

\* A step as a loop: the list a pass of it runs, and its passes on a text.
ListBehind(name, step) == IF step = "FixedPoint" THEN Inner(name) ELSE <<step>>
PassesOf(name, step, s) ==
  CASE step # "FixedPoint" -> 1
    [] step = "FixedPoint" /\ CycleSkipApplies(Inner(name)) -> 2 * Len(s) + 8
    [] OTHER -> CONFUSABLE_FIXED_POINT_ITERS

\* What a pass of the loop holds after each of its steps.
Held(name, step, x, s) ==
  FoldLeft(LAMBDA texts, inner : Append(texts, Applied(inner, x, Last(texts))), <<s>>,
           ListBehind(name, step))

\* What the loop comes to: the passes beyond the cap only take marks away.
Converged(name, step, x, s) ==
  Iterate(LAMBDA t : Last(Held(name, step, x, t)), PassesOf(name, step, s), s)

-----------------------------------------------------------------------------
(***************************************************************************)
(* The guard: the characters a step can act on.  ASCII whitespace is       *)
(* judged apart, by where it stands.                                       *)
(***************************************************************************)
MarksIn(c) == Len(SelectSeq(NFD(<<c>>), LAMBDA m : m \in Marks))

ChangesUnderNfkc(c) == c \in HangulL \cup HangulV \cup HangulT \cup Backward \/ NFKC(<<c>>) # <<c>>

Translating == {"Transliterate", "TransliterateIfLang", "TranslitPreservingLatin"}

\* Whatever the call chooses: the mask is the list's.
IsDemojizable(c) ==
  \/ c \in DOMAIN SingleNames \cup EmojiBlocks \cup Invisibles \cup SkinTones \cup Tags \cup {Keycap}
  \/ \E k \in DOMAIN Sequences : k[1] = c

\* Mutant: jamo are no marks and their own NFKC, so the guard lets them pass.
ActsOnMarksOnly(step, c) ==
  CASE step \in {"StripControl", "ResolveDeletions"} -> In(c, {"control"})
    [] step = "CollapseWs" -> IsWhite(c) /\ c \notin AsciiChars
    [] step \in {"Confusables", "ConfusablesNfcFixedPoint", "ConfusablesMarkFixedPoint"} ->
         c \in Marks \cup DOMAIN Rows
    [] step \in {"Nfkc", "Nfc", "NfcIfNonAscii"} -> c \in Marks \/ NFKC(<<c>>) # <<c>>
    [] step = "StripBidi" -> In(c, {"bidi", "format"})
    [] step = "FoldCase" -> c \in DOMAIN CaseFold
    [] step = "PrototypeFold" -> In(c, {"prototype"})
    [] step \in Translating -> c \notin AsciiChars
    [] OTHER -> c \in Marks \/ In(c, {"zerowidth", "ignorable", "tag", "selector", "nonchar", "pua", "cgj"})

ActsOn(step, c) ==
  CASE step \in {"StripControl", "ResolveDeletions"} -> In(c, {"control"})
    [] step = "CollapseWs" -> IsWhite(c) /\ c \notin AsciiChars
    [] step = "FoldCase" -> c \in DOMAIN CaseFold
    [] step = "PrototypeFold" -> In(c, {"prototype"})
    [] step = "PolicyPreFold" -> FALSE
    [] step \in Translating -> c \notin AsciiChars
    [] step = "Demojize" -> c \notin AsciiChars /\ IsDemojizable(c)
    [] step \in {"Confusables", "ConfusablesNfcFixedPoint", "ConfusablesMarkFixedPoint"} ->
         c \in Marks \cup DOMAIN Rows
    [] step \in {"Nfkc", "Nfc", "NfcIfNonAscii"} -> c \in Marks \/ ChangesUnderNfkc(c)
    [] step \in {"Zalgo", "ZalgoIfOver"} -> c \in Marks \/ MarksIn(c) > DEFAULT_MAX_MARKS
    [] step = "Zalgo0" -> c \in Marks \/ MarksIn(c) > 0
    [] step = "DropRepeatedMarks" -> c \in Marks
    [] step = "StripAccents" -> MarksIn(c) > 0
    [] step = "StripBidi" -> In(c, {"bidi", "format"})
    [] step = "StripZeroWidth" -> In(c, {"zerowidth", "ignorable"})
    [] step \in {"StripInvisible", "StripInvisibleRendering"} ->
         In(c, {"tag", "selector", "nonchar", "pua", "ignorable", "cgj"})

\* A FixedPoint acts on what its own steps act on.
Reached(name) == ToSet(IF "FixedPoint" \in ToSet(Steps[name])
                       THEN SelectSeq(Steps[name], LAMBDA step : step # "FixedPoint") \o Inner(name)
                       ELSE Steps[name])

Actionable == [name \in Names |-> {c \in Chars : \E step \in Reached(name) : ActsOn(step, c)}]

Classify(name, s) ==
  IF \E i \in DOMAIN s : s[i] \in Actionable[name] THEN "actionable"
  ELSE IF \E i \in DOMAIN s :
            /\ IsWhite(s[i])
            /\ s[i] # Space \/ i = 1 \/ i = Len(s) \/ s[i - 1] = Space
       THEN "whitespace only"
       ELSE "inert"

-----------------------------------------------------------------------------
(***************************************************************************)
(* TextPipeline: what its options switch on, the one order its steps run   *)
(* in, and the eight named profiles.  A profile runs its list until it     *)
(* changes nothing, a pipeline built by hand runs it once.                 *)
(***************************************************************************)
\* The options a pipeline is built from; form "none" and zalgo -1 are unset.
Options(on, form, lang) ==
  [on |-> on, form |-> form, zalgo |-> -1, lang |-> lang, fixedPoint |-> TRUE]

Cleaned == {"collapse_whitespace", "strip_pua"}
Screened == {"strip_bidi", "strip_control", "strip_zero_width"}

ProfileSpec ==
  [scholarly_cyrillic_iso9 |->
     Options(Cleaned \cup {"transliterate", "fold_case", "strip_plane14"}, "Nfkc", "iso9"),
   library_catalog_key_eu |->
     Options(Cleaned \cup {"transliterate", "confusables", "strip_accents", "fold_case",
                           "strip_plane14"}, "Nfkc", "none"),
   normalize_web_input |-> Options(Cleaned \cup {"confusables"}, "Nfkc", "none"),
   ml_corpus_normalize |->
     Options(Cleaned \cup {"demojize", "strip_accents", "fold_case", "strip_plane14"},
             "Nfkc", "none"),
   search_index |->
     Options(Cleaned \cup {"transliterate", "strip_accents", "fold_case", "strip_plane14"},
             "Nfkc", "none"),
   code_context |-> Options(Screened, "none", "none"),
   llm_guardrail |->
     [Options(Cleaned \cup Screened \cup {"resolve_deletions", "confusables", "strip_accents",
              "fold_case", "strip_plane14"}, "Nfkc", "none") EXCEPT !.zalgo = 0],
   rag_ingest |->
     Options(Cleaned \cup Screened \cup {"resolve_deletions", "transliterate", "strip_accents",
             "strip_plane14"}, "Nfkc", "none")]

Profiles == DOMAIN ProfileSpec
Pipelines == ProfileSpec @@ HandBuilt

-----------------------------------------------------------------------------
\* Two options bring a second pass of their own, whitespace brings two strips.
StepsOf(o) ==
  o.on
  \cup (IF o.form # "none" THEN {"normalize"} ELSE {})
  \cup (IF o.zalgo >= 0 THEN {"strip_zalgo"} ELSE {})
  \cup (IF {"fold_case", "confusables"} \subseteq o.on THEN {"confusables_post", "fold_case_post"} ELSE {})
  \cup (IF "strip_invisible_marks" \in o.on /\ o.form # "none" THEN {"normalize_post"} ELSE {})
  \cup (IF "collapse_whitespace" \in o.on THEN {"strip_control", "strip_zero_width"} ELSE {})

STEP_ORDER ==
  <<"resolve_deletions", "normalize", "strip_invisible_marks", "normalize_post", "strip_zalgo",
    "strip_bidi", "strip_plane14", "demojize", "strip_accents", "transliterate", "confusables",
    "fold_case", "confusables_post", "fold_case_post", "strip_control", "strip_zero_width",
    "strip_pua", "collapse_whitespace">>

ListOf(o) == SelectSeq(STEP_ORDER, LAMBDA step : step \in StepsOf(o))

\* A digit policy needs a confusable fold, or the pipeline is refused.
AcceptsPolicy(o, policy) == policy = "numeric" \/ "confusables" \in o.on

-----------------------------------------------------------------------------
\* The emoji selectors stay behind a base that is registered for them, the
\* Mongolian ones behind a Mongolian letter (none of Chars is a Mongolian digit).
StripInvisibleMarks(s) ==
  LET mongolian(c) == c \in Alphanumeric /\ Script[c] = "Mongolian"
      keep(out, c) ==
        /\ ~In(c, {"cgj"})
        /\ In(c, {"selector"}) =>
             c \in {Vs15, Vs16} /\ out # <<>> /\ <<Last(out), c>> \in Registered
        /\ In(c, {"mongolian selector"}) => out # <<>> /\ mongolian(Last(out))
  IN FoldLeft(LAMBDA out, c : IF keep(out, c) THEN Append(out, c) ELSE out, <<>>, s)

StripTags(s) ==
  LET kept == SelectSeq([j \in DOMAIN s |-> j], LAMBDA j : ~In(s[j], {"tag"}) \/ InFlag(s, j))
  IN [k \in DOMAIN kept |-> s[kept[k]]]

\* Both folds run to a fixed point against the pipeline's own form, if it has one.
FoldAs(form, policy, s) ==
  IF form = "none" THEN Fold(policy, s)
  ELSE FixedPoint(policy, [Nfc |-> "NFC", Nfkc |-> "NFKC"][form], s)

PipelineStep(o, step, policy, s) ==
  CASE step \in {"normalize", "normalize_post"} -> IF o.form = "Nfc" THEN NFC(s) ELSE NFKC(s)
    [] step = "strip_invisible_marks" -> StripInvisibleMarks(s)
    [] step = "strip_zalgo" -> Zalgo(o.zalgo, s)
    [] step = "strip_bidi" -> StripBidi(s)
    [] step = "strip_plane14" -> StripTags(s)
    [] step = "demojize" -> Demojize(Naming(FALSE, PipelineBaseline, "drop", <<>>), s)
    [] step = "strip_accents" -> StripAccents(s)
    [] step = "transliterate" -> Transliterate(o.lang, "ignore", <<>>, s)
    [] step \in {"confusables", "confusables_post"} -> FoldAs(o.form, policy, s)
    [] step \in {"fold_case", "fold_case_post"} -> FoldCase(s)
    [] step = "resolve_deletions" -> ResolveDeletions(s)
    [] step = "strip_control" -> StripControl(s)
    [] step = "strip_zero_width" -> StripZeroWidth(s)
    [] step = "strip_pua" -> Drop(s, {"pua"})
    [] step = "collapse_whitespace" -> CollapseWs(s)

-----------------------------------------------------------------------------
(***************************************************************************)
(* Presets and pipelines as the one thing they are to their caller: a list *)
(* of steps, run once or until it changes nothing.                         *)
(***************************************************************************)
Callees == Names \cup DOMAIN Pipelines

CallAccepted(name, x) ==
  IF name \in Names THEN Takes(name, x)
  ELSE x.lang = "none" /\ ~x.cldr /\ AcceptsPolicy(Pipelines[name], x.policy)

StepList(name) == IF name \in Names THEN Steps[name] ELSE ListOf(Pipelines[name])

Done(name, step, x, s) ==
  IF name \in Names THEN Converged(name, step, x, s) ELSE PipelineStep(Pipelines[name], step, x.policy, s)

IsRepeated(name, x) == IF name \in Names THEN Repeated(name, x) ELSE Pipelines[name].fixedPoint

Once(name, x, s) == FoldLeft(LAMBDA t, step : Done(name, step, x, t), s, StepList(name))

\* What a call answers, without the guard and the ceiling.
Answer(name, x, s) ==
  Iterate(LAMBDA t : Once(name, x, t),
          IF IsRepeated(name, x) THEN CONFUSABLE_FIXED_POINT_ITERS + 1 ELSE 1, s)
=============================================================================
