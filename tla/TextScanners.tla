----------------------------- MODULE TextScanners ----------------------------
(***************************************************************************)
(* The three scans that are followed turn by turn, each a machine of its   *)
(* own: a call of the transliteration engine, an emoji operation and the   *)
(* fold of confusables.  They share the text in hand and its phase, and no *)
(* state, so a behaviour is one of them: `machine` says which.             *)
(***************************************************************************)
EXTENDS Transliteration, Emoji

CONSTANTS
  Texts, Langs, ReplaceWith,                         \* Transliterator
  ScannedTexts, Hows, Replacements, Providers,       \* EmojiScanner
  FoldedTexts, Rows, Tr39Rows, AsciiDigits,          \* ConfusableFold
  MAX_CONFUSABLE_PASSES, CYCLE_RUN_MIN

ASSUME TextScannersAssumption ==
  /\ Texts \cup ScannedTexts \cup FoldedTexts \subseteq Seq(Chars)
  /\ ReplaceWith \cup Replacements \subseteq Seq(Chars) /\ ReplaceWith # {}
  /\ MAX_CONFUSABLE_PASSES \in Nat \ {0} /\ CYCLE_RUN_MIN \in Nat \ {0}

VARIABLES
  machine, text, phase,
  kind, lang, buffer, at, walk, report,
  op, how, replacement, provider, scan, names,
  policy, form, cur, passes, normal, rounds, built, span, left, budget, work

Engine == INSTANCE Transliterator
Scanner == INSTANCE EmojiScanner WITH Texts <- ScannedTexts
Folder == INSTANCE ConfusableFold WITH Texts <- FoldedTexts

engineVars == <<kind, lang, buffer, at, walk, report>>
scannerVars == <<op, how, replacement, provider, scan, names>>
folderVars ==
  <<policy, form, cur, passes, normal, rounds, built, span, left, budget, work>>
vars == <<machine, text, phase, engineVars, scannerVars, folderVars>>

\* A machine that is not the one that runs.
EngineOff ==
  /\ kind = <<"none", <<>>>> /\ lang = "none" /\ buffer = <<>> /\ at = 1
  /\ walk = NewWalk /\ report = <<>>
ScannerOff ==
  /\ op = "none" /\ how = <<>> /\ replacement = <<>> /\ provider = <<>>
  /\ scan = NewScan(<<>>) /\ names = {}
FolderOff ==
  /\ policy = "none" /\ form = "none" /\ cur = <<>> /\ passes = 0 /\ normal = FALSE
  /\ rounds = 0 /\ built = <<>> /\ span = <<>> /\ left = <<>> /\ budget = 0 /\ work = 0

Init ==
  \/ machine = "transliterator" /\ Engine!Init /\ ScannerOff /\ FolderOff
  \/ machine = "emoji" /\ Scanner!Init /\ EngineOff /\ FolderOff
  \/ machine = "fold" /\ Folder!Init /\ EngineOff /\ ScannerOff

EngineStep ==
  /\ machine = "transliterator"
  /\ Engine!Next
  /\ UNCHANGED <<machine, scannerVars, folderVars>>

ScannerStep ==
  /\ machine = "emoji"
  /\ Scanner!Next
  /\ UNCHANGED <<machine, engineVars, folderVars>>

FolderStep ==
  /\ machine = "fold"
  /\ Folder!Next
  /\ UNCHANGED <<machine, engineVars, scannerVars>>

Next == EngineStep \/ ScannerStep \/ FolderStep

Spec == Init /\ [][Next]_vars

-----------------------------------------------------------------------------
\* find, strict and the error modes tell of the same characters.
ReportTrue == machine = "transliterator" => Engine!ReportTrue

\* The answer does not depend on the normal form the text is spelled in.
SpellingInvariant == machine = "transliterator" => Engine!SpellingInvariant

\* Nothing a character wrote is taken by another but an inherent vowel.
OwnPieces == machine = "transliterator" => Engine!OwnPieces

\* The window answers as the whole text would, and Python's loop as the core's.
OneScanner == machine = "emoji" => Scanner!OneScanner

\* No emoji comes of taking others out, and no name is named again.
AnswerSettled == machine = "emoji" => Scanner!AnswerSettled

\* A name stands apart, and a selector behind a base does not change it.
NamesSound == machine = "emoji" => Scanner!NamesSound

\* The capped loop, its slow path and the skip come to the fixed point, and soon.
LoopConverges == machine = "fold" => Folder!LoopConverges

\* Texts that differ in their normal form only fold alike.
FormInvariant == machine = "fold" => Folder!FormInvariant
=============================================================================
