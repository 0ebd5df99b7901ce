SPECIFICATION Spec
CONSTANTS
  Chars <- MCChars
  Marks <- MCMarks
  Ccc <- MCCcc
  Canonical <- MCCanonical
  Compatible <- MCCompatible
  Composite <- MCComposite
  Excluded <- MCExcluded
  HangulL <- MCHangulL
  HangulV <- MCHangulV
  HangulT <- MCHangulT
  Backward <- MCBackward
  AsciiChars <- MCAscii
  Alphanumeric <- MCAlphanumeric
  Lower <- MCNone
  Joiners = {}
  Space = "space"
  ScriptClass <- MCScriptClass
  Role <- MCRole
  Default <- MCDefault
  Overrides <- MCOverrides
  RegisteredRows <- MCRegisteredRows
  ScriptName <- MCScriptName
  Discriminators <- MCDiscriminators
  Texts <- MCTexts
  Langs <- MCLangs
  ReplaceWith <- MCReplaceWith
  EmojiPresentation <- MCPresentation
  EmojiYes <- MCEmojiYes
  EmojiProperty <- MCEmojiYes
  RegionalIndicators <- MCIndicators
  SkinTones <- MCTones
  Tags <- MCTags
  KeycapBases <- MCBases
  Zwj = "zwj"
  Vs15 = "vs15"
  Vs16 = "vs16"
  Keycap = "keycap"
  SingleNames <- MCNames
  Sequences <- MCSequences
  NonEmojiRows <- MCNonEmoji
  Tr39ClaimedRows <- MCTr39
  FoldsToWord <- MCFolds
  Whitespace <- MCWhitespace
  NameBreak = "break"
  MAX_EMOJI_SEQ_LEN = 3
  ScannedTexts <- MCScannedTexts
  Hows <- MCHows
  Replacements <- MCReplacements
  Providers <- MCProviders
  FoldedTexts <- MCFoldedTexts
  Rows <- MCRows
  Tr39Rows <- MCTr39Rows
  AsciiDigits <- MCAsciiDigits
  MAX_CONFUSABLE_PASSES = 2
  CYCLE_RUN_MIN = 4
INVARIANTS LoopConverges FormInvariant ReportTrue SpellingInvariant OwnPieces OneScanner AnswerSettled NamesSound
CHECK_DEADLOCK FALSE
