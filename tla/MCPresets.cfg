SPECIFICATION Spec
CONSTANTS
  Chars <- MCChars
  Marks <- MCMarks
  AsciiChars <- Ascii
  Alphanumeric <- MCAlphanumeric
  Lower <- MCNone
  Joiners = {}
  Ccc <- MCCcc
  Canonical <- MCCanonical
  Compatible <- MCCompatible
  Composite <- MCComposite
  Excluded <- MCExcluded
  HangulL <- MCHangulL
  HangulV <- MCHangulV
  HangulT <- MCHangulT
  Backward <- MCBackward
  Rows <- MCRows
  Tr39Rows <- MCTr39Rows
  AsciiDigits <- MCAsciiDigits
  Class <- MCClass
  Script <- MCScript
  CaseFold <- MCCaseFold
  Space = "space"
  Prototype <- MCPrototype
  Registered <- MCRegistered
  Flags <- MCFlags
  DEFAULT_MAX_MARKS = 3
  CONFUSABLE_FIXED_POINT_ITERS = 3
  ScriptClass <- MCScriptClass
  Role <- MCNone
  Default <- MCDefault
  Overrides <- MCOverrides
  RegisteredRows <- MCNone
  ScriptName <- MCScript
  BlockScript <- MCScript
  Discriminators <- MCNone
  EmojiPresentation <- MCPresentation
  EmojiYes <- MCEmojiYes
  EmojiProperty <- MCEmojiProperty
  RegionalIndicators = {}
  SkinTones = {}
  Tags <- MCTags
  KeycapBases <- MCAsciiDigits
  Zwj = "zwj"
  Vs15 = "vs15"
  Vs16 = "vs16"
  Keycap = "keycap"
  SingleNames <- MCSingleNames
  Sequences <- MCSequences
  NonEmojiRows <- MCNonEmoji
  Tr39ClaimedRows = {}
  FoldsToWord <- MCFoldsToWord
  Whitespace <- MCWhitespace
  NameBreak = "break"
  MAX_EMOJI_SEQ_LEN = 3
  EmojiBlocks <- MCEmojiBlocks
  HandBuilt <- MCHandBuilt
  Contexts <- MCContexts
  Texts <- MCTexts
  Bytes <- MCBytes
  MAX_NORMALIZE_OUTPUT_BYTES = 5
INVARIANTS GuardSound Idempotent VariantsAlike GrowthBounded DigitsKept
CHECK_DEADLOCK FALSE
