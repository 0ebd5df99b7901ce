SPECIFICATION Spec
CONSTANTS
  Chars <- MCChars
  Marks <- MCMarks
  AsciiChars <- Ascii
  Alphanumeric <- MCAlphanumeric
  Space = " "
  Lower <- MCLower
  Joiners = {"zwnj", "zwj"}
  Ccc <- MCCcc
  Canonical <- MCCanonical
  Compatible <- MCCompatible
  Composite <- MCComposite
  Excluded <- MCExcluded
  HangulL = {"kiyeok"}
  HangulV = {"jungA"}
  HangulT = {}
  Backward = {}
  Rows <- MCRows
  Tr39Rows <- MCTr39Rows
  AsciiDigits <- AsciiNumbers
  Class <- MCClass
  Script <- MCScriptName
  CaseFold <- MCCaseFold
  Prototype <- MCPrototype
  Registered <- MCRegistered
  Flags <- MCFlags
  DEFAULT_MAX_MARKS = 3
  CONFUSABLE_FIXED_POINT_ITERS = 8
  ScriptClass <- MCScriptClass
  Role <- MCRole
  Default <- MCDefault
  Overrides <- MCOverrides
  RegisteredRows <- MCNone
  ScriptName <- MCScriptName
  Discriminators <- MCDiscriminators
  Bytes <- MCBytes
  AlphabeticSymbols = {"circled"}
  Clustered <- MCClustered
  NamedEntities <- MCNamedEntities
  DigitValue <- MCDigitValue
  CharAt <- MCCharAt
  Illegal <- MCIllegal
  ControlBlank <- MCControlBlank
  WINDOWS_RESERVED <- MCReserved
  ContextWord <- MCContextWord
  Niqqud = {"qamats"}
  Tashkeel = {"fatha", "tatweel"}
  HardBoundaries <- MCHardBoundaries
  ReverseTable <- MCReverseTable
  AsciiUppercase <- CapitalAscii
  AsciiLowercase <- MCAsciiLowercase
  NativeUppercase <- MCNativeUppercase
  CodePoint <- CodePoints
  ScriptRanges <- MCScriptRanges
  AssignedRanges <- MCAssignedRanges
  CommonCarveouts <- MCCarveouts
  StrongLtr <- MCStrongLtr
  StrongRtl <- MCStrongRtl
  Alphabetic <- MCAlphabetic
  White <- MCWhite
  WordJoiners <- MCWordJoiners
  UpstreamSources <- MCUpstream
  AsciiGraphic <- MCAsciiGraphic
  MAX_BATCH_SIZE = 3
  LabelSeparators <- MCLabelSeparators
  Stop = "."
  IdnaMap <- MCIdnaMap
  IdnaRefused <- MCIdnaRefused
  AceLabels <- MCAceLabels
  HexDigits <- MCHexDigits
  Colon = ":"
  Percent = "%"
  OpenBracket = "["
  CloseBracket = "]"
  Contractions <- MCContractions
  TagByte <- MCTagByte
  CancelTag = "canceltag"
  VariationByte <- MCVariationByte
  PresentationSelectors <- MCPresentation
  PercentSign = "%"
  HexValue <- HexCapital
  SneakyBit <- MCSneakyBit
  ZeroWidthBit <- MCZeroWidthBit
  BitSeparators = {"zwj", "wj"}
  Gap = "zwsp"
  MultiByte <- MCMultiByte
  TokenBoundaries = {"tab", "lf", "vt", "cr", " ", "nel", "ls"}
  LineBreaks = {"lf", "vt", "cr", "nel", "ls"}
  CarriageReturn = "cr"
  SoftHyphen = "shy"
  BidiOverrides = {"rlo"}
  BidiScopes = {"lri"}
  RtlMarks = {"rlm"}
  DigitSystem <- MCDigitSystem
  StrikeMarks = {"strike", "overlay"}
  UnderlineMarks = {"underline"}
  Undrawn <- MCUndrawn
  EnclosingMarks = {"circle", "keycap", "cymark"}
  CyrillicEnclosingMarks = {"cymark"}
  Typography = {"endash", "rsquo", "ellipsis"}
  CjkPunctuation = {"fullbang"}
  OrdinaryWhole <- MCOrdinaryWhole
  OrdinaryCompat <- MCOrdinaryCompat
  Wrap <- MCWrap
  LeetSub <- MCLeetSub
  Apostrophes = {"'", "rsquo"}
  Brackets = {"(", ")", "[", "]"}
  OrdinalSuffixes <- MCOrdinalSuffixes
  Units <- MCUnits
  TrailingSymbols = {"@", "$", "|"}
  SegmentJoiners <- MCSegmentJoiners
  SmallLetters <- MCSmall
  CapitalLetters <- MCCapital
  IdeographicVariations <- MCIvd
  SupplementarySelectors <- MCSupplementary
  LexiconWords <- MCLexiconWords
  Prepends = {"number"}
  ZeroWidthPrepends = {"number"}
  RegionalIndicators = {"riA"}
  EmojiPresentation <- MCEmojiPresentation
  EmojiYes <- MCEmojiYes
  CellClass <- MCCellClass
  TextStyle = "vs15"
  EmojiStyle = "vs16"
  EnclosingKeycap = "keycap"
  KeycapBases <- MCKeycapBases
  Typographic <- MCTypographic
  LogBreaking <- MCLogBreaking
  ZeroWidthJoiner = "zwj"
  Tab = "tab"
  Calls <- MCCalls
  Files <- MCFiles
  FileCalls <- MCFileCalls
  Disks <- MCDisks
INVARIANT ContextKept
PROPERTIES NamesStand SpellingIgnored PiecesSuffice RoundTrips HostCanonical PayloadDecoded SignsSeen OneWritingSystem
CHECK_DEADLOCK FALSE
