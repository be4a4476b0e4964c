\* Libraries, pins, voices, machine, texts, tables and streams. "/" is the line feed.
SPECIFICATION ToolsSpec
CONSTANTS
  Variants <- SupportedVariants
  Unsupported = {"avx512"}
  Pids = {p1, p2}
  MaxBuilds = 2
  MaxFaults = 2
  MaxWriteFaults = 2
  Recorders = {s1, s2}
  VoiceNames = {"v1", "v2", "v3"}
  MaxRecent = 2
  MaxRecords = 4
  Quotas = {0, 1, 3, 6}
  Limits = {0, 2, 5}
  MaxThreads = 14
  Texts <- SpeechTexts
  TokenLimits = {1, 2, 3, 4}
  Lengths = {1, 118, 119}
  Values = {0, 1, 127, 128, 300, 16383, 16384}
  Chars = {"a", "Q", "1", ".", ",", "-", " ", "/"}
  MinClause = 3
  MaxText = 4
  MaxChunk = 2
  MaxTextChars = 3
  MaxEmptyEvents = 1
  MaxParts = 2
  MaxEvents = 6
INVARIANTS
  UsageTrue
  HostFits
  TextsWhole
  TablesWhole
  ClausesSettled
  ClausesWhole
  StreamAnswered
  SpokenOnce
PROPERTIES
  LibrariesKept
  PinsCoherent
CHECK_DEADLOCK FALSE
