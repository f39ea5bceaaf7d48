SPECIFICATION PartsSpec
CONSTANTS
  Server = {s1, s2}
  Token = {t1, t2, t3}
  FreedUnbegun = FALSE
  Doc = {d1}
  word1 = word1
  word2 = word2
  TokenArrays <- Arrays
  KeepsAll = FALSE
  MaxResults = 3
  MaxFlight = 3
  MaxLen = 4
  MaxInsert = 2
  MaxEdits = 3
  Line = {0, 1, 2}
  Char = {0, 2}
  Type = {0, 1, 31}
  MaxTokens = 3
  IntBits = 32
  MaskBits = 64
  organize = organize
  fix = fix
  both = both
  NULL = NULL
  lazy = lazy
  tracked = tracked
  untitled = untitled
  Title <- Titles
  Edits <- WithEdit
  Commands <- WithCommand
  CodeActionOnSave = TRUE
  FormatOnSave = TRUE
  StaysCurrent = TRUE
  SwitchesTab = FALSE
  MayCrash = TRUE
  MaxCalls = 3
INVARIANTS
  BarShowsWork CacheIsResult  ConfiguredHighlighted
  UpdatesSaved
PROPERTIES  ChainEnds PromptReturns CleanupEnds
