SPECIFICATION DataSpec
CONSTANTS
  Width = 3
  Local = {"x", "s", "k"}
  Target = "x"
  NoLocal = "literal"
  Key = {1, 2}
  Programs <- AllPrograms
  Half = 8
  Lines <- MCLines
  User = {"u", "v"}
  Tag = {"t"}
  Loops <- AllLoops
  RawPaths <- MCRaw
  ScriptPaths <- MCScript
  Texts <- MCTexts
  Patterns <- MCPatterns
  Matchers <- MCMatchers
  Counts = {1, 9}
  Rooms = {0, 3}
  Rank <- MCRank
  Suffix <- MCSuffix
  Spelling <- MCSpelling
  Assets <- MCAssets
  MaxReadBytes = 3
  MaxWriteBytes = 3
  MaxListEntries = 2
  MaxFindEntries = 3
  MaxSearchFiles = 2
  MaxSearchFileBytes = 3
  MaxSearchMatches = 2
  MaxSuggestions = 2
  WordBits = 4
  Significand = 2
  Wide = {"w"}
  Blank = {" "}
  MaxRange = 12
  CharRank <- MCCharRank
CONSTRAINT Kept
VIEW Seen
INVARIANTS
  LoopParity
  JsonlParity
  TextsSurvive
  ValuesKeepTheirLaws
  ProgramsAreJudged
  DocumentsAreRead
PROPERTIES
  ToolsKeepToTheirRoots
  ChangesAreTold
  AnswersAreWhole
CHECK_DEADLOCK FALSE
