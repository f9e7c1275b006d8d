SPECIFICATION Spec
CONSTANTS
  Programs <- MCPrograms
  SourceFiles <- MCFiles
  YYMAXDEPTH = 24
INVARIANTS
  ParserTypeOK
  ParsesAsMeant
  ArgumentsWait
  SplitsAsAssembled
PROPERTIES
  NothingReadAhead
  Parses
