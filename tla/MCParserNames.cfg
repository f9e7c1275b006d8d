SPECIFICATION Spec
CONSTANTS
  Programs <- MCMnemonics
  SourceFiles <- MCFiles
  YYMAXDEPTH = 24
INVARIANTS
  OpcodesDistinct
