CONSTANTS
  BinaryName = {"f", "missing"}
  Name = {"a", "b", "c", "d"}
  Pools = {}
  LIMIT = 131072
  MAX_DEPTH = 7
  MAX_SRC_BUFFER_DEPTH = 3
  Files <- MCFiles
  Sources <- MCWords
SPECIFICATION SpecAssembler
INVARIANT
  WordsAreTwosComplement
