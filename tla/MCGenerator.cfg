CONSTANTS
  BinaryName = {}
  Name <- MCNames
  Pools = {}
  LIMIT = 131072
  MAX_DEPTH = 40
  MAX_SRC_BUFFER_DEPTH = 10
  Sources = {}
  Files <- NoFiles
  Calls <- MCCalls
SPECIFICATION SpecGenerator
INVARIANTS
  AssembledAsLaidOut
  RefusedIfTooLarge
  ScannerAtRest
