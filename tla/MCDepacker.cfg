CONSTANTS
  PAGE = 22
  opcode_to_mode <- MCModes
  MAX_PRG_SIZE = 32
  MARGIN = 2
  ADDR_LIMIT = 484
  Addrs = {20, 48, 61, 85, 110, 454, 473}
  Bodies <- MCBodies
  JunkBytes = {3}
  Options <- MCOptions
  JunkAddrs = {0, 130}
SPECIFICATION DepackerSpec
INVARIANTS
  CpuTypeOK
  RangesApart
  FilesHoldTables
  Unpacked
PROPERTIES
  WritesOnlyItsOwn
  ImplementsUnsplitter
  Returns
