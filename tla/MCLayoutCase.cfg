CONSTANTS
  PAGE = 22
  opcode_to_mode <- MCModes
  MAX_PRG_SIZE = 32
  MARGIN = 2
  ADDR_LIMIT = 484
  Addrs = {48, 85, 110, 472}
  Bodies <- MCBodies
  JunkBytes = {0}
  Options <- MCMixedOptions
  JunkAddrs = {0, 130}
SPECIFICATION LayoutSpec
INVARIANT
  EveryTablePlaced
