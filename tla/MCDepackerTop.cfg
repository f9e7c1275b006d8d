CONSTANTS
  PAGE = 22
  opcode_to_mode <- MCModes
  MAX_PRG_SIZE = 32
  MARGIN = 2
  ADDR_LIMIT = 484
  Addrs = {300, 481, 482}
  Bodies <- MCTopBodies
  JunkBytes = {3}
  Options <- MCTopOptions
  JunkAddrs = {300, 481, 482}
SPECIFICATION DepackerSpec
INVARIANT
  BranchesAlways
