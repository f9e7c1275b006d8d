CONSTANTS
  PAGE = 22
  opcode_to_mode <- MCModes
  MAX_PRG_SIZE = 32
  MARGIN = 2
  ADDR_LIMIT = 44
  Addrs = {3, 40}
  Bodies <- MCBodies
  JunkBytes = {0, 4}
SPECIFICATION Spec
INVARIANTS
  TypeOK
  NoUnderrun
  MarkerOnlyAtEnd
  LookupInArgtable
  InBounds
PROPERTY
  Extracts
