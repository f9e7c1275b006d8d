CONSTANTS
  Key <- MCKey
  MAX_COUNT = 4
  Block = {b1, b2, b3}
  Sizes <- MCSizes
  CHUNK_BYTES = 7
  CHUNKPOOL_CHUNKS_MAX = 3
  Byte = {0, 1}
  Mem <- MCMem
  INT_MAX = 7
  MAX_LEN = 7
SPECIFICATION ContainersSpec
INVARIANTS
  ContainersTypeOK
  ElementsApart
  GivenBack
PROPERTIES
  IsKeySet
  IsByteString
  ContainersReturn
