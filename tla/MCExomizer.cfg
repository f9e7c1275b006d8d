CONSTANTS
  PAGE = 256
  opcode_to_mode <- MCModes
  INT_MAX = 131071
  LONG_MAX = 1048575
  Numbers <- MCNumbers
  Lines <- MCLines
  Disks <- MCDisks
SPECIFICATION ExoSpec
INVARIANTS
  ExoTypeOK
  SettingsValid
  SettingsAsGiven
  CrunchesItsFiles
