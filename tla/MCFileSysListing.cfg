CONSTANTS
  FNAME_LEN = 3
  FILE_DENTRIES = 63
  DATA_BLOCK_SIZE = 2
  Dir <- MC_Dir
  Inodes <- MC_Inodes
  N_DATA_BLOCKS = 4
  DirName <- MC_DirName
  RegName <- MC_RegName
  Queries <- MC_Queries
  NBytes = {1, 3}
  DirFds = {d1}
  RegFds = {f1}
  MAX_LISTING = 5
  POS_FLOOR <- MC_POS_FLOOR
  NONE = NONE
SPECIFICATION Spec
INVARIANTS
  ListingComplete
