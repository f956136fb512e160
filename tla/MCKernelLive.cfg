CONSTANTS
  Files <- MC_FilesBad
  FileType <- MC_FileTypeBad
  Executables = {"shell", "broken"}
  SHELL = "shell"
  NONE = NONE
SPECIFICATION Spec
CONSTANTS
  MAXNUMTASK = 2
  MAXOPENFILE = 3
  TERMINAL_NUM = 2
  BadImages = {"broken"}
  Statuses = {0}
  FreqInputs = {0, 2, 1024}
  InitRegA = {38, 47}
PROPERTIES
  RtcReadReturns
INVARIANTS
  RateFollowsAcceptedWrites
