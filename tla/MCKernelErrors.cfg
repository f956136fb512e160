CONSTANTS
  Files <- MC_Files
  FileType <- MC_FileType
  Executables = {"shell"}
  SHELL = "shell"
  NONE = NONE
SPECIFICATION Spec
CONSTANTS
  MAXNUMTASK = 2
  MAXOPENFILE = 5
  TERMINAL_NUM = 1
  BadImages = {}
  Statuses = {0, 255}
  FreqInputs = {}
  InitRegA = {38}
INVARIANTS
  ErrorsFollowTaxonomy
