CONSTANTS
  Files <- MC_Files
  FileType <- MC_FileType
  Executables = {"shell"}
  SHELL = "shell"
  NONE = NONE
SPECIFICATION Spec
CONSTANTS
  MAXNUMTASK = 2
  MAXOPENFILE = 3
  TERMINAL_NUM = 2
  BadImages = {}
  Statuses = {0}
  FreqInputs = {}
  InitRegA = {38}
PROPERTIES
  TerminalReadReturns
