CONSTANTS
  MAXNUMTASK = 3
  MAXOPENFILE = 4
  TERMINAL_NUM = 2
  Files <- MC_Files
  FileType <- MC_FileType
  Executables = {"shell"}
  BadImages = {}
  SHELL = "shell"
  Statuses = {0}
  FreqInputs = {}
  InitRegA = {38}
  NONE = NONE
SPECIFICATION Spec
VIEW KernelView
INVARIANTS
  TypeOK
  SlotAccounting
  ActiveWindow
  TaskChain
  FdTableConsistent
PROPERTIES
  ProcessStackRefined
