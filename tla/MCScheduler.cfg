CONSTANTS
  MAXNUMTASK = 6
  NONE = NONE
  WILD = WILD
  STACKTOP = STACKTOP
SPECIFICATION Spec
INVARIANT SwitchResumesIncoming
