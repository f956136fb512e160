CONSTANTS
  CMDLENGTH = 3
  EXEBUFSIZE = 3
  ARGMAXLEN = 6
  BUF_SIZE = 3
  SP = " "
  NL = NL
  NUL = NUL
  Chars <- MC_Chars
  Keys <- MC_Keys
  Commands = {}
  Programs <- MC_Programs
  NBytes = {0, 1, 2, 3, 4}
SPECIFICATION Spec

INVARIANTS
  NoLineReadTwice
