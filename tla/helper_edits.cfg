SPECIFICATION FairSpec
CONSTANTS
  Proc = {p1}
  NoProc = NoProc
  MaxBackups = 2
  Sizes = {1}
  Found = {"own"}
  MayLackDirs = TRUE
  MaxEdits = 1
  MaxFaults = 1
  Concurrent = FALSE
PROPERTY OnlyOwnContentOverwritten
PROPERTY OperationsEnd
