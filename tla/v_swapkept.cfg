SPECIFICATION Spec
CONSTANTS
  Proc = {p1}
  NoProc = NoProc
  MaxBackups = 4
  Sizes = {1, 2}
  Found = {"absent"}
  MayLackDirs = FALSE
  MaxEdits = 0
  MaxFaults = 1
  Concurrent = FALSE
INVARIANT PreexistingSwapKept
