SPECIFICATION Spec
CONSTANTS
  Proc = {p1}
  NoProc = NoProc
  MaxBackups = 2
  Sizes = {1}
  Found = {"absent", "own", "partition", "swapfile"}
  MayLackDirs = TRUE
  MaxEdits = 0
  MaxFaults = 0
  Concurrent = FALSE
INVARIANT RestoredGrubCfg
