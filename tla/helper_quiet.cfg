SPECIFICATION Spec
CONSTANTS
  Proc = {p1}
  NoProc = NoProc
  MaxBackups = 4
  Sizes = {1, 2}
  Found = {"absent", "own", "partition", "swapfile"}
  MayLackDirs = TRUE
  MaxEdits = 0
  MaxFaults = 0
  Concurrent = FALSE
INVARIANT RestoredSwap
INVARIANT RestoredInitramfs
INVARIANT PreexistingSwapKept
