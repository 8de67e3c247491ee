SPECIFICATION Spec
CONSTANTS
  Proc = {p1, p2}
  NoProc = NoProc
  MaxBackups = 2
  Sizes = {1}
  Found = {"absent"}
  MayLackDirs = FALSE
  MaxEdits = 0
  MaxFaults = 0
  Concurrent = TRUE
INVARIANT RollbackExclusive
SYMMETRY ProcSymmetry
