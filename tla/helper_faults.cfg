SPECIFICATION Spec
CONSTANTS
  Proc = {p1}
  NoProc = NoProc
  MaxBackups = 3
  Sizes = {1, 2}
  Found = {"absent"}
  MayLackDirs = FALSE
  MaxEdits = 0
  MaxFaults = 2
  Concurrent = FALSE
INVARIANT TypeOK
INVARIANT Reversible
INVARIANT RestoredFiles
INVARIANT Retryable
PROPERTY ActiveSwapNotMoved
PROPERTY RolledBackIsFinal
PROPERTY CompletedIsBootable
