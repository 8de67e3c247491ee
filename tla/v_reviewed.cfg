SPECIFICATION Spec
CONSTANTS
  t1 = t1
  t2 = t2
  Target = {t1, t2}
  Size = {1, 2}
  None = None
  Suggested = 1
  Profiles <- MCTwoTargets
  DryRun = FALSE
  MaxThreads = 2
  MaxProbes = 1
  MaxApplies = 2
INVARIANT ReviewedIsApplied
CHECK_DEADLOCK FALSE
