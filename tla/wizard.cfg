SPECIFICATION FairSpec
CONSTANTS
  t1 = t1
  t2 = t2
  Target = {t1}
  Size = {1, 2}
  None = None
  Suggested = 2
  Profiles <- MCProfiles
  DryRun = FALSE
  MaxThreads = 2
  MaxProbes = 1
  MaxApplies = 2
INVARIANTS
  TypeOK
  OneApplyAtATime
  ReviewBeforeHelper
  FinishAfterSuccess
  DetectedBeforeConfig
  PlanPageHasPlan
PROPERTY ApplyReports
CHECK_DEADLOCK FALSE
