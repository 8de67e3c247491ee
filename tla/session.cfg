SPECIFICATION Spec
CONSTANTS
  c1 = c1
  c2 = c2
  Client = {c1, c2}
  Backup = {b1}
  Mode = {"safe", "other"}
  Found = {"none"}
  NoBackup = NoBackup
  Nobody = Nobody
  Uses <- MCUses
  MaxRequests <- MCRequests
  MaxFaults = 1
INVARIANT TypeOK
INVARIANT LockMatchesWork
INVARIANT AnswersAreTrue
INVARIANT PreviewHolds
PROPERTY ApprovedRollbacks
PROPERTY NotReopened
CHECK_DEADLOCK FALSE
