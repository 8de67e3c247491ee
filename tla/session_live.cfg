SPECIFICATION FairSpec
CONSTANTS
  c1 = c1
  c2 = c2
  Client = {c1, c2}
  Backup = {b1}
  Mode = {"safe"}
  Found = {"completed"}
  NoBackup = NoBackup
  Nobody = Nobody
  Uses <- MCUses
  MaxRequests <- MCFewRequests
  MaxFaults = 1
PROPERTY ApprovedRollbacksEnd
PROPERTY RequestsAnswered
CHECK_DEADLOCK FALSE
