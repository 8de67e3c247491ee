CONSTANTS
  None = None
  MiB = 2
  GiB = 4
  MaxGiB = 8
  Paths = {"/swap.img", "/dev/sda2", "/dev/sdb1", "/dev/zram0"}
  Sizes = {8, 11, 12, 15}
  Offsets = {5, 6}
  MaxChanges = 1
  Machines <- MCMachines
SPECIFICATION Spec
INVARIANTS TypeOK DecisionTable OneRecommended WrittenIsLive RefusedForAReason PlannedFileFits VerifiedResumes AcceptedVerifies
PROPERTIES NewFileRefused
CHECK_DEADLOCK FALSE
