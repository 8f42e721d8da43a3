\* One workflow, one approval, one death that takes the disk.
SPECIFICATION Spec
CONSTANTS
  Workflows = {w1}
  Bindings = {b1}
  Free = Free
  None = None
  PushConfigured = FALSE
  DiskSurvives = FALSE
  LogMayFail = FALSE
  MaxRequests = 1
  MaxCrashes = 1
INVARIANT NeverQuietlyWritesAgain
CHECK_DEADLOCK FALSE
