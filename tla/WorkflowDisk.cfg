\* Two deaths that may take every workspace, and a git log that may fail.
SPECIFICATION Spec
CONSTANTS
  Workflows = {w1, w2}
  Bindings = {b1, b2}
  Free = Free
  None = None
  PushConfigured = TRUE
  DiskSurvives = FALSE
  LogMayFail = TRUE
  MaxRequests = 2
  MaxCrashes = 2
SYMMETRY Symmetry
INVARIANTS WorkflowInv OnlyApprovedIsWritten RecordIsTrue
PROPERTIES EndedStaysEnded VerdictIsFinal
CHECK_DEADLOCK FALSE
