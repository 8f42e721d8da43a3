\* Two deaths, workspaces survive, git log answers; no symmetry, because the
\* run also checks the refinement.
SPECIFICATION CheckpointingSpec
CONSTANTS
  Workflows = {w1, w2}
  Bindings = {b1}
  Free = Free
  None = None
  PushConfigured = TRUE
  DiskSurvives = TRUE
  LogMayFail = FALSE
  MaxRequests = 2
  MaxCrashes = 2
  Parts = {"engine", "store"}
  Stored = {s1}
  MaxIds = 2
  WriteValues = {x, y}
  Callers = {c1, c2}
  Whole = Whole
  Corrupt = Corrupt
  MaxChanges = 3
INVARIANT CommittedOnce
PROPERTIES KeepsPromise IsMemorySaver
CHECK_DEADLOCK FALSE
