\* What must happen in the end, part by part.
SPECIFICATION FairSpec
CONSTANTS
  Parts = {"workflow", "delivery", "agent"}
  None = None
  Workflows = {w1, w2}
  Bindings = {b1}
  Free = Free
  PushConfigured = FALSE
  DiskSurvives = FALSE
  LogMayFail = TRUE
  MaxRequests = 2
  MaxCrashes = 1
  Trainers = {t1}
  Resets = {r1}
  Agents = {}
  Promotions = {}
  Values = {v1, v2}
  Baseline = v1
  MaxCandidates = 0
  Runs = {r1, r2}
  Paths = {p1}
  Contents = {k1}
  Original = Original
  Edits = {e1}
  MaxToolCalls = 2
  MaxBlocks = 2
PROPERTIES WorkflowsEnd SlotsComeFree
CHECK_DEADLOCK FALSE
