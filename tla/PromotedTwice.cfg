\* Two promotion requests for one verified candidate.
SPECIFICATION Spec
CONSTANTS
  Trainers = {}
  Resets = {}
  Agents = {}
  Promotions = {p1, p2}
  Values = {v1}
  Baseline = v1
  None = None
  MaxCandidates = 1
INVARIANT PromotedOnce
CHECK_DEADLOCK FALSE
