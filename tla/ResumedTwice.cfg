\* A development session that is resumed and ends again.
SPECIFICATION Spec
CONSTANTS
  Sessions = {s1}
  Subagents = {}
  Runs = {}
  None = None
  Priced = {m1}
  Unpriced = {}
  Label = Label
  MaxLines = 1
  MaxEnds = 2
  MaxWork = 0
INVARIANT ResumedCountsOnce
CHECK_DEADLOCK FALSE
