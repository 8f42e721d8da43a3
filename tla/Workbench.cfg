\* Delivery, agent runs, the page of a run, the interview, and the Triage Lab.
SPECIFICATION Spec
CONSTANTS
  Parts = {"delivery", "agent", "stream", "interview", "lab", "scene", "reset", "advice"}
  None = None
  Runs = {r1, r2}
  Trainers = {t1}
  Resets = {reset1}
  Agents = {}
  Promotions = {promo1}
  Values = {x1, x2}
  Baseline = x1
  MaxCandidates = 1
  Paths = {p1}
  Contents = {k1, k2}
  Original = Original
  Edits = {e1, e2}
  MaxToolCalls = 2
  MaxBlocks = 2
  Kinds = {"trainer", "agent"}
  MaxWork = 1
  MaxReconnects = 1
  Asks = {q1, q2}
  Visitors = {v1}
  Operator = op
  DailyMax = 1
  VisitorMax = 1
  MaxDays = 1
  Clicks = {c1, c2}
  Scenarios = {a, b}
  Visits = {v11, v12, v13}
  Offers = {t11, t12}
  MaxResets = 2
  MaxExpiries = 1
  MaxTime = 3
  MaxDrift = 2
  MaxPolls = 2
  MaxChecks = 1
  MaxOthers = 1
  Chunks = {k11, k12, k13}
  Sources = {f1, f2}
  Invented = f3
  TopK = 2
INVARIANTS SlotIsTheRunning VerdictIsOwn LastCompletedIsLive WrittenWasApproved ShownInOrder ReasonIsShown BudgetsAndGatesHold NoEventTwice LoserIsToldToRetry VerdictIsOfThisRun WaitTellsTruth AdviceIsGrounded
CHECK_DEADLOCK FALSE
