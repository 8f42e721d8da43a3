\* The parts around the workbench, each by itself.
SPECIFICATION Spec
CONSTANTS
  Parts = {"history", "gate", "text", "backend", "index", "chunks", "match", "queue", "outbox", "usage", "evidence", "window", "publish", "ground", "charge"}
  None = None
  KnownSessions = {s1, s2, s3}
  Mocks = {s3}
  Limit = 1
  MaxClock = 3
  MaxEvents = 2
  MaxLate = 1
  Files = {"authorization", "pipeline", "security", "migration", "settings", "errors", "messaging", "cache", "mapped", "unmapped", "javatest", "static", "page", "python", "docs", "unrecognized", "gitattributes", "build"}
  MaxFiles = 2
  Skippable = {"flyway", "events", "cache"}
  Words <- ShortWords
  Fields = {heading, footer}
  MaxLength = 3
  Baseline = base
  Probe = probe
  Foreign = other
  MaxForeign = 1
  Docs = {d1, d2}
  Models = {model1}
  Chunkings = {c1, c2}
  MaxVersion = 2
  MaxBuilds = 2
  MaxLines = 5
  Size = 3
  Overlap = 1
  Large = 3
  Matches = {m1, m2}
  Requirements = {q1, q2}
  Capabilities = {x, y}
  ShortlistSize = 1
  DailyCap = 1
  MaxDays = 1
  Packs = {p1, p2}
  Appliers = {w1, w2}
  MaxTaps = 3
  Events = {e1, e2}
  Relays = {r1, r2}
  NotificationListeners = {n1}
  BillingSyncListeners = {b1, b2}
  BatchSize = 2
  MaxAttempts = 1
  MaxFaults = 1
  HookSessions = {u1}
  Subagents = {a1}
  Reported = {k1}
  Priced = {price}
  Unpriced = {}
  Label = Label
  MaxTurns = 2
  MaxEnds = 1
  MaxWork = 1
  MaxTrainerRuns = 2
  MaxCalls = 1
  Hours = 3
  WeekDays = 2
  MonthDays = 3
  MaxChangedInputs = 1
  LastHour = 24
  Winter = 1
  Spring = 7
  Autumn = 16
  MaxSummaries = 1
  TopK = 2
  MaxChunks = 3
  MaxEmployers = 2
  Agents = {agent1}
  Trainers = {trainer1}
  Visitors = {visitor1}
  MaxSwitches = 1
  MaxRecorded = 2
SYMMETRY Alike
INVARIANTS PagesComplete PassedIsVerified EditIsExact ProbeIsGone CorpusIsFull RowsAreEarned AppliedOnce CountedOnce VerifiedIsReal WindowsAreLocal BillsAreRight GreenIsTrue ExcerptsAreFair OwnCallsAreCharged
CHECK_DEADLOCK FALSE
