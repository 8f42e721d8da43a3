\* Two hooks and two syncs, one that dies, one outage; one relay with batches of
\* one and one fault; a trainer run and its page.
SPECIFICATION FairSpec
CONSTANTS
  Parts = {"ledger", "outbox", "stream"}
  None = None
  Events = {e1, e2}
  Hooks = {h1, h2}
  Syncs = {s1, s2}
  MaxDeaths = 1
  MaxOutages = 1
  Relays = {r1}
  NotificationListeners = {n1}
  BillingSyncListeners = {b1}
  BatchSize = 1
  MaxAttempts = 2
  MaxFaults = 1
  Kinds = {"trainer"}
  MaxWork = 0
  MaxReconnects = 0
INVARIANT SpoolIsSafe
PROPERTIES EventuallyDrained EventuallyHandled PageSettles
CHECK_DEADLOCK FALSE
