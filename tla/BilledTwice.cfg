\* One event, and a rebalance while its delivery is under way.
SPECIFICATION Spec
CONSTANTS
  Events = {e1}
  Relays = {r1}
  NotificationListeners = {n1}
  BillingSyncListeners = {b1, b2}
  BatchSize = 1
  MaxAttempts = 2
  MaxFaults = 1
INVARIANT BilledOnce
CHECK_DEADLOCK FALSE
