\* Two events, one hook, one sync, nothing fails and nothing dies.
SPECIFICATION Spec
CONSTANTS
  Events = {e1, e2}
  Hooks = {h1}
  Syncs = {s1}
  MaxDeaths = 0
  MaxOutages = 0
INVARIANT NothingDeletedBeforeInsert
