--------------------------- MODULE MCEventLedger ---------------------------
(***************************************************************************)
(* Properties of EventLedger and the instances TLC checks.                 *)
(***************************************************************************)
EXTENDS EventLedger

\* Events a running sync has in memory and will insert or write back.
InHand == UNION {todo[s] \cup (IF s \in Draining
                                 THEN failing[s] ELSE {}) : s \in Syncs}

\* A recorded event that is nowhere any more.
Lost == recorded \ (ledger \cup spool \cup InHand)

\* As long as no sync process died, only one runs at a time: the lock file
\* keeps a burst of hooks from piling up syncs (trigger_background_sync).
OneSyncAtATime == deaths = 0 => Cardinality(Running) <= 1

\* As long as no sync process died, an event can only be lost if it was
\* appended between a sync's read of the file and its rewrite; every event the
\* sync did read is inserted or kept (sync_spool: "keeps only
\* genuinely-still-failing ones").
LostOnlyIfRaced == deaths = 0 => Lost \subseteq raced

\* A dead sync's lock file, a burst of hooks or an outage never stops the
\* draining for good (the incident recorded above SYNC_LOCK_MAX_AGE_SECONDS).
EventuallyDrained == <>[](spool = {})

\* event_ledger.py: "nothing is ever deleted from it until a remote insert
\* genuinely succeeds".
NothingDeletedBeforeInsert == Lost = {}
=============================================================================
