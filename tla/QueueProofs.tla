---------------------------- MODULE QueueProofs ----------------------------
(***************************************************************************)
(* Proofs about the spool of the event ledger, for every set of events,    *)
(* hook processes and sync processes.  Ledger is MCEventLedger as the run  *)
(* of the queues instantiates it.                                          *)
(***************************************************************************)
EXTENDS MCQueues, FiniteSetTheorems, TLAPS

\* A process works under the lock file from its touch() on.
Spawning(h) == hook[h] = "spawn"
Works(s) == sync[s] # "none"

LedgerShape ==
  /\ hook \in [Hooks -> Ledger!HookPlaces] /\ sync \in [Syncs -> Ledger!SyncPlaces]
  /\ todo \in [Syncs -> SUBSET Events] /\ failing \in [Syncs -> SUBSET Events]
  /\ lockFile \in {"absent", "fresh", "stale"} /\ deaths \in Nat
  /\ spool \subseteq Events

\* The lock file is there exactly when one process works under it, and never stale.
LockOK ==
  /\ lockFile # "stale" /\ \A h \in Hooks : hook[h] # "unlink"
  /\ \A h \in Hooks : Spawning(h) => lockFile = "fresh"
  /\ \A s \in Syncs : Works(s) => lockFile = "fresh"
  /\ \A h, g \in Hooks : Spawning(h) /\ Spawning(g) => h = g
  /\ \A s, t \in Syncs : Works(s) /\ Works(t) => s = t
  /\ \A h \in Hooks, s \in Syncs : ~(Spawning(h) /\ Works(s))
  /\ lockFile = "fresh" => (\E h \in Hooks : Spawning(h)) \/ (\E s \in Syncs : Works(s))

\* A sync has lines to try only while it drains; whatever stands in the file then, it
\* has in hand or has inserted, but for what was appended meanwhile.
DrainOK ==
  \A s \in Syncs :
    /\ sync[s] # "draining" => todo[s] = {}
    /\ s \in Ledger!Draining => spool \subseteq todo[s] \cup failing[s] \cup ledger \cup raced

LedgerInv ==
  /\ LedgerShape
  /\ deaths = 0 => LockOK /\ DrainOK /\ Ledger!Lost \subseteq raced

-----------------------------------------------------------------------------
\* The invariant holds at the start.
LEMMA LedgerInit == Ledger!Init => LedgerInv
BY DEF Ledger!Init, LedgerInv, LedgerShape, LockOK, DrainOK, Spawning, Works,
       Ledger!HookPlaces, Ledger!SyncPlaces, Ledger!Draining, Ledger!Lost

\* Every step keeps the shape, and nobody who died lives again.
LEMMA ShapeKept ==
  ASSUME LedgerShape, Ledger!Next
  PROVE  LedgerShape' /\ (deaths' = 0 => deaths = 0)
<1> USE DEF LedgerShape, Ledger!HookPlaces, Ledger!SyncPlaces
<1>1. ASSUME NEW e \in Events, Ledger!RecordEvent(e) PROVE LedgerShape' /\ (deaths' = 0 => deaths = 0)
  BY <1>1 DEF Ledger!RecordEvent, Ledger!files, Ledger!drain, Ledger!Append
<1>2. ASSUME NEW h \in Hooks, NEW e \in Events, Ledger!HookEvent(h, e) PROVE LedgerShape' /\ (deaths' = 0 => deaths = 0)
  BY <1>2 DEF Ledger!HookEvent, Ledger!files, Ledger!drain, Ledger!Append
<1>3. ASSUME NEW h \in Hooks, Ledger!LaterHook(h) PROVE LedgerShape' /\ (deaths' = 0 => deaths = 0)
  BY <1>3 DEF Ledger!LaterHook, Ledger!files, Ledger!drain
<1>4. ASSUME NEW h \in Hooks, Ledger!CheckLock(h) PROVE LedgerShape' /\ (deaths' = 0 => deaths = 0)
  BY <1>4 DEF Ledger!CheckLock, Ledger!files, Ledger!drain, Ledger!NextForLock
<1>5. ASSUME NEW h \in Hooks, Ledger!UnlinkStale(h) PROVE LedgerShape' /\ (deaths' = 0 => deaths = 0)
  BY <1>5 DEF Ledger!UnlinkStale, Ledger!files, Ledger!drain
<1>6. ASSUME NEW h \in Hooks, Ledger!TouchLock(h) PROVE LedgerShape' /\ (deaths' = 0 => deaths = 0)
  BY <1>6 DEF Ledger!TouchLock, Ledger!files, Ledger!drain, Ledger!MayTouch
<1>7. ASSUME NEW h \in Hooks, Ledger!Spawn(h) PROVE LedgerShape' /\ (deaths' = 0 => deaths = 0)
  BY <1>7 DEF Ledger!Spawn, Ledger!files, Ledger!drain
<1>8. ASSUME NEW h \in Hooks, Ledger!SpawnFails(h) PROVE LedgerShape' /\ (deaths' = 0 => deaths = 0)
  BY <1>8 DEF Ledger!SpawnFails, Ledger!files, Ledger!drain
<1>9. ASSUME NEW s \in Syncs, Ledger!ReadSpool(s) PROVE LedgerShape' /\ (deaths' = 0 => deaths = 0)
  BY <1>9 DEF Ledger!ReadSpool, Ledger!files, Ledger!drain, Ledger!SpoolExists
<1>10. ASSUME NEW s \in Syncs, Ledger!DrainLine(s) PROVE LedgerShape' /\ (deaths' = 0 => deaths = 0)
  BY <1>10 DEF Ledger!DrainLine, Ledger!files, Ledger!drain, Ledger!Failed
<1>11. ASSUME NEW s \in Syncs, Ledger!FinishDrain(s) PROVE LedgerShape' /\ (deaths' = 0 => deaths = 0)
  BY <1>11 DEF Ledger!FinishDrain, Ledger!files, Ledger!drain
<1>12. ASSUME NEW s \in Syncs, Ledger!WriteBack(s) PROVE LedgerShape' /\ (deaths' = 0 => deaths = 0)
  BY <1>12 DEF Ledger!WriteBack, Ledger!files, Ledger!drain
<1>13. ASSUME NEW s \in Syncs, Ledger!Unlock(s) PROVE LedgerShape' /\ (deaths' = 0 => deaths = 0)
  BY <1>13 DEF Ledger!Unlock, Ledger!files, Ledger!drain
<1>14. ASSUME NEW s \in Syncs, Ledger!SyncDies(s) PROVE LedgerShape' /\ (deaths' = 0 => deaths = 0)
  BY <1>14 DEF Ledger!SyncDies, Ledger!files, Ledger!drain
<1>15. CASE Ledger!LockAges \/ Ledger!Outage \/ Ledger!Recovery
  BY <1>15 DEF Ledger!LockAges, Ledger!Outage, Ledger!Recovery, Ledger!Running,
                  Ledger!files, Ledger!drain
<1> QED
  BY <1>1, <1>2, <1>3, <1>4, <1>5, <1>6, <1>7, <1>8,
     <1>9, <1>10, <1>11, <1>12, <1>13, <1>14, <1>15
  DEF Ledger!Next, Ledger!HookStep, Ledger!SyncStep

\* No second process gets to work under the lock file.
LEMMA LockKept ==
  ASSUME LedgerShape, LockOK, Ledger!Next, deaths' = 0
  PROVE  LockOK'
<1> USE DEF LedgerShape, LockOK, Spawning, Works, Ledger!HookPlaces, Ledger!SyncPlaces
<1>1. ASSUME NEW e \in Events, Ledger!RecordEvent(e) PROVE LockOK'
  BY <1>1 DEF Ledger!RecordEvent, Ledger!files, Ledger!drain, Ledger!Append
<1>2. ASSUME NEW h \in Hooks, NEW e \in Events, Ledger!HookEvent(h, e) PROVE LockOK'
  BY <1>2 DEF Ledger!HookEvent, Ledger!files, Ledger!drain, Ledger!Append
<1>3. ASSUME NEW h \in Hooks, Ledger!LaterHook(h) PROVE LockOK'
  BY <1>3 DEF Ledger!LaterHook, Ledger!files, Ledger!drain
<1>4. ASSUME NEW h \in Hooks, Ledger!CheckLock(h) PROVE LockOK'
  BY <1>4 DEF Ledger!CheckLock, Ledger!files, Ledger!drain, Ledger!NextForLock
<1>5. ASSUME NEW h \in Hooks, Ledger!UnlinkStale(h) PROVE LockOK'
  BY <1>5 DEF Ledger!UnlinkStale, Ledger!files, Ledger!drain
<1>6. ASSUME NEW h \in Hooks, Ledger!TouchLock(h) PROVE LockOK'
  BY <1>6 DEF Ledger!TouchLock, Ledger!files, Ledger!drain, Ledger!MayTouch
<1>7. ASSUME NEW h \in Hooks, Ledger!Spawn(h) PROVE LockOK'
  BY <1>7 DEF Ledger!Spawn, Ledger!files, Ledger!drain
<1>8. ASSUME NEW h \in Hooks, Ledger!SpawnFails(h) PROVE LockOK'
  BY <1>8 DEF Ledger!SpawnFails, Ledger!files, Ledger!drain
<1>9. ASSUME NEW s \in Syncs, Ledger!ReadSpool(s) PROVE LockOK'
  BY <1>9 DEF Ledger!ReadSpool, Ledger!files, Ledger!drain, Ledger!SpoolExists
<1>10. ASSUME NEW s \in Syncs, Ledger!DrainLine(s) PROVE LockOK'
  BY <1>10 DEF Ledger!DrainLine, Ledger!files, Ledger!drain, Ledger!Failed
<1>11. ASSUME NEW s \in Syncs, Ledger!FinishDrain(s) PROVE LockOK'
  BY <1>11 DEF Ledger!FinishDrain, Ledger!files, Ledger!drain
<1>12. ASSUME NEW s \in Syncs, Ledger!WriteBack(s) PROVE LockOK'
  BY <1>12 DEF Ledger!WriteBack, Ledger!files, Ledger!drain
<1>13. ASSUME NEW s \in Syncs, Ledger!Unlock(s) PROVE LockOK'
  BY <1>13 DEF Ledger!Unlock, Ledger!files, Ledger!drain
<1>14. ASSUME NEW s \in Syncs, Ledger!SyncDies(s) PROVE LockOK'
  BY <1>14 DEF Ledger!SyncDies, Ledger!files, Ledger!drain
<1>15. CASE Ledger!LockAges \/ Ledger!Outage \/ Ledger!Recovery
  BY <1>15 DEF Ledger!LockAges, Ledger!Outage, Ledger!Recovery, Ledger!Running,
                  Ledger!files, Ledger!drain
<1> QED
  BY <1>1, <1>2, <1>3, <1>4, <1>5, <1>6, <1>7, <1>8,
     <1>9, <1>10, <1>11, <1>12, <1>13, <1>14, <1>15
  DEF Ledger!Next, Ledger!HookStep, Ledger!SyncStep

\* The sync that has the lines in hand loses none but the ones appended meanwhile.
LEMMA LinesKept ==
  ASSUME LedgerShape, LockOK, DrainOK, Ledger!Lost \subseteq raced, Ledger!Next, deaths' = 0
  PROVE  DrainOK' /\ Ledger!Lost' \subseteq raced'
<1> USE DEF LedgerShape, LockOK, DrainOK, Works, Ledger!HookPlaces, Ledger!SyncPlaces,
            Ledger!Draining, Ledger!Lost, Ledger!InHand
<1>1. ASSUME NEW e \in Events, Ledger!RecordEvent(e) PROVE DrainOK' /\ Ledger!Lost' \subseteq raced'
  BY <1>1 DEF Ledger!RecordEvent, Ledger!files, Ledger!drain, Ledger!Append
<1>2. ASSUME NEW h \in Hooks, NEW e \in Events, Ledger!HookEvent(h, e) PROVE DrainOK' /\ Ledger!Lost' \subseteq raced'
  BY <1>2 DEF Ledger!HookEvent, Ledger!files, Ledger!drain, Ledger!Append
<1>3. ASSUME NEW h \in Hooks, Ledger!LaterHook(h) PROVE DrainOK' /\ Ledger!Lost' \subseteq raced'
  BY <1>3 DEF Ledger!LaterHook, Ledger!files, Ledger!drain
<1>4. ASSUME NEW h \in Hooks, Ledger!CheckLock(h) PROVE DrainOK' /\ Ledger!Lost' \subseteq raced'
  BY <1>4 DEF Ledger!CheckLock, Ledger!files, Ledger!drain, Ledger!NextForLock
<1>5. ASSUME NEW h \in Hooks, Ledger!UnlinkStale(h) PROVE DrainOK' /\ Ledger!Lost' \subseteq raced'
  BY <1>5 DEF Ledger!UnlinkStale, Ledger!files, Ledger!drain
<1>6. ASSUME NEW h \in Hooks, Ledger!TouchLock(h) PROVE DrainOK' /\ Ledger!Lost' \subseteq raced'
  BY <1>6 DEF Ledger!TouchLock, Ledger!files, Ledger!drain, Ledger!MayTouch
<1>7. ASSUME NEW h \in Hooks, Ledger!Spawn(h) PROVE DrainOK' /\ Ledger!Lost' \subseteq raced'
  BY <1>7 DEF Ledger!Spawn, Ledger!files, Ledger!drain
<1>8. ASSUME NEW h \in Hooks, Ledger!SpawnFails(h) PROVE DrainOK' /\ Ledger!Lost' \subseteq raced'
  BY <1>8 DEF Ledger!SpawnFails, Ledger!files, Ledger!drain
<1>9. ASSUME NEW s \in Syncs, Ledger!ReadSpool(s) PROVE DrainOK' /\ Ledger!Lost' \subseteq raced'
  BY <1>9 DEF Ledger!ReadSpool, Ledger!files, Ledger!drain, Ledger!SpoolExists
<1>10. ASSUME NEW s \in Syncs, Ledger!DrainLine(s) PROVE DrainOK' /\ Ledger!Lost' \subseteq raced'
  BY <1>10 DEF Ledger!DrainLine, Ledger!files, Ledger!drain, Ledger!Failed
<1>11. ASSUME NEW s \in Syncs, Ledger!FinishDrain(s) PROVE DrainOK' /\ Ledger!Lost' \subseteq raced'
  BY <1>11 DEF Ledger!FinishDrain, Ledger!files, Ledger!drain
<1>12. ASSUME NEW s \in Syncs, Ledger!WriteBack(s) PROVE DrainOK' /\ Ledger!Lost' \subseteq raced'
  BY <1>12 DEF Ledger!WriteBack, Ledger!files, Ledger!drain
<1>13. ASSUME NEW s \in Syncs, Ledger!Unlock(s) PROVE DrainOK' /\ Ledger!Lost' \subseteq raced'
  BY <1>13 DEF Ledger!Unlock, Ledger!files, Ledger!drain
<1>14. ASSUME NEW s \in Syncs, Ledger!SyncDies(s) PROVE DrainOK' /\ Ledger!Lost' \subseteq raced'
  BY <1>14 DEF Ledger!SyncDies, Ledger!files, Ledger!drain
<1>15. CASE Ledger!LockAges \/ Ledger!Outage \/ Ledger!Recovery
  BY <1>15 DEF Ledger!LockAges, Ledger!Outage, Ledger!Recovery, Ledger!Running,
                  Ledger!files, Ledger!drain
<1> QED
  BY <1>1, <1>2, <1>3, <1>4, <1>5, <1>6, <1>7, <1>8,
     <1>9, <1>10, <1>11, <1>12, <1>13, <1>14, <1>15
  DEF Ledger!Next, Ledger!HookStep, Ledger!SyncStep

-----------------------------------------------------------------------------
(* What follows from the invariant *)

\* MCEventLedger's Cardinality is the library's.
LEMMA SameCardinality == \A S : Ledger!Cardinality(S) = Cardinality(S)
<1> SUFFICES ASSUME NEW S PROVE Ledger!Cardinality(S) = Cardinality(S)
  OBVIOUS
<1> QED BY Zenon DEF Cardinality, Ledger!Cardinality

\* So every step keeps the invariant of the spool.
LEMMA LedgerStep ==
  ASSUME LedgerInv, Ledger!Next \/ UNCHANGED spooling
  PROVE  LedgerInv'
<1>1. CASE Ledger!Next
  BY <1>1, ShapeKept, LockKept, LinesKept DEF LedgerInv
<1>2. CASE UNCHANGED spooling
  <2>1. UNCHANGED <<ledger, spool, recorded, raced, lockFile, hook, sync, todo, failing, deaths>>
    BY <1>2 DEF spooling
  <2> QED BY <2>1 DEF LedgerInv, LedgerShape, LockOK, DrainOK, Spawning, Works,
              Ledger!Draining, Ledger!Lost, Ledger!InHand
<1> QED BY <1>1, <1>2

\* The invariant of the spool, whatever hooks, syncs and outages come
\* (event_ledger.sync_spool, trigger_background_sync).
THEOREM Spool == FairSpec => []LedgerInv
<1>1. Init => LedgerInv
  BY LedgerInit DEF Init
<1>2. LedgerInv /\ [Next]_vars => LedgerInv'
  <2> SUFFICES ASSUME LedgerInv, [Next]_vars PROVE LedgerInv'
    OBVIOUS
  <2>1. Ledger!Next \/ UNCHANGED spooling
    BY DEF Next, vars
  <2> QED BY <2>1, LedgerStep
<1> QED BY <1>1, <1>2, PTL DEF FairSpec

\* While no sync process dies, one sync at most drains the spool, and only an event
\* appended during a drain can be lost (event_ledger.trigger_background_sync and
\* sync_spool).
THEOREM SafeSpool == FairSpec => []SpoolIsSafe
<1>1. ASSUME LedgerInv PROVE Ledger!OneSyncAtATime
  <2> SUFFICES ASSUME deaths = 0 PROVE Cardinality(Ledger!Running) <= 1
    BY SameCardinality DEF Ledger!OneSyncAtATime
  <2>1. CASE Ledger!Running = {}
    BY <2>1, FS_EmptySet
  <2>2. CASE Ledger!Running # {}
    <3>1. PICK s \in Ledger!Running : TRUE
      BY <2>2
    <3>2. Ledger!Running = {s}
      BY <1>1, <3>1 DEF LedgerInv, LockOK, Works, Ledger!Running
    <3>3. Cardinality({s}) = 1
      BY FS_Singleton
    <3> QED BY <3>2, <3>3
  <2> QED BY <2>1, <2>2
<1>2. LedgerInv => SpoolIsSafe
  BY <1>1 DEF LedgerInv, SpoolIsSafe, Ledger!LostOnlyIfRaced
<1> QED BY <1>2, Spool, PTL
=============================================================================
