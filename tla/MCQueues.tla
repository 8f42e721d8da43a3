------------------------------ MODULE MCQueues ------------------------------
(***************************************************************************)
(* What is queued must arrive: the spool of the delivery ledger, the outbox*)
(* with its topic, and the events of a run on their way to its page.  They *)
(* share no state, so each is checked by itself: `part` says which one     *)
(* moves, and fairness is assumed of that part alone.                      *)
(***************************************************************************)
EXTENDS Integers, Sequences, FiniteSets

CONSTANTS Parts, Events, None
VARIABLE part

-----------------------------------------------------------------------------
CONSTANTS Hooks, Syncs, MaxDeaths, MaxOutages
VARIABLES ledger, spool, recorded, raced, up, lockFile, hook, sync, todo, failing,
          deaths, outages
spooling == <<ledger, spool, recorded, raced, up, lockFile, hook, sync, todo, failing,
              deaths, outages>>

Ledger == INSTANCE MCEventLedger

-----------------------------------------------------------------------------
CONSTANTS Relays, NotificationListeners, BillingSyncListeners, BatchSize, MaxAttempts,
          MaxFaults
VARIABLES created, committed, published, batch, acked, failed, topic, offset, owner,
          position, tries, job, overlapped, processed, effects, dead, faults
outbox == <<created, committed, published, batch, acked, failed, topic, offset, owner,
            position, tries, job, overlapped, processed, effects, dead, faults>>

Outboxes == INSTANCE MCOutbox

-----------------------------------------------------------------------------
CONSTANTS Kinds, MaxWork, MaxReconnects
VARIABLES kind, outcome, left, status, log, gen, sent, fresh, wire, silent, again,
          poll, shown, finished, closed
stream == <<kind, outcome, left, status, log, gen, sent, fresh, wire, silent, again,
            poll, shown, finished, closed>>

Stream == INSTANCE RunStream WITH todo <- left

-----------------------------------------------------------------------------
ASSUME QueuesAssumption ==
  Ledger!LedgerAssumption /\ Outboxes!OutboxAssumption /\ Stream!StreamAssumption

vars == <<part, spooling, outbox, stream>>

Init == part \in Parts /\ Ledger!Init /\ Outboxes!Init /\ Stream!Init

Next ==
  \/ part = "ledger" /\ Ledger!Next   /\ UNCHANGED <<part, outbox, stream>>
  \/ part = "outbox" /\ Outboxes!Next /\ UNCHANGED <<part, spooling, stream>>
  \/ part = "stream" /\ Stream!Next   /\ UNCHANGED <<part, spooling, outbox>>

\* The fairness of each module's FairSpec, for the part that moves.
LedgerFair ==
  /\ \A e \in Events : WF_spooling(part = "ledger" /\ Ledger!RecordEvent(e))
  /\ \A h \in Hooks : /\ WF_spooling(part = "ledger" /\ Ledger!HookStep(h))
                      /\ WF_spooling(part = "ledger" /\ Ledger!LaterHook(h))
                      /\ SF_spooling(part = "ledger" /\ Ledger!Spawn(h))
  /\ \A s \in Syncs : WF_spooling(part = "ledger" /\ Ledger!SyncStep(s))
  /\ WF_spooling(part = "ledger" /\ Ledger!LockAges)
  /\ WF_spooling(part = "ledger" /\ Ledger!Recovery)
OutboxFair ==
  /\ \A r \in Relays : WF_outbox(part = "outbox" /\ Outboxes!RelayStep(r))
  /\ \A g \in Outboxes!Groups : \A w \in Outboxes!Listeners(g) :
       WF_outbox(part = "outbox" /\ (Outboxes!ListenerStep(g, w) \/ Outboxes!Fails(g, w)))
StreamFair ==
  /\ WF_stream(part = "stream" /\ Stream!Conclude)
  /\ WF_stream(part = "stream" /\ Stream!Report)
  /\ WF_stream(part = "stream" /\ Stream!Server)
  /\ WF_stream(part = "stream" /\ Stream!Close)
  /\ WF_stream(part = "stream" /\ Stream!PollStatus)
  /\ WF_stream(part = "stream" /\ Stream!PollEvents)
  /\ SF_stream(part = "stream" /\ Stream!PollArrives)

FairSpec == Init /\ [][Next]_vars /\ LedgerFair /\ OutboxFair /\ StreamFair

-----------------------------------------------------------------------------
\* One drain of the spool at a time (event_ledger.trigger_background_sync), and
\* only an event appended during a drain can be lost (event_ledger.sync_spool).
SpoolIsSafe == Ledger!OneSyncAtATime /\ Ledger!LostOnlyIfRaced
\* The spool runs empty in the end (event_ledger.sync_spool and its lock file).
EventuallyDrained == part = "ledger" => Ledger!EventuallyDrained
\* Every committed event is handled by every group (OutboxPublisher, the consumers).
EventuallyHandled == Outboxes!EventuallyHandled
\* The page of a run that has ended says so (workbench.js, applyEvent and finishRun).
PageSettles == part = "stream" => Stream!PageSettles
=============================================================================
