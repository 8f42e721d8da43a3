---------------------------- MODULE EventLedger ----------------------------
(***************************************************************************)
(* The event ledger of agent/event_ledger.py: a remote table, a local      *)
(* spool file that takes what the table did not, and the background sync   *)
(* processes that drain the spool, started by the hooks of                 *)
(* agent/claude_code_hook.py behind a lock file.                           *)
(*                                                                         *)
(* Writers and syncs are separate operating-system processes.  The RLock   *)
(* of the code serialises the threads of one process, so nothing here      *)
(* excludes an append while another process drains the same file.          *)
(***************************************************************************)
EXTENDS Naturals, FiniteSets

CONSTANTS Events,      \* events to be recorded (event_id: uuid4, unique)
          Hooks,       \* hook processes alive at a time
          Syncs,       \* sync processes alive at a time
          MaxDeaths,   \* bound: sync processes that die
          MaxOutages   \* bound: outages of the remote table

LedgerAssumption == MaxDeaths \in Nat /\ MaxOutages \in Nat

VARIABLES
  ledger,    \* events in the remote table (ON CONFLICT DO NOTHING: a set)
  spool,     \* events in event_spool.jsonl
  recorded,  \* history: events some caller has recorded
  raced,     \* history: events appended while a sync was draining
  up,        \* does the remote table answer?
  lockFile,  \* event_ledger_sync.lock: "absent", "fresh" or "stale"
  hook,      \* where each hook process is in trigger_background_sync
  sync,      \* where each sync process is in sync_spool
  todo,      \* lines a sync has read and not tried yet
  failing,   \* still_failing of each sync
  deaths, outages

files == <<ledger, spool, recorded, raced>>
drain == <<sync, todo, failing>>
vars  == <<files, up, lockFile, hook, drain, deaths, outages>>

HookPlaces == {"idle", "check", "unlink", "touch", "spawn"}
SyncPlaces == {"none", "started", "draining", "truncated", "unlock"}

TypeOK ==
  /\ ledger \subseteq Events /\ spool \subseteq Events
  /\ recorded \subseteq Events /\ raced \subseteq recorded
  /\ up \in BOOLEAN
  /\ lockFile \in {"absent", "fresh", "stale"}
  /\ hook \in [Hooks -> HookPlaces]
  /\ sync \in [Syncs -> SyncPlaces]
  /\ todo \in [Syncs -> SUBSET Events]
  /\ failing \in [Syncs -> SUBSET Events]
  /\ deaths \in 0..MaxDeaths /\ outages \in 0..MaxOutages

Init ==
  /\ ledger = {} /\ spool = {} /\ recorded = {} /\ raced = {}
  /\ up = TRUE /\ lockFile = "absent"
  /\ hook = [h \in Hooks |-> "idle"]
  /\ sync = [s \in Syncs |-> "none"]
  /\ todo = [s \in Syncs |-> {}] /\ failing = [s \in Syncs |-> {}]
  /\ deaths = 0 /\ outages = 0

Draining == {s \in Syncs : sync[s] \in {"draining", "truncated"}}
Running  == {s \in Syncs : sync[s] # "none"}

-----------------------------------------------------------------------------
(* Recording *)

\* _spool_append, noting whether a sync holds an older copy of the file.
Append(e) ==
  /\ spool' = spool \cup {e}
  /\ raced' = IF Draining = {} THEN raced ELSE raced \cup {e}

\* record_event: the insert succeeds, or the event goes to the spool - also
\* when the insert arrived and only its acknowledgement was lost.
RecordEvent(e) ==
  /\ e \notin recorded
  /\ recorded' = recorded \cup {e}
  /\ \/ up /\ ledger' = ledger \cup {e} /\ UNCHANGED <<spool, raced>>
     \/ ~up /\ ledger' \in {ledger, ledger \cup {e}} /\ Append(e)
  /\ UNCHANGED <<up, lockFile, hook, drain, deaths, outages>>

\* A hook: spool_only, no network, then trigger_background_sync.
HookEvent(h, e) ==
  /\ hook[h] = "idle" /\ e \notin recorded
  /\ recorded' = recorded \cup {e}
  /\ Append(e)
  /\ hook' = [hook EXCEPT ![h] = "check"]
  /\ UNCHANGED <<ledger, up, lockFile, drain, deaths, outages>>

\* Any later hook: its own event is not followed, its trigger matters.
LaterHook(h) ==
  /\ hook[h] = "idle" /\ recorded = Events
  /\ hook' = [hook EXCEPT ![h] = "check"]
  /\ UNCHANGED <<files, up, lockFile, drain, deaths, outages>>

-----------------------------------------------------------------------------
(* trigger_background_sync: look, remove what is stale, create, spawn *)

\* Mutant: no staleness check, as before the incident of 2026-09-18.
NextForAnyLock(l) == IF l = "absent" THEN "touch" ELSE "idle"
NextForLock(l) == CASE l = "absent" -> "touch"
                    [] l = "fresh"  -> "idle"
                    [] l = "stale"  -> "unlink"

CheckLock(h) ==
  /\ hook[h] = "check"
  /\ hook' = [hook EXCEPT ![h] = NextForLock(lockFile)]
  /\ UNCHANGED <<files, up, lockFile, drain, deaths, outages>>

\* unlink() removes whatever is there now; a missing file is an OSError.
UnlinkStale(h) ==
  /\ hook[h] = "unlink"
  /\ IF lockFile = "absent"
       THEN hook' = [hook EXCEPT ![h] = "idle"] /\ UNCHANGED lockFile
       ELSE hook' = [hook EXCEPT ![h] = "touch"] /\ lockFile' = "absent"
  /\ UNCHANGED <<files, up, drain, deaths, outages>>

MayTouch(l) == l = "absent"

TouchLock(h) ==
  /\ hook[h] = "touch"
  /\ IF MayTouch(lockFile)
       THEN hook' = [hook EXCEPT ![h] = "spawn"] /\ lockFile' = "fresh"
       ELSE hook' = [hook EXCEPT ![h] = "idle"] /\ UNCHANGED lockFile
  /\ UNCHANGED <<files, up, drain, deaths, outages>>

\* Popen, or its failure, which gives the lock back.
Spawn(h) ==
  /\ hook[h] = "spawn"
  /\ hook' = [hook EXCEPT ![h] = "idle"]
  /\ \E s \in Syncs :
       /\ sync[s] = "none"
       /\ sync' = [sync EXCEPT ![s] = "started"]
  /\ UNCHANGED <<files, up, lockFile, todo, failing, deaths, outages>>

SpawnFails(h) ==
  /\ hook[h] = "spawn"
  /\ hook' = [hook EXCEPT ![h] = "idle"]
  /\ lockFile' = "absent"
  /\ UNCHANGED <<files, up, drain, deaths, outages>>

-----------------------------------------------------------------------------
(* sync_spool *)

\* An appended line, or the write_text of another sync, has made the file.
SpoolExists == spool # {} \/ \E s \in Syncs : sync[s] = "truncated"

\* The whole file is read once.
ReadSpool(s) ==
  /\ sync[s] = "started"
  /\ sync' = [sync EXCEPT ![s] = IF SpoolExists THEN "draining" ELSE "unlock"]
  /\ todo' = [todo EXCEPT ![s] = spool]
  /\ failing' = [failing EXCEPT ![s] = {}]
  /\ UNCHANGED <<files, up, lockFile, hook, deaths, outages>>

\* Mutant: a line whose retry failed too is not kept.
FailedForgotten(f, e) == f
Failed(f, e) == f \cup {e}

\* One line: an insert, and a second one on a fresh connection.
DrainLine(s) ==
  /\ sync[s] = "draining"
  /\ \E e \in todo[s] :
       /\ todo' = [todo EXCEPT ![s] = @ \ {e}]
       /\ \/ up /\ ledger' = ledger \cup {e} /\ UNCHANGED failing
          \/ /\ ~up
             /\ ledger' \in {ledger, ledger \cup {e}}
             /\ failing' = [failing EXCEPT ![s] = Failed(@, e)]
  /\ UNCHANGED <<spool, recorded, raced, up, lockFile, hook, sync, deaths, outages>>

\* All lines tried: the file is unlinked, or truncated to be written anew ...
FinishDrain(s) ==
  /\ sync[s] = "draining" /\ todo[s] = {}
  /\ spool' = {}
  /\ sync' = [sync EXCEPT ![s] = IF failing[s] = {} THEN "unlock" ELSE "truncated"]
  /\ UNCHANGED <<ledger, recorded, raced, up, lockFile, hook, todo, failing, deaths, outages>>

\* ... with the lines that still fail, over whatever was appended meanwhile.
WriteBack(s) ==
  /\ sync[s] = "truncated"
  /\ spool' = failing[s]
  /\ sync' = [sync EXCEPT ![s] = "unlock"]
  /\ UNCHANGED <<ledger, recorded, raced, up, lockFile, hook, todo, failing, deaths, outages>>

\* `finally: SYNC_LOCK_PATH.unlink(missing_ok=True)`
Unlock(s) ==
  /\ sync[s] = "unlock"
  /\ lockFile' = "absent"
  /\ sync' = [sync EXCEPT ![s] = "none"]
  /\ todo' = [todo EXCEPT ![s] = {}] /\ failing' = [failing EXCEPT ![s] = {}]
  /\ UNCHANGED <<files, up, hook, deaths, outages>>

-----------------------------------------------------------------------------
(* What happens around them *)

\* A kill, a sleep, a crash: the `finally` is not reached.
SyncDies(s) ==
  /\ sync[s] # "none" /\ deaths < MaxDeaths
  /\ deaths' = deaths + 1
  /\ sync' = [sync EXCEPT ![s] = "none"]
  /\ todo' = [todo EXCEPT ![s] = {}] /\ failing' = [failing EXCEPT ![s] = {}]
  /\ UNCHANGED <<files, up, lockFile, hook, outages>>

\* SYNC_LOCK_MAX_AGE_SECONDS pass.  The constant's premise is kept: no sync
\* runs that long, so a lock grows stale only when nobody works under it.
LockAges ==
  /\ lockFile = "fresh" /\ Running = {}
  /\ \A h \in Hooks : hook[h] # "spawn"
  /\ lockFile' = "stale"
  /\ UNCHANGED <<files, up, hook, drain, deaths, outages>>

Outage == /\ up /\ outages < MaxOutages
          /\ up' = FALSE /\ outages' = outages + 1
          /\ UNCHANGED <<files, lockFile, hook, drain, deaths>>

Recovery == /\ ~up /\ up' = TRUE
            /\ UNCHANGED <<files, lockFile, hook, drain, deaths, outages>>

HookStep(h) == CheckLock(h) \/ UnlinkStale(h) \/ TouchLock(h) \/ Spawn(h)
SyncStep(s) == ReadSpool(s) \/ DrainLine(s) \/ FinishDrain(s) \/ WriteBack(s) \/ Unlock(s)

Next ==
  \/ \E e \in Events : RecordEvent(e) \/ \E h \in Hooks : HookEvent(h, e)
  \/ \E h \in Hooks : LaterHook(h) \/ HookStep(h) \/ SpawnFails(h)
  \/ \E s \in Syncs : SyncStep(s) \/ SyncDies(s)
  \/ LockAges \/ Outage \/ Recovery

Spec == Init /\ [][Next]_vars

\* Processes run on, hooks keep coming, a spawn tried again and again succeeds,
\* time passes, an outage ends.
FairSpec ==
  /\ Spec
  /\ \A e \in Events : WF_vars(RecordEvent(e))
  /\ \A h \in Hooks : WF_vars(HookStep(h)) /\ WF_vars(LaterHook(h)) /\ SF_vars(Spawn(h))
  /\ \A s \in Syncs : WF_vars(SyncStep(s))
  /\ WF_vars(LockAges) /\ WF_vars(Recovery)
=============================================================================
