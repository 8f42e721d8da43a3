----------------------------- MODULE ModelUsage -----------------------------
(***************************************************************************)
(* The real usage of models in the process of the workbench: one list of   *)
(* events for everybody (agent/metrics.py), bridged to the event ledger    *)
(* under whatever run holds the slot, and cut out of the list again when a *)
(* run ends (agent/web_server.py).  An agent run calls the model itself    *)
(* (agent/agent_loop.py), a trainer run never does, and visitors call it   *)
(* beside both (agent/reasoning_gateway.py).                               *)
(***************************************************************************)
EXTENDS Naturals, Sequences, FiniteSets

CONSTANTS Agents, Trainers, Visitors, None,
          MaxEvents,   \* bound: events and calls under way
          MaxSwitches  \* bound: changes of LLM_MODE

Runs == Agents \cup Trainers
Callers == Agents \cup Visitors

UsageAssumption ==
  /\ None \notin Runs \cup Visitors /\ Runs \cap Visitors = {}
  /\ Agents \cap Trainers = {} /\ MaxEvents \in Nat /\ MaxSwitches \in Nat

VARIABLES
  slot,     \* _CURRENT_RUN_ID
  at,       \* where the handler and the thread of each run are
  start,    \* usage_start_index, trainer_usage_start_index
  events,   \* metrics._model_usage_events
  rows,     \* the model_usage events of the ledger
  phase,    \* where the call of each caller is
  asked,    \* whether its create_fn is a test double
  enabled,  \* LLM_MODE is not DISABLED
  switches,
  streamed, \* the usage_summary a trainer run emits, as positions of events
  history,  \* the model_usage of a run's record, as positions of events
  since     \* history: how many events there were when the slot was reserved

calling   == <<phase, asked, enabled, switches>>
reports   == <<streamed, history>>
chargeVars == <<slot, at, start, events, rows, calling, reports, since>>

Init ==
  /\ slot = None /\ at = [r \in Runs |-> "idle"] /\ start = [r \in Runs |-> 0]
  /\ events = <<>> /\ rows = {}
  /\ phase = [c \in Callers |-> "idle"] /\ asked = [c \in Callers |-> FALSE]
  /\ enabled = TRUE /\ switches = 0
  /\ streamed = [r \in Runs |-> None] /\ history = [r \in Runs |-> None]
  /\ since = [r \in Runs |-> 0]

Goes(r, from, to) == at[r] = from /\ at' = [at EXCEPT ![r] = to]
Moves(c, from, to) == phase[c] = from /\ phase' = [phase EXCEPT ![c] = to]
UnderWay == {c \in Callers : phase[c] # "idle"}

-----------------------------------------------------------------------------
(* A call of the model *)

\* reasoning_gateway.call until the request: a purpose that is not listed is denied, a
\* disabled LLM_MODE denies, and so does a missing key unless create_fn is given.
Denied(listed, double, key) == ~listed \/ ~enabled \/ (~double /\ ~key)
Ask(v, listed, double, key) ==
  /\ ~Denied(listed, double, key) /\ Moves(v, "idle", "sent")
  /\ asked' = [asked EXCEPT ![v] = double]
  /\ UNCHANGED <<slot, at, start, events, rows, enabled, switches, reports, since>>

\* The loop of an agent run asks with a client of its own and looks at no LLM_MODE.
AskInLoop(r) ==
  /\ at[r] = "running" /\ Moves(r, "idle", "sent")
  /\ UNCHANGED <<slot, at, start, events, rows, asked, enabled, switches, reports, since>>

\* metrics.record_model_usage appends; a test double is never recorded.
Recorded(c, usage) == usage /\ ~asked[c]
\* Whether there is text as well makes no difference to the usage.
Answered(c, usage) ==
  /\ Moves(c, "sent", IF Recorded(c, usage) THEN "recorded" ELSE "idle")
  /\ events' = IF Recorded(c, usage)
               THEN Append(events, [by |-> c, real |-> ~asked[c]]) ELSE events
  /\ c \in Agents => usage           \* read without a question
  /\ asked' = [asked EXCEPT ![c] = FALSE]
  /\ UNCHANGED <<slot, at, start, rows, enabled, switches, reports, since>>

\* _run_source, and _on_model_usage, the sink: another run may hold the slot by now.
\* What it raises is swallowed.
RunSource(r) == IF r = None THEN None
                ELSE IF r \in Trainers THEN "workbench_trainer" ELSE "workbench"
Bridge(c) ==
  /\ Moves(c, "recorded", "idle")
  /\ \/ rows' = rows \cup {[by |-> c, run |-> slot, source |-> RunSource(slot)]}
     \/ UNCHANGED rows
  /\ UNCHANGED <<slot, at, start, events, asked, enabled, switches, reports, since>>

\* The client raises: a visitor's caller sees the exception, an agent run fails.
CallRaises(c) ==
  /\ Moves(c, "sent", "idle")
  /\ at' = IF c \in Agents THEN [at EXCEPT ![c] = "ended"] ELSE at
  /\ asked' = [asked EXCEPT ![c] = FALSE]
  /\ UNCHANGED <<slot, start, events, rows, enabled, switches, reports, since>>

Switch ==
  /\ switches < MaxSwitches /\ switches' = switches + 1 /\ enabled' = ~enabled
  /\ UNCHANGED <<slot, at, start, events, rows, phase, asked, reports, since>>

-----------------------------------------------------------------------------
(* A run *)

\* _reserve_run_slot, in the handler.
Reserve(r) ==
  /\ slot = None /\ slot' = r /\ Goes(r, "idle", "reserved")
  /\ since' = [since EXCEPT ![r] = Len(events)]
  /\ UNCHANGED <<start, events, rows, calling, reports>>

\* Mutant: a start index that is left at its initial 0.
Lowest == 0
\* The index of the first event that is the run's: taken in the handler of a trainer
\* run, in the thread of an agent run.
StartIndex == Len(events)
Begin(r) ==
  /\ Goes(r, "reserved", "running") /\ start' = [start EXCEPT ![r] = StartIndex]
  /\ UNCHANGED <<slot, events, rows, calling, reports, since>>

\* The work is over or has failed.
Work(r) ==
  /\ Goes(r, "running", "ended") /\ (r \in Agents => phase[r] = "idle")
  /\ UNCHANGED <<slot, start, events, rows, calling, reports, since>>

\* The finally clauses: the slot is released before the usage is looked up.
Release(r) ==
  /\ slot' = None /\ Goes(r, "ended", "released")
  /\ UNCHANGED <<start, events, rows, calling, reports, since>>

\* _build_usage_summary: what is in the list from the start index on, by whomever;
\* the empty set is {captured: False}.
BuildUsageSummary(r) == (start[r] + 1)..Len(events)
Summarize(r) ==
  /\ r \in Trainers /\ Goes(r, "released", "summarized")
  /\ streamed' = [streamed EXCEPT ![r] = BuildUsageSummary(r)]
  /\ UNCHANGED <<slot, start, events, rows, calling, history, since>>

\* _persist_run_history builds the summary again; an OSError loses the record.
PersistRunHistory(r) ==
  /\ Goes(r, IF r \in Trainers THEN "summarized" ELSE "released", "done")
  /\ \/ history' = [history EXCEPT ![r] = BuildUsageSummary(r)]
     \/ UNCHANGED history
  /\ UNCHANGED <<slot, start, events, rows, calling, streamed, since>>

Next ==
  \/ \E v \in Visitors : \E listed, double, key \in BOOLEAN :
       Len(events) + Cardinality(UnderWay) < MaxEvents /\ Ask(v, listed, double, key)
  \/ \E r \in Agents : Len(events) + Cardinality(UnderWay) < MaxEvents /\ AskInLoop(r)
  \/ \E c \in Callers : \E usage \in BOOLEAN : Answered(c, usage)
  \/ \E c \in Callers : Bridge(c) \/ CallRaises(c)
  \/ Switch
  \/ \E r \in Runs : \/ Reserve(r) \/ Begin(r) \/ Work(r) \/ Release(r)
                     \/ Summarize(r) \/ PersistRunHistory(r)

Spec == Init /\ [][Next]_chargeVars

-----------------------------------------------------------------------------
OwnCalls(r) == {i \in 1..Len(events) : events[i].by = r}

\* A run's record holds all of its own calls and none answered before the run was let
\* in, its page was shown no call the record lacks, the ledger charges a run's calls to
\* the run although the slot is all it knows, and no call of a test double is charged
\* to anybody (web_server._on_model_usage and _persist_run_history, metrics.py,
\* reasoning_gateway.call).
OwnCallsAreCharged ==
  /\ \A r \in Runs : history[r] # None =>
       /\ OwnCalls(r) \subseteq history[r]
       /\ history[r] \subseteq (since[r] + 1)..Len(events)
       /\ streamed[r] # None => streamed[r] \subseteq history[r]
  /\ \A row \in rows : row.by \in Agents => row.run = row.by
  /\ \A i \in 1..Len(events) : events[i].real
=============================================================================
