# Formal models of the agentic software delivery repository

TLA+ modules, TLC configurations and TLAPS proofs for the parts of this
repository whose correctness depends on the order in which things happen:
crashes, retries, concurrent requests, several processes over one file or one
table, events that come late, clocks that disagree, verdicts put together from
evidence of different moments. Line numbers are of the files under `src/`.

`PROJECT.json` maps every definition to the lines it translates, lists the runs,
one mutant of the code for every property (the mutant must break it), the
findings, the hazards and the theorems.

## 1. Inventory

The repository is an AI-assisted delivery workbench (Python, `agent/`), the
application it changes (Java, `app/`), and the services around that
application (`services/`).

| Component | State it keeps | Operations | What makes it correct |
|---|---|---|---|
| **Durable workflow** `durable_workflow.py`, handlers in `web_server.py` 2443-2560 | per workflow: latest checkpoint and pending writes (database), git workspace (disk), branch on the remote; `_WORKFLOW_LOCK` | start, continue, decide; eleven graph nodes; crash | nothing is written without an approval of exactly that content; a verdict and an end are final; one commit per approval; COMPLETED is earned; no workflow is stuck |
| **Checkpoint store** `workflow_checkpointer.py` | two tables, one connection per call | put, put_writes, get_tuple, delete_thread | it is LangGraph's MemorySaver on a database |
| **Event ledger** `event_ledger.py`, `claude_code_hook.py` | remote table, spool file, lock file | record, spool, trigger, sync | no recorded event disappears; one sync at a time; the spool drains |
| **Workbench delivery** `web_server.py` (run slot, trainer, reset), `demo_execution.py` | `_CURRENT_RUN_ID`, cooldown, per run: clone, deployment found, verdict | reserve, run, deploy, wait, verify, release | one run on production at a time; a verdict is about the run's own deployment; the last completed run is what production shows; the slot comes free |
| **Agent run** `agent_loop.py`, `execution_tools.py`, `write_tools.py`, `web_server.py` 609-760, 1558-1700 | per run: conversation, proposed edits, decision queue; one approval prompt for the process | ask the model, run tools, propose, decide, apply, revert | a file is only ever what its own run showed and a person approved; the run ends |
| **Run stream** `web_server.py` `class Run`, `web/workbench.js`, `web/app.js` | event list, status, generators, the page's position | emit, stream, replay, poll | every event shown once and in order; the reason of a failure is shown; the page settles |
| **Session history, accounts, evidence** `session_history.py`, `event_ledger.py` 828-1151, `claude_code_hook.py` 96-153 | views over the ledger | page, sum up, latest verified run, windows | complete pages; every turn counted once; "verified" is of a run that was; a run belongs to its local day |
| **Model usage** `metrics.py`, `reasoning_gateway.py`, `web_server.py` 250-400 | one list of usage events | admit, call, record, summarise | a run is charged for its own calls |
| **Triage Lab** `triage_execution.py`, `triage_budget.py`, `TriageScenarioAService`, `ContractPlanService`, `EnrollmentLockService` | budget, candidates; one scenario state for all visitors; plans, events, Redis lock, unique index | reset, reproduce, approve, diagnose, generate; enroll | budget bounds the calls; what is kept has passed; one event per change; a loser is told to retry; a verdict is of this run |
| **Triage promotion** `triage_promotion.py` | `_LAST_VERIFIED_CANDIDATE` | record, promote | a candidate is promoted once |
| **Standing Interview** `standing_interview.py`, `si_budget.py` | day's counters | retrieve, ground, ask, scan, retry, record | nothing unscanned is shown; the budget bounds the answers; the excerpts fit the question |
| **JD match** `jd_match.py` | day's counter | two model calls, shortlist, validation | a row is earned by a capability the registry has |
| **Applications queue** `applications_apply_queue.py` | one JSON file | approve, mark, read | an approved pack is applied once |
| **Catalogues** `demo_catalogue.py`, `backend_catalogue.py`, `risk_policy.py` | none | refuse, read, apply, read back | an edit is exactly what was asked, or refused |
| **Backend pipeline** `backend_acceptance.py`, `backend_execution.py`, `backend_planning.py` | production service, clones | probe, restore, analyse | the probe does not stay; advice names files that exist |
| **Code index** `rag_index.py`, `backend_rag_index.py`, `ask_codebase.py` | one index file, one copy in the server | chunk, embed, build, load, search | no line is left out; no entry is of an old text |
| **Delivery gate** `verify_change.py`, `change_risk.py`, `test_impact_analysis.py` | the evidence of a run | classify, select, execute, conclude | PASSED is said only of what ran |
| **Published numbers** `publish_*.py`, `eval_runner.py` | snapshots with hashes, the page | measure, hash, publish, freshness tests | green means the numbers are of what is there |
| **Outbox and consumers** `OutboxPublisher`, `ContractPlanNotificationConsumer`, `ContractPlanBillingSyncConsumer`, `KafkaMessagingConfig` | outbox table, topic, `processed_event`, offsets, dead-letter topic | write, poll, send, mark; check, work, save, retry | published is on the topic; every group handles every event; a billing row is written once |
| Reports, dashboards, one-shot scripts, security configuration, gateway, authorization server, CRUD services | | | not modelled: section 8 and `PROJECT.json` |

How they interact: requests to the workbench start workflows, runs, promotions,
interviews and Lab steps; all of them record events through the event ledger, of
which the history, the accounts and the evidence are views; runs, promotions and
the backend acceptance deploy the Customer App through one hosting platform;
inside the Customer App an enrollment writes its row and its outbox event in one
transaction, the publisher relays the event, and the consumers handle it.

What is hard to test here, and therefore what the properties are about (the full
list with lines is under "hazards"): a death between a side effect and its
checkpoint; a container replaced between two nodes; a human answer delivered
twice, late, or for an old proposal; an append between another process's read and
rewrite of a file; a deployment that arrives after its run gave up on it; an entry
read before and removed after a quarter of an hour; two publishers over the same
rows; a rebalance in the middle of an event; events that reach the ledger out of
order while a reader pages through it; one process-wide list of usage for runs
that overlap with visitors; a midnight or a change of the clocks between two
steps; hashes taken after the measurement they vouch for.

## 2. Modules

| Module | Role |
|---|---|
| `DurableWorkflow`, `ApprovedChange`, `WorkflowProperties`, `WorkflowProofs` | the engine; what it promises to the person who approves; properties, refinement mapping, inductive invariants; proofs |
| `CheckpointStore`, `CheckpointMemory` | the store by statements, connections and transactions; the memory it implements |
| `MCDurableWorkflow`, `MCCheckpointing` | symmetry and the documented claim that fails; engine and store, each against its abstraction |
| `EventLedger`, `MCEventLedger` | ledger, spool, lock file, hooks and sync processes |
| `Delivery`, `MCDelivery` | run slot, trainer, reset and agent runs, promotions, the platform |
| `DemoReset` | one reset by the clocks of platform and machine |
| `AgentRun` | the loop, its tools and caps, edits and their approval |
| `RunStream` | from `Run.emit` to what the page shows |
| `Interview`, `Grounding` | budget, replies and retries; retrieval and what an answer may rest on |
| `TriageRepair`, `TriageScenario` | the Lab's model steps and budget; its scenarios over the enrollment |
| `SessionHistory`, `UsageAccounts`, `RunEvidence`, `UsageWindows`, `ModelUsage` | the views of the ledger and whom usage is charged to |
| `Catalogue`, `BackendChange`, `Advice` | deterministic edits; the backend acceptance; what is said about a change |
| `CodeIndex`, `TextChunks` | index file and its builds; how a text is cut |
| `JdMatch`, `ApplyQueue`, `DeliveryGate`, `Publishing` | as their names say |
| `Outbox`, `MCOutbox` | outbox table, relays, one topic partition, two consumer groups |
| `MCWorkbench`, `MCPlatform`, `MCQueues`, `MCLive` | parts checked side by side |
| `RecordProofs` | proofs about the record of a workflow and the refinements of `ApprovedChange` and of `CheckpointMemory` |
| `WorkbenchProofs`, `LabProofs` | proofs about parts of `MCWorkbench`: deliveries, agent runs, reset, page of a run, advice; interview, Lab, enrollments and scenarios |
| `QueueProofs` | proofs about the spool |
| `PlatformProofs`, `TextProofs`, `LedgerProofs` | proofs about parts of `MCPlatform`: queue of applications, gate, acceptance, charges, match, publishing; edits of texts, index, parts of a text, excerpts; history, evidence, windows, accounts, outbox |

Every module takes its sets and bounds as CONSTANTS, with the assumptions it
needs under a name; the MC modules assume them, so TLC evaluates them. There is
no RECURSIVE operator: what the code does in a loop over a text, a list of lines or
of places is a recursive function over its positions, so that it can be proved about.

`MCWorkbench`, `MCPlatform`, `MCQueues` and `MCLive` hold several parts that share no state in the code. A
variable `part`, chosen at the start, says which one moves; the others stay in
their initial states. The state space is the sum of the parts' and not their
product, and each property is an implication from its part or about variables
of that part alone. Nothing is lost by this, since no step of one part reads what
another writes. Where components do interact, one module has both: the engine
and its store's rows in `DurableWorkflow`, trainers, resets and promotions
over one platform in `Delivery`, the thread, the server and the page in
`RunStream`, the Lab, the enrollment and the index in `TriageScenario`,
runs, history and late events in `RunEvidence`.

### DurableWorkflow

State: `ckpt` and `pend` are the rows of `workflow_checkpoints` and
`workflow_checkpoint_writes`; `ws`, `remote` and `commits` are git; `lock`,
`phase`, `answer` and `out` are the memory of the thread that runs a graph;
`inbox`, `decisions` are decisions that were posted. A step is as large as what
becomes durable or visible at once:

* `Start`, `Continue`, `Submit`, `Resume`, `TurnAway` are the handlers.
  `workflow_decide` records its event before it looks at the workflow, so
  `Submit` and `Resume` are two steps and a decision may find the workflow
  already decided.
* Each node has an action that ends in `Return`; `PutWrites` and `PutCheckpoint`
  are the two durable writes after it (durability "sync"). A death between them
  makes the next `Invoke` replay the pending writes instead of the node.
* `apply_change` is `ApplyChange`, `ApplyWrite`, `ApplyCommit`, `ApplyPush`: the
  four points at which the crash drill kills it, and more.
* The two searches for an earlier commit may fail when `LogMayFail` is TRUE; the
  code takes a failed `git log` for "no commit".
* `Raise` is an exception out of a node or the store: the handler's `finally`
  gives the lock back and the checkpoint stays. `Crash` is the death of the
  process, between any two steps. With `DiskSurvives = FALSE` it may also take all
  workspaces.

A binding (the sha256 of path and content) is a model value. What the model,
Maven and git answer is a choice.

### CheckpointStore

Each call is its statements, one step each, then the commit; a connection may
break before or after the commit, and the caller then sends the call again.
`describe_workflow` reads beside the one writer of a thread in two statements under
READ COMMITTED. The refinement keeps in `seen` and `told` what a reader may be
told: the contents the thread had at some moment of the call. The abstract call
takes effect at the commit, whether or not its caller is told; a broken connection
before it is no step at all.

### EventLedger

The spool and the table are sets of events, because the order of lines does not
matter to anything. Each system call of `trigger_background_sync` and each step
of `sync_spool` that another process can interleave with is an action. `raced`
notes the events appended while a sync held an older copy of the file.

### Delivery and DemoReset

In `Delivery` a trainer run and a reset share `Look`, `Prepare`, `TriggerDeploy`,
`Wait`, `Verify`; a promotion shares the middle ones. The platform's deployments
are a sequence in order of creation, which stands for the created-at comparison of
`wait_for_new_deployment`; a deployment is built or fails at any time, and
traffic moves to it later (`Cutover`) and never back to an older one.

`DemoReset` opens that comparison for a single run: time in half seconds, the
whole seconds of a Date header, records in milliseconds, a local clock that
drifts as the fall-back, a list that lags, statuses the code takes for terminal
and one (REMOVED) it does not.

### AgentRun and RunStream

`AgentRun` follows a thread from the slot through the loop: a reply with tool
calls, text, both or none, the two caps, tools that need approval. The prompt is
one global of the process that each run swaps in and out (`prompt`). Decisions
come from `Decide` at any time, for any edit and run, also after its end.

`RunStream` has the thread that appends events and sets the status (two steps, in
the code's order), the generator that replays and waits, the wire between server
and page, the poll of the trainer page with its own two requests, and the page's
event ids. A silent wire delivers nothing and fails nothing.

### The Lab

`TriageScenario` runs enrollments statement by statement inside transactions:
what a request sees is its own writes and what is committed. The lock has a
token and may expire (`MaxExpiries`); Redis may refuse it. Scenario "a" runs two
enrollments in one transaction, "b" stands for the scenarios that keep no rows.
`TriageRepair` has the requests for a diagnosis or a candidate with the budget
that is reserved before the call.

### The views of the ledger

`SessionHistory`, `RunEvidence` and `UsageAccounts` share the idea that an event
bears the time of its envelope and reaches the table then or later (`Late`,
`Sync`). `UsageWindows` has a small calendar: days of `Hours` hours, weeks,
months, and a zone with two changes of the clocks. `ModelUsage` has the process:
one list, the slot, and slices from a start index to the end. The turns that
`UsageAccounts` sums up are a set of positions of the transcript: the sum does not
depend on their order.

### Outbox

`created` and `committed` are the two orders a row has; a poll takes a page of the
committed rows that are not published, in the order of `created_at`, up to
`BatchSize` of them, whatever the database's plan. A send that is not confirmed may have arrived
or not; one that would arrive still later is not modelled. `owner`, `position`
and `offset` describe a consumer group on the one partition modelled; offset
commits are folded into `Resume`: who takes the partition over resumes at any
record since it was last taken. `onMessage` is `Deliver` (the exists check),
`Work`, and `Done` or `Fails` (commit or rollback).

### Algorithms

`Catalogue`, `TextChunks`, `DeliveryGate`, `Grounding`, `Advice`, `JdMatch` and
`UsageWindows` are mostly functions of an input. Their initial states enumerate
the inputs of a bounded size, the actions are the code's steps, and the
properties compare the outcome with an independent statement of what it should be
(every line in a chunk, the text read back equals the text asked for, every
class of tests the change calls for was run, a day's runs by their local date).

## 3. Runs

| Run | What it asks | Instance |
|---|---|---|
| `workflow_crash` | one commit per approval over two deaths; the engine implements `ApprovedChange`; the store implements `CheckpointMemory` | 2 workflows of the same content, 2 decisions, 2 deaths, disks survive, `git log` answers; 1 thread, 2 checkpoints, 2 callers, 3 changes |
| `workflow_disk` | approval, completion and push status, finality, with lost disks | 2 workflows, 2 contents, 2 decisions, 2 deaths, `git log` may fail |
| `workflow_writes_again` | **violated**: a lost workspace ends in FAILED, never in a second write | 1 workflow, 1 decision, 1 death |
| `event_ledger_lost` | **violated**: nothing leaves the spool before its insert | 2 events, 1 hook, 1 sync, no fault |
| `promoted_twice` | **violated**: a candidate is promoted once | 2 promotions, 1 candidate |
| `billed_twice` | **violated**: exactly-once processing per consumer | 1 event, 2 billing listeners, 1 rebalance |
| `resumed_twice` | **violated**: a resumed session counts once | 1 session, 2 ends |
| `skipped_passes` | **violated**: a risky change with skipped tests is never PASSED | 2 files |
| `queues` | what is queued leaves: spool, outbox, page | 2 events, 2 hooks, 2 syncs, 1 death, 1 outage; 1 relay, 2 attempts, 1 fault; 1 trainer page |
| `live` | workflows end or wait for a human; slots come free | 2 workflows, 1 death with or without the disk; a trainer run and a reset; 2 agent runs |
| `workbench` | deliveries, agent runs, page, interview, Lab, scenarios, reset, advice | trainer, reset and promotion; 2 agent runs with 2 edits; 2 asks and 2 clicks over a midnight; 3 visits, 2 resets, 1 expiry |
| `platform` | history, gate, catalogues, acceptance, index, chunks, match, queue, outbox, accounts, evidence, windows, publishing, grounding, charging | 3 sessions of 2 events; all changes of 2 files; texts of 3 characters; 2 documents in 2 versions, 2 builds; texts of 5 lines; 2 trainer runs and a late event; 2 calls of a model; 2 events over 2 relays and 2 billing listeners, 1 fault |

Why these bounds are enough to be interesting: two workflows with one content
make `git log --all` find the other's commit; two deaths reach a death in the
recovery of a death; two decisions are approve and reject of the same proposal.
Two hooks and two syncs are the smallest case of a burst, and one death leaves a
stale lock. A trainer run, a reset and a promotion give three deployments that
can end in any order. Two agent runs with two edits let one run's prompt be in
place while the other asks, and an old id be named again. Three visits and an
expiry are two enrollments that meet and a third that repeats. Two builds with
two versions and two chunkings give every mix of old and new entries. A text of
five lines with windows of three and an overlap of one has a window that ends at
the last line, one that does not, and a chunk that is split again. One day of
24 hours before and after each change of the clocks is in the calendar. Two
relays, two events and one fault give double publication, reordering and a
handover. Every action and every disjunct of every next-state relation fires in
some passing run; every property is broken by a plausible change of the code that
`PROJECT.json` names (operators marked "Mutant:" in the modules; the
specifications do not use them).

In the runs of the last two rows and of `queues` and `live` the bounds stop the
parts, so deadlock is not checked; the configurations say so. The workflow
runs stop when all workflows have ended and requests are used up.

## 4. Fairness

* Workflow: a thread that holds the lock keeps running (`WF GraphStep`), and an
  operator presses continue on a workflow a death has stopped
  (`WF Continue(w)`, per workflow). Nothing is assumed of the human who
  decides: `Settles` accepts waiting. Weak fairness of `Continue(w)` is enough
  because the lock is not taken for ever: requests are finite.
* Ledger: started processes run on; hooks keep coming, as every tool call of a
  session starts one; a lock grows old and an outage ends. `Spawn` is strongly
  fair: a spawn that is attempted again and again succeeds at last.
* Delivery: the thread of a trainer run or a reset runs on. Nothing is assumed of
  the platform, the cooldown or the people: every wait of these runs has a window.
* Agent run: the thread runs on, and people answer the edits they are shown. That
  second assumption is needed: `decision_queue.get()` has no timeout.
* Page: the thread, the server and the page's timers go on. A poll arrives when
  it is tried again and again (`SF`); nothing is assumed of the stream.
* Outbox: the publisher is scheduled with a fixed delay and listeners keep
  polling. Faults come to an end (`MaxFaults`).

## 5. What is proved

Theorems hold for every value of the constants that the named assumptions
allow: any sets of workflows, runs, requests and visitors, any budgets and any
bounds. The seven proof modules beside `WorkflowProofs` are a chapter for each
component; those of `MCWorkbench` and `MCPlatform` extend the module their run
checks, so that a theorem and a run are about the same formula.

| Module | Theorem | Statement |
|---|---|---|
| `WorkflowProofs` | `Invariance`, `TypeCorrect` | `Spec => []WorkflowInv`, `Spec => []TypeOK` |
| | `ApprovedWrites` | `Spec => []OnlyApprovedIsWritten` |
| | `FinalVerdict`, `EndIsFinal` | `Spec => VerdictIsFinal`, `Spec => EndedStaysEnded` |
| | `OneCommit` | with `DiskSurvives` and without `LogMayFail`, `Spec => []CommittedOnce` |
| `RecordProofs` | `TrueRecord` | `Spec => []RecordIsTrue` |
| | `Implements` | with `DiskSurvives` and without `LogMayFail`, `Spec => KeepsPromise` |
| | `StoreStaysSound` | `StoreInv` |
| | `StoreIsMemorySaver` | `Spec => IsMemorySaver`, the store implements `CheckpointMemory` |
| `QueueProofs` | `Spool`, `SafeSpool` | `FairSpec => []LedgerInv`, `FairSpec => []SpoolIsSafe` |
| `WorkbenchProofs` | `Deliveries` | `Spec => [](part = "delivery" => DeliveryInv)` |
| | `OneRunAtATime`, `OwnVerdict`, `LastRunIsLive` | `[]SlotIsTheRunning`, `[]VerdictIsOwn`, `[]LastCompletedIsLive` |
| | `AgentRuns`, `NothingUnseen` | `AgentInv`; `[]WrittenWasApproved` |
| | `ResetRuns`, `HonestReset` | `ResetInv`; `[]WaitTellsTruth` |
| | `RunPages`, `OnceInOrder`, `FailureIsExplained` | `StreamInv`; `[]ShownInOrder`, `[]ReasonIsShown` |
| | `Advised`, `GroundedAdvice` | `AdviceInv`; `[]AdviceIsGrounded` |
| `LabProofs` | `Interviews`, `LabSteps`, `WithinBudget` | `InterviewInv`, `LabInv`; `[]BudgetsAndGatesHold` |
| | `Scenes` | `SceneInv` |
| | `EachChangeOnce`, `LosersRetry`, `VerdictsAreOwn` | `[]NoEventTwice`, `[]LoserIsToldToRetry`, `[]VerdictIsOfThisRun` |
| `PlatformProofs` | `Applications`, `OneApplication` | `QueueInv`; `[]AppliedOnce` |
| | `Verifications`, `VerifiedByTests` | `GateInv`; `[]PassedIsVerified` |
| | `Acceptances`, `NoProbeAfterPass` | `BackendInv`; `[]ProbeIsGone` |
| | `Charged`, `OwnCharges` | `ChargeInv`; `[]OwnCallsAreCharged` |
| | `Matched`, `EarnedRows` | `MatchInv`; `[]RowsAreEarned` |
| | `Published`, `GreenPages` | `PublishInv`; `[]GreenIsTrue` (for any number of edits of the two snapshots and two contents that `MCPlatform` fixes) |
| `TextProofs` | `EditsAreInOrder`, `EditStaysExact` | `TextInv`; `[]EditIsExact` |
| | `IndexIsExact` | `IndexInv` |
| | `LinesStayTold`, `TextIsCutWhole` | `LinesOK`; no line of a text is lost |
| | `IncrementalBuildIsFull`, `CorpusStaysFull` | an incremental build equals a full one; `[]CorpusIsFull` |
| | `GroundInOrder`, `ExcerptsStayFair` | `GroundInv`; `[]ExcerptsAreFair` |
| `LedgerProofs` | `HistoryIsRead`, `PagesStayComplete` | `HistoryInv`; `[]PagesComplete` |
| | `EvidenceInOrder`, `LinkedRunIsReal` | `EvidenceInv`; `[]VerifiedIsReal` |
| | `RunsArePast`, `WindowsStayLocal` | `WindowsOK`; `[]WindowsAreLocal` |
| | `UsageIsInOrder`, `UsageCountedOnce` | `UsageInv`; `[]CountedOnce` |
| | `OutboxIsInOrder`, `BillsStayRight` | `OutboxInv`; `[]BillsAreRight` |

With these every safety property, action property and refinement that a passing run
checks is also a theorem.

Assumptions. The constants' types, `NoneIsNoValue` for the workflow, and in other
modules that the absent value is none of the values it stands beside: in the code
it is Python's `None`, which is no string, no number and no record. No bound is
assumed to be small. Two assumptions say something of the world:
`WindowsAssumption` has no day that begins in the hour spring leaves out (Europe/Berlin
changes between 2 and 3 o'clock; `DISPLAY_TIMEZONE` may name a zone that changes at
midnight, and there `compute_display_windows` starts a day at an hour that does not
exist); and `Fields` is finite, as the catalogue is a literal. `OneCommit` and `Implements` need that workspaces survive and
that `git log` answers. The first is necessary, as `workflow_writes_again` shows;
so is the second, since a search that runs into its 20 seconds hides the commit.

### Durable workflow

`OnlyApprovedIsWritten` is not inductive: it speaks of the checkpoint, while a
write is justified by values that are still in memory or are only pending writes.
`WorkflowInv` says three things that hold each other up:

* `StoreOK`: a checkpoint holds an approval exactly when its next node is past
  the decision, an end exactly when its state is terminal, and a pending write
  *follows* its checkpoint (same proposal, same verdict);
* `RunOK`: what the running graph carries was submitted, runs from a checkpoint
  that is not an end, and returns values that may follow it;
* `GitOK`: every commit anywhere belongs to a workflow that is approved, and is
  of the approved content.

`ValueOK` and `Follows` are the interface: lemmas show once that a node that
returns such values keeps the invariant (`ReturnStep`, `QuietReturn`), and each
action is then a short proof. `VerdictIsFinal` and `EndedStaysEnded` follow from
`Follows` and from "no graph runs from an end". `OneCommit` needs `OnceInv` on
top: a workflow that has committed still has the commit where
`_find_own_commit` looks.

`RecordIsTrue` needs `RecordInv`: the stages a value claims (`RecordOK`) are true
of gates and git not only in checkpoints but in pending writes, in memory and in
what a node is about to return, and a push that is recorded is on the remote
(`PushedIn`). A node adds one stage at most (`OneMove`). The refinement maps each step to one
of `ApprovedChange` or to a stutter: `StartPromised`, `CheckpointPromised` and
`CommitPromised` are the steps that are visible there, all others leave the three
mapped variables alone.

### Checkpoint store

`StoreInv`: a thread has one writer (`StoreWriterOK`), what the writer still has to
insert is its call's, and every reader has in `seen` the contents the rows had at each
moment since it began, those it has read half of included (`StoreReaderOK`). That second
part is what a read of two statements needs: what it puts together is the content of the
rows at its first statement or at its second, because a plain put adds a checkpoint and
replaces none. Each commit maps to the call's effect in `CheckpointMemory`, the end of a
read to an answer that was true at some moment of it, and all other steps to a stutter.

### Delivery

`DeliveryInv`: the slot belongs to the thread between its start and its `finally`;
`PlacesOK` says what each place of a thread knows: an agent run never deploys, a
runner has deployed once it waits. `OwnOK`: unless a promotion came since, every
deployment since the time a runner took is its own; `LogOK`: the runs that ended are
runners and are over for good. A watching runner made the newest deployment, and of
what it was asked (`NewestIsOwn`), and what may still go live shows what production
shows, except the running one's (`LiveOK`).

### Spool

`LedgerInv` for histories without a dead sync: `LockOK` says that one process at most
is behind the lock file and which one, `DrainOK` that a sync has lines to try only
while it drains, and that what stands in the file then it has in hand or inserted,
except what was appended meanwhile.

### Agent runs, reset, page, advice

`AgentInv`: the run in the loop has its own prompt installed (`TurnOK`), what was
shown is what is asked for (`ReviewOK`, `WaitingOK`), and the files hold originals
or what was approved (`FileOK`). `ResetInv` relates the trigger time to the
deployments on both clocks (`ClockOK`) and says what each place of the thread has
been shown. `StreamInv`: what is on the wire continues where the page stands,
whichever of replay, stream and poll put it there (`OrderOK`), and a page that
will stop has been told the reason first (`ReasonOK`). That a poll's batch is applied once is a
recursive function over the batch; it is proved by induction (`Least`, `BatchOnce`,
`BatchApplied`). `AdviceInv`: nothing is prompted, grounded or
told before its step (`StepOK`), and the model sees only strong chunks for an admitted
requirement, which is the evidence that is kept (`EvidenceOK`); that what is kept of a
ranking is above all that was left out is a lemma (`BestOfAll`).

### Budgets and scenarios

`InterviewInv`: as long as no two requests overlapped, one visitor at most is being
answered and there is room for that answer (`RoomOK`). `LabInv`: calls made or reserved
stay within the cap times the days so far (`CapOK`). `CleanOK` and
`PassedOK` say that what is shown or kept went through the scan or the gates.
`SceneInv` is two-phase reasoning about `enroll`: who may write has seen what is
committed and writes alone for that customer (`WriterOK`), the last event of a customer
tells her plan and no two neighbours are equal (`EventsOK`), one holder
has the lock until it expires (`HolderOK`), and a reproduction's counts are of what it
did itself (`CountOK`).

### Platform

`QueueInv`: a pack is with one worker at most, who has not sent it, and one that waits
was never sent, or trouble was noted (`OneWorkerOK`). `GateInv`: as long as nothing failed, no test of the plan is missing
from what ran and what is still to run (`NoneLeftOut`); what the plan holds is a lemma
about `Plan` for every set of files (`PlannedTests`). `BackendInv`: the probe is
deployed once, and after a passed first cycle production never goes back to it
(`ProbeOK`, `SeenOK`).
`ChargeInv`: the window of the list that a run sums up starts before its first call
(`HoldsOK`, `StartOK`) and what is kept is its sum (`SummaryOK`). `MatchInv`: the calls made
and the calls that matches under way may still make fit under the cap of the days so
far (`SpentOK`). `PublishInv`: an undisturbed publisher has read what is in the tree, and
what it writes goes with the hash beside it (`PublisherOK`, `SnapshotOK`, `PageOK`);
nothing is said of what no hash covers, and the verdict is compared with CI's only
where that is the same.

### Texts and excerpts

`TextInv` says that what is carried out is one operation, on the page the owner's, on
the text that production had; the rest is about text of any length: what is escaped and read back
(`Unescape`) gives the same characters and no tag, no end of a string and no line end
of their own. `IndexInv`: an index, on the disk, in the server or half built, holds of each document it
has read the chunks of the version that was read (`IsExact`); a torn file never gets
past the load. That no line is lost when a text is cut is shown of the cutters
themselves: windows overlap and the last one ends with the text, sections are ranges
that meet, and a range that is too large is cut again into windows that cover it.
`GroundInv` (`Fair`) says of what is shown that it is of the scope, repeats nothing and
follows the rule for its kind of question. The rules are lemmas about filters and
concatenations of places: a filter of rising places is rising (`FilterHas`), shares of
different employers have nothing in common and fit (`ReservedHas`), and the first places
of two lists hold all of the first list as soon as they hold anything of the second
(`FrontAndRest`).

### What is recorded, sent and counted

`HistoryInv`: the reader knows what started at the cursor or later, and nothing else
(`ReadSoFar`); a page that stops at its limit moves the cursor to the last it told.
`EvidenceInv`: the rows of a run are the course of its thread so far, each at a time of
its own, none is lost between spool and ledger, and after a run's summary only calls
follow (`EvidenceOrder`). `WindowsOK` is the clock alone; that a period of the local calendar is the rows
since its start is arithmetic with quotients (`Quotient`, `PeriodIs`, `TodayIs`).
`UsageInv`: a row is told by its id from what it was made from (`Made`), ids differ
(`OneRowEach`), and what is counted has a row (`AllRecorded`); a sum over a session is
then the sum over what happened in it. `OutboxInv` has one part for each link: what is
marked is on the topic, in order but for failed sends, and what a relay has still in
hand is in order behind it (`RelayOrder`); a group's owner is in the record its position
names and the group has handled all before (`ConsumerOrder`); a listener that lost the
partition is in a record that was handed over, and any other record has one billing row
at most (`BilledOnceSoFar`).

### Induction over data

The library's induction theorems take an operator as a parameter, which no installed
prover instantiates. Where a proof needs an induction over the length of a text, a list
or a transcript it takes the least number at which the claim fails (`LeastOne`, from the
well-foundedness of the numbers; `Greatest` from the other end) and derives a
contradiction. `Unrolled` gives the function that a recursive definition stands for, and
`AllTheWay` that there is only one.

### How they were found

Each inductive invariant was first checked by TLC as an invariant of the run's
specification (`WorkflowInv` still is): `RecordInv` over 788,231 states, `DeliveryInv`
1,322,510, `LedgerInv` 143,216, `AgentInv` 6,089, `ResetInv` 231,800, `StreamInv`
472,208, `AdviceInv` 23,552, `InterviewInv` and `LabInv` 431,823, `SceneInv` 479,710,
`QueueInv` 7,549, `GateInv` 13,485, `BackendInv` 211,747, `ChargeInv` 276,996 (three calls), `MatchInv`
15,395, `PublishInv` 44,772, `TextInv` 85,177, `UsageInv` 112,950, `GroundInv` 71,288. It must hold in the states the program reaches; that it
is inductive, hence holds for all constants, is the proof's part.

## 6. What is only model-checked

* Liveness (`WorkflowsEnd`, `SlotsComeFree`, `EventuallyDrained`,
  `EventuallyHandled`, `PageSettles`) and ENABLED are out of the prover's reach.
* The runs that must find a violation, since what they refute holds of no instance that
  is large enough.
* That the actions fire at all, and that each property can be broken: TLC's coverage and
  the mutants.

No safety property of a passing run is left to TLC alone.

## 7. What the models showed

Disagreements between the text and the code, each a run that TLC must find
violated:

1. `workflow_writes_again`: the module doc of `durable_workflow.py` says that a
   workflow whose workspace is gone fails safely "instead of quietly writing
   again". If the death comes after the commit and before apply's checkpoint,
   nothing durable records the write, and the continued workflow clones, writes and
   commits again.
2. `event_ledger_lost`: a line appended to the spool while a sync is between its
   read and its rewrite is deleted without ever having been inserted.
3. `promoted_twice`: the entry is popped only after the deployment; a second
   promote request in these minutes promotes the same candidate.
4. `billed_twice`: after a rebalance in the middle of a delivery two listeners
   are past the exists check; `save` on an assigned key merges, and when the first
   commits before the second one's select there is no conflict.
5. `resumed_twice`: each end of a session records the usage of the whole
   transcript, so a session that ends twice counts its first part twice.
6. `skipped_passes`: one path without a rule makes a change UNKNOWN, which is
   not in the list of risks that turn skipped tests into UNVERIFIED.

Observations without a run of their own:

* Workflow. A death between apply's commit and its checkpoint makes apply skip, so
  an APPLIED workflow has no push status although the module doc (46-47) says it
  is recorded. `_find_own_commit` also takes another workflow's commit of the
  same content (41-43), which verify then refuses. A death between the input
  checkpoint and the first node leaves a checkpoint that lacks the key the next
  invoke needs (510); only a new start helps. `_WORKFLOW_LOCK` (`web_server.py`
  2466) is per process.
* Store. `put` does not update `parent_checkpoint_id` on a conflict, while
  MemorySaver does; `get_tuple`'s two statements agree only because a thread has one
  writer.
* Ledger. Two hooks may both see a stale lock, and the second unlink removes
  the first one's fresh lock (426); a death inside `write_text` (364) loses the
  lines that still failed; one torn line stops every later sync (345).
* Delivery. The pop in a promotion removes a candidate that was verified meanwhile
  (`triage_promotion.py` 234); a promotion takes no slot (192), so a trainer run and
  a promotion may each take the other's deployment for its own, and a later trainer
  run deploys a clone of master and takes a promoted fix out of production
  (`web_server.py` 941); the cooldown is checked before the slot is taken and set
  after it is given back (1313). A reset whose local clock is ahead waits until its
  timeout on every run without a Date header.
* Backend acceptance. An exception between the two cycles leaves the probe in
  production: there is no `finally` around the restore.
* Lab. A rerun of scenario A that Redis refuses still reports
  (`TriageScenarioAService` 86-100); scenario B's answer is torn when it is approved
  in the middle of a run. A reservation made before midnight is a call after it, so
  the calls of a day exceed the cap by those in flight.
* Interview. The budget is checked before and recorded after the call, so
  visitors who ask at the same time are all let in, and retries cost more than one
  call. A topic with homes but no home chunk among those retrieved is refused as
  ungrounded though others might answer, and the line about employers may tell the
  model to lead with one of which no excerpt is shown.
* Accounts. A development session is priced per row in one sum and by its latest
  model on its card; the hook prices a whole transcript by the last model it
  names; a new price re-prices old sessions, as there is no `as_of`. A usage record
  of a run may hold other callers' calls (the slice reaches to the end of one list,
  after the slot is released), although `web_server.py` 562-563 says "exactly the
  model calls this run made".
* Evidence. A redeployed run emits "commit" without a commit; the cohort
  comparison includes mock runs.
* Publishing. The Java results come from whatever reports Maven left on the disk,
  although `test_publish_triage_results.py` 110-111 says "the committed JSON must
  describe the current catalogue, triage code and triage tests"; the hashes are
  taken after the measurement. What decides the scores of the evals and is not
  hashed (the corpus, the retrieval code, the model's weights,
  `publish_eval_results.py` 153-160, named in the JSON as "not covered") may change
  under green tests, and the page's verdict then differs from CI's gate
  (`EditUnhashed`); `GreenIsTrue` claims the verdict only while it has not.
* Applications. `update_item` takes any status from the holder of the token (`Set`):
  a pack that was applied for can be set back to pending and is then applied for
  again. `AppliedOnce` leaves that out.
* Advice. A model reply that is JSON but no object raises `TypeError` in
  `analyze_with_llm`; `LLM_MODE` is not looked at by the analysis or by the loop
  of an agent run.
* Outbox. "Published in order" (`OutboxPublisher` 31-32) fails after a failed send.

## 8. Limits

* One server process. `_WORKFLOW_LOCK` and the run slot are process-wide, and the
  deployment runs one.
* Spool lines are whole. A torn line, which would stop every later sync, is not
  modelled.
* `LockAges` keeps the premise of `SYNC_LOCK_MAX_AGE_SECONDS`: no sync runs
  longer than that.
* One partition, one topic. Partitions share no state, and no property compares
  events of different plans. A listener that has lost the partition finishes the
  record it is in; the other records of its poll are left out.
* In the notification service there is no error handler of its own; the modelled
  one is the Customer App's.
* Three triage scenarios share nothing; promotions have one, the Lab's rows one.
* Budgets are kept for one or two callers; a caller is a model value, as the code
  knows a hash of an address.
* Texts, diffs, page rendering and what a model answers are choices or are left
  out; cost is one unit per turn where a sum is the matter.
* A text is what the cutter was given: `read_file` (`tools.py` 208-217) hands the
  first 20,000 characters of a file to `rag_index`, and says so in the text.
* The backend catalogue has no gate of its own: the script that drives it is run by
  hand, and that its texts are valid ones (`normalize_backend_requirement`) is taken
  as its contract.
* Similarity is a rank among a few values, with the code's thresholds among them.
* The plan cache (`ContractPlanCacheService`) is not modelled: a late put after an
  evict is its hazard, and it would need the enrollment's transactions with
  `@Cacheable` reads beside them.

### Not modelled

Pure reports over files, generators of pages from data, one-shot checks without
state (secret scan, configuration drift, preflight, tracking), Spring Security,
the authorization server and Resilience4j as configuration, the gateway's
stateless fan-out, CRUD services over one table, and offline scoring and capture
scripts of the interview. They have no interleaving, no fault handling of their
own and no state that outlives a call; a model would restate them line by line.
`PROJECT.json` lists each with its reason.

## 9. Plan

Done, in this order: durable workflow, its abstraction and proofs; event ledger;
delivery and promotion; outbox and consumers; agent runs and their pages;
interview, Lab and enrollment; the views of the ledger; gate, catalogues, index,
backend pipeline; store and its abstraction; publishing, usage and clocks. Left:

1. The plan cache against a concurrent enrollment (`getActivePlan` 64-79, `evict`
   82-88): no plan older than the last completed evict is served after it.
2. The billing service's enrollment (121-217, 228-252), where the lock is all
   there is.
3. An at-least-once channel as the abstraction of `Outbox`, a growing set as that of
   `EventLedger` while `raced = {}`.
4. Proofs of what these would add; those of the properties checked so far are done.
