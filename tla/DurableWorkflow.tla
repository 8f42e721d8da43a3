-------------------------- MODULE DurableWorkflow --------------------------
(***************************************************************************)
(* The checkpointed software-change workflow of agent/durable_workflow.py, *)
(* the checkpoint store it runs on (agent/workflow_checkpointer.py) and    *)
(* the HTTP handlers that drive it (agent/web_server.py).                  *)
(*                                                                         *)
(* A workflow is a graph of nodes.  A node reads the values of the latest  *)
(* checkpoint, does its work and returns new values; the values are stored *)
(* first as pending writes of the old checkpoint, then as a new checkpoint,*)
(* and only then does the next node start (DURABILITY = "sync").  The      *)
(* process may die between any two of these steps, with or without the     *)
(* disk that holds the git workspaces.                                     *)
(***************************************************************************)
EXTENDS Naturals, FiniteSets

CONSTANTS
  Workflows,       \* workflow ids (uuid4 in the code: never reused)
  Bindings,        \* sha256 of (path, new content): what a human approves
  Free,            \* nobody holds _WORKFLOW_LOCK
  None,            \* an absent value
  PushConfigured,  \* is DEMO_GIT_PUSH_TOKEN set?
  DiskSurvives,    \* do the workspaces survive the death of the process?
  LogMayFail,      \* may `git log` in a workspace fail (it has 20 s)?
  MaxRequests,     \* bound: decisions submitted over HTTP
  MaxCrashes       \* bound: deaths of the process, and runs that raise

ASSUME ConstantsAssumption ==
  /\ Free \notin Workflows
  /\ None \notin Bindings
  /\ PushConfigured \in BOOLEAN
  /\ DiskSurvives \in BOOLEAN
  /\ LogMayFail \in BOOLEAN
  /\ MaxRequests \in Nat
  /\ MaxCrashes \in Nat

VARIABLES
  lock,       \* the workflow whose graph runs under _WORKFLOW_LOCK, or Free
  phase,      \* how far the running node is
  answer,     \* the human answer Command(resume=...) carries into the graph
  out,        \* the values the running node has returned, not yet durable
  ckpt,       \* workflow_checkpoints: latest checkpoint of each workflow
  pend,       \* workflow_checkpoint_writes: a finished node's values
  ws,         \* the git workspace of each workflow
  remote,     \* workflow commits on the remote's workflow/<id> branches
  commits,    \* history: how often each workflow has committed
  inbox,      \* decisions submitted over HTTP, not yet handled
  decisions,  \* workflow_human_decision events in the ledger
  requests,   \* decisions submitted so far (bounded)
  crashes     \* process deaths and raised runs so far (bounded)

exec    == <<lock, phase, answer, out>>
store   == <<ckpt, pend>>
git     == <<ws, remote, commits>>
human   == <<inbox, decisions, requests>>
vars    == <<exec, store, git, human, crashes>>

-----------------------------------------------------------------------------
(* Values of a checkpoint *)

STATES == {"RECEIVED", "BLOCKED", "INVESTIGATED", "PROPOSED",
           "WAITING_FOR_APPROVAL", "APPROVED", "REJECTED", "APPLIED",
           "COMPILED", "TESTED", "VERIFIED", "COMPLETED", "FAILED"}
TERMINAL_STATES == {"BLOCKED", "REJECTED", "COMPLETED", "FAILED"}

Nodes == {"__start__", "receive", "investigate", "propose", "mark_waiting",
          "wait_for_approval", "apply", "compile", "test", "verify",
          "complete", "END"}

Answer == [decision : {"approve", "reject"}, binding : Bindings]
Request == [wf : Workflows, answer : Answer]
Commit == [wf : Workflows, binding : Bindings, n : Nat]
Applied == [commit : Commit, dup : BOOLEAN,
            push : {"PUSHED", "NOT_CONFIGURED", "FAILED", "UNRECORDED"}]

\* Channel values of one checkpoint, with the node the graph runs next.
\* "None" as a state is the None that start_workflow puts there.
WorkflowState ==
  [next      : Nodes,
   state     : STATES \cup {"None"},
   completed : SUBSET STATES,
   binding   : Bindings \cup {None},
   pending   : BOOLEAN,
   approval  : Answer \cup {None},
   applied   : Applied \cup {None}]

ASSUME NoneIsNoValue ==
  /\ None \notin Answer
  /\ None \notin Commit
  /\ None \notin Applied
  /\ None \notin WorkflowState

Initial == [next |-> "__start__", state |-> "None", completed |-> {},
            binding |-> None, pending |-> FALSE, approval |-> None,
            applied |-> None]

NoWorkspace == [exists |-> FALSE, content |-> "none", head |-> None, refs |-> {}]
Clone(rem)  == [exists |-> TRUE, content |-> "base", head |-> None, refs |-> rem]
Workspace   == [exists : BOOLEAN, content : {"none", "base", "approved"},
                head : Commit \cup {None}, refs : SUBSET Commit]

Phases == {"idle", "node", "cloned", "written", "committed", "returned", "stored"}

\* describe_workflow: a checkpoint without the required keys is never trusted.
Status(w) == IF ckpt[w] = None THEN "not_found"
             ELSE IF ckpt[w].next = "__start__" THEN "corrupt"
             ELSE "ok"

Ended(w) == Status(w) = "ok" /\ ckpt[w].state \in TERMINAL_STATES

\* resume_workflow accepts a decision only here.
Waiting(w) == /\ Status(w) = "ok"
              /\ ckpt[w].state = "WAITING_FOR_APPROVAL"
              /\ ckpt[w].pending

-----------------------------------------------------------------------------
(* Running the graph *)

Init ==
  /\ lock = Free /\ phase = "idle" /\ answer = None /\ out = None
  /\ ckpt = [w \in Workflows |-> None]
  /\ pend = [w \in Workflows |-> None]
  /\ ws = [w \in Workflows |-> NoWorkspace]
  /\ remote = {}
  /\ commits = [w \in Workflows |-> 0]
  /\ inbox = {} /\ decisions = {} /\ requests = 0
  /\ crashes = 0

\* _route_after: a terminal outcome ends the graph whatever edge the node has.
\* Mutant: the REJECTED outcome is forgotten.
RoutedPastReject(s, nxt) == IF s \in TERMINAL_STATES \ {"REJECTED"} THEN "END" ELSE nxt
Routed(s, nxt) == IF s \in TERMINAL_STATES THEN "END" ELSE nxt

\* _record_transition: the state that is left joins the completed ones.
Completed(v) == IF v.state = "None" THEN v.completed ELSE v.completed \cup {v.state}

Moved(v, s, nxt) == [v EXCEPT !.state = s, !.completed = Completed(v),
                              !.next = Routed(s, nxt)]

\* The running node is n and its body has not begun.
At(n) == /\ lock # Free
         /\ phase = "node"
         /\ ckpt[lock].next = n

Return(v) == /\ out' = v
             /\ phase' = "returned"
             /\ UNCHANGED lock

\* The end of graph.invoke, and of everything the process held in memory.
Release == lock' = Free /\ phase' = "idle" /\ answer' = None /\ out' = None

\* graph.invoke: a node that finished before a crash left its pending writes,
\* which are replayed instead of running the node (and the answer) again.
Invoke(w, a) ==
  /\ lock = Free
  /\ lock' = w
  /\ IF pend[w] = None
       THEN phase' = "node" /\ answer' = a /\ out' = None
       ELSE phase' = "stored" /\ answer' = None /\ out' = pend[w]

\* Mutant: a start under the id of an existing workflow.
Restart(w) ==
  /\ Invoke(w, None)
  /\ ckpt' = [ckpt EXCEPT ![w] = Initial]
  /\ UNCHANGED <<pend, git, human, crashes>>
\* start_workflow: the input checkpoint comes before the first state.
Start(w) ==
  /\ ckpt[w] = None
  /\ Invoke(w, None)
  /\ ckpt' = [ckpt EXCEPT ![w] = Initial]
  /\ UNCHANGED <<pend, git, human, crashes>>

\* continue_workflow goes on from any state but a terminal or a waiting one.
\* Mutant: only a workflow whose change has been applied is continued.
ContinuableIfApplied(w) ==
  Status(w) = "ok" /\ ckpt[w].state \in {"APPLIED", "COMPILED", "TESTED", "VERIFIED"}
Continuable(w) ==
  Status(w) = "ok" /\ ckpt[w].state \notin TERMINAL_STATES \cup {"WAITING_FOR_APPROVAL"}

\* workflow_continue: no decision is carried.
Continue(w) ==
  /\ Continuable(w)
  /\ Invoke(w, None)
  /\ UNCHANGED <<store, git, human, crashes>>

\* workflow_decide records the event first ...
Submit(w, a) ==
  /\ requests < MaxRequests
  /\ requests' = requests + 1
  /\ inbox' = inbox \cup {[wf |-> w, answer |-> a]}
  /\ decisions' = decisions \cup {[wf |-> w, answer |-> a]}
  /\ UNCHANGED <<exec, store, git, crashes>>

\* ... then resume_workflow runs under the lock if the workflow waits,
Resume(r) ==
  /\ r \in inbox
  /\ Waiting(r.wf)
  /\ Invoke(r.wf, r.answer)
  /\ inbox' = inbox \ {r}
  /\ UNCHANGED <<store, git, decisions, requests, crashes>>

\* and is otherwise turned away ("busy", "refused" or the describe result).
TurnAway(r) ==
  /\ r \in inbox
  /\ lock # Free \/ ~Waiting(r.wf)
  /\ inbox' = inbox \ {r}
  /\ UNCHANGED <<exec, store, git, decisions, requests, crashes>>

\* put_writes: the node's result becomes durable as pending writes, ...
PutWrites ==
  /\ lock # Free /\ phase = "returned"
  /\ pend' = [pend EXCEPT ![lock] = out]
  /\ phase' = "stored"
  /\ UNCHANGED <<lock, answer, out, ckpt, git, human, crashes>>

\* put: ... and then as the next checkpoint.
PutCheckpoint ==
  /\ lock # Free /\ phase \in {"returned", "stored"}
  /\ ckpt' = [ckpt EXCEPT ![lock] = out]
  /\ pend' = [pend EXCEPT ![lock] = None]
  /\ IF out.next = "END"
       THEN Release
       ELSE phase' = "node" /\ out' = None /\ UNCHANGED <<lock, answer>>
  /\ UNCHANGED <<git, human, crashes>>

-----------------------------------------------------------------------------
(* The nodes that only compute *)

values == ckpt[lock]

Quiet == UNCHANGED <<store, git, human, crashes>>

\* The graph's own START task copies the input into the state channels.
StartTask == At("__start__") /\ Return([values EXCEPT !.next = "receive"])
             /\ UNCHANGED answer /\ Quiet

\* receive: length cap and risk policy may block the requirement.
Receive ==
  /\ At("receive")
  /\ \/ Return(Moved(values, "RECEIVED", "investigate"))
     \/ Return(Moved(values, "BLOCKED", "END"))
  /\ UNCHANGED answer /\ Quiet

Investigate == At("investigate") /\ Return(Moved(values, "INVESTIGATED", "propose"))
               /\ UNCHANGED answer /\ Quiet

\* propose: unsupported requirement, write boundary, missing target or a
\* refused mutation fail; otherwise the proposal is bound to its content.
Propose ==
  /\ At("propose")
  /\ \/ Return(Moved(values, "FAILED", "END"))
     \/ \E b \in Bindings :
          Return([Moved(values, "PROPOSED", "mark_waiting")
                    EXCEPT !.binding = b, !.pending = TRUE])
  /\ UNCHANGED answer /\ Quiet

MarkWaiting ==
  At("mark_waiting")
  /\ Return(Moved(values, "WAITING_FOR_APPROVAL", "wait_for_approval"))
  /\ UNCHANGED answer /\ Quiet

\* wait_for_approval without an answer: the interrupt ends graph.invoke.
Interrupt == At("wait_for_approval") /\ answer = None
             /\ Release /\ Quiet

\* The state and the approval an answer leads to.  A binding other than the
\* proposal's is recorded as a rejection whatever the decision says.
\* Mutant: any approval is taken for an approval of the current proposal.
VerdictUnbound(a, b) ==
  IF a.decision = "approve"
    THEN [state |-> "APPROVED", approval |-> [decision |-> "approve", binding |-> b]]
    ELSE [state |-> "REJECTED", approval |-> a]
Verdict(a, b) ==
  IF a.binding = b /\ a.decision = "approve"
    THEN [state |-> "APPROVED", approval |-> a]
    ELSE [state |-> "REJECTED", approval |-> [decision |-> "reject", binding |-> a.binding]]

WaitForApproval ==
  /\ At("wait_for_approval") /\ answer # None
  /\ LET d == Verdict(answer, values.binding)
     IN Return([Moved(values, d.state, "apply") EXCEPT
                  !.pending = FALSE, !.approval = d.approval])
  /\ answer' = None
  /\ Quiet

-----------------------------------------------------------------------------
(* apply_change: the side effect *)

\* The code's precondition: approved, and approved for this very content.
ApprovalBinds == /\ values.approval # None
                 /\ values.approval.decision = "approve"
                 /\ values.approval.binding = values.binding

\* _find_own_commit: git log --all in the workspace, by binding.  The commit
\* at HEAD is the newest; otherwise any fetched commit with the binding.
FoundCommits(w, b) ==
  LET hits == {c \in ws[w].refs : c.binding = b}
  IN IF ws[w].head \in hits THEN {ws[w].head} ELSE hits

\* Mutant: the checkpoint is asked instead of the workspace.
AlreadyRecorded == values.applied # None
AlreadyApplied == ws[lock].exists /\ FoundCommits(lock, values.binding) # {}

\* The checkpoint records a write whose workspace is gone.
SideEffectLost == ~ws[lock].exists /\ values.applied # None

\* Refused precondition, or a recorded side effect without its workspace.
ApplyRefuse == Return(Moved(values, "FAILED", "END")) /\ UNCHANGED git

\* {**applied, ...}: the push status is whatever the checkpoint had.
PushOfSkipped(v) == IF v.applied = None THEN "UNRECORDED" ELSE v.applied.push

\* The commit is there: record it, keep the rest of `applied` as it was.
ApplySkip ==
  /\ \E c \in FoundCommits(lock, values.binding) :
       Return([Moved(values, "APPLIED", "compile") EXCEPT
                 !.applied = [commit |-> c, dup |-> TRUE,
                              push |-> PushOfSkipped(values)]])
  /\ UNCHANGED git

\* _create_workspace: remove what is there, clone the remote with all branches.
ApplyClone ==
  /\ \/ /\ ws' = [ws EXCEPT ![lock] = Clone(remote)]
        /\ phase' = "cloned"
        /\ UNCHANGED <<lock, out>>
     \/ /\ ws' = [ws EXCEPT ![lock] = NoWorkspace]      \* the clone fails
        /\ Return(Moved(values, "FAILED", "END"))
  /\ UNCHANGED <<remote, commits>>

\* The first search failed and the second one finds the commit: the workspace
\* is kept and written again.
ApplyReuse == phase' = "cloned" /\ UNCHANGED <<lock, out, git>>

\* The workspace is searched twice, and a search that fails finds nothing.
ApplyChange ==
  /\ At("apply")
  /\ IF ~ApprovalBinds \/ SideEffectLost
       THEN ApplyRefuse
       ELSE \/ AlreadyApplied /\ ApplySkip
            \/ AlreadyApplied /\ LogMayFail /\ ApplyReuse
            \/ (AlreadyApplied => LogMayFail) /\ ApplyClone
  /\ UNCHANGED <<answer, store, human, crashes>>

\* target.write_text(content)
ApplyWrite ==
  /\ lock # Free /\ phase = "cloned"
  /\ ws' = [ws EXCEPT ![lock].content = "approved"]
  /\ phase' = "written"
  /\ UNCHANGED <<lock, answer, out, remote, commits, store, human, crashes>>

\* git commit on workflow/<id>, with the binding in the subject; it may fail,
\* and it does when the workspace has its commit: nothing is left to commit.
ApplyCommit ==
  /\ lock # Free /\ phase = "written"
  /\ LET c == [wf |-> lock, binding |-> values.binding, n |-> commits[lock] + 1]
     IN \/ /\ ws[lock].head = None
           /\ ws' = [ws EXCEPT ![lock].head = c, ![lock].refs = @ \cup {c}]
           /\ commits' = [commits EXCEPT ![lock] = @ + 1]
           /\ phase' = "committed"
           /\ UNCHANGED <<lock, out>>
        \/ /\ Return(Moved(values, "FAILED", "END"))
           /\ UNCHANGED <<ws, commits>>
  /\ UNCHANGED <<answer, remote, store, human, crashes>>

\* push_change: the remote branch takes a fast-forward only, a failure may be
\* reported for a push that arrived, and the node returns its result.
ApplyPush ==
  /\ lock # Free /\ phase = "committed"
  /\ LET c        == ws[lock].head
         taken    == \E r \in remote : r.wf = lock
         applied(p) == [Moved(values, "APPLIED", "compile") EXCEPT
                          !.applied = [commit |-> c, dup |-> FALSE, push |-> p]]
     IN \/ ~PushConfigured /\ Return(applied("NOT_CONFIGURED")) /\ UNCHANGED remote
        \/ PushConfigured /\ Return(applied("FAILED")) /\ UNCHANGED remote
        \/ /\ PushConfigured /\ ~taken
           /\ remote' = remote \cup {c}
           /\ \E p \in {"PUSHED", "FAILED"} : Return(applied(p))
  /\ UNCHANGED <<answer, ws, commits, store, human, crashes>>

-----------------------------------------------------------------------------
(* compile, test, verify, complete *)

\* The build needs the workspace; its verdict is Maven's.
CompileStage ==
  /\ At("compile")
  /\ \/ ws[lock].exists /\ Return(Moved(values, "COMPILED", "test"))
     \/ Return(Moved(values, "FAILED", "END"))
  /\ UNCHANGED answer /\ Quiet

\* A static resource has no test surface and passes without looking.
TestStage ==
  /\ At("test")
  /\ \/ Return(Moved(values, "TESTED", "verify"))
     \/ Return(Moved(values, "FAILED", "END"))
  /\ UNCHANGED answer /\ Quiet

\* verify_stage: approved content on disk, and HEAD is the recorded commit.
\* Mutant: only the content is looked at.
VerifiedContent == ws[lock].exists /\ ws[lock].content = "approved"
Verified == /\ ws[lock].exists
            /\ ws[lock].content = "approved"
            /\ values.applied # None /\ ws[lock].head = values.applied.commit

VerifyStage ==
  /\ At("verify")
  /\ Return(IF Verified THEN Moved(values, "VERIFIED", "complete")
                        ELSE Moved(values, "FAILED", "END"))
  /\ UNCHANGED answer /\ Quiet

Complete ==
  /\ At("complete")
  /\ Return([Moved(values, "COMPLETED", "END") EXCEPT !.pending = FALSE])
  /\ UNCHANGED answer /\ Quiet

-----------------------------------------------------------------------------
\* A node or the store raises: the exception ends graph.invoke.
Raise ==
  /\ lock # Free
  /\ crashes < MaxCrashes
  /\ crashes' = crashes + 1
  /\ Release
  /\ UNCHANGED <<store, git, human>>

\* The process dies (a kill, a restart, a new container).  What is durable
\* stays; a new container has lost every workspace.
Crash ==
  /\ crashes < MaxCrashes
  /\ crashes' = crashes + 1
  /\ Release
  /\ inbox' = {}
  /\ \/ UNCHANGED ws
     \/ ~DiskSurvives /\ ws' = [w \in Workflows |-> NoWorkspace]
  /\ UNCHANGED <<store, remote, commits, decisions, requests>>

GraphStep ==
  \/ PutWrites \/ PutCheckpoint \/ StartTask \/ Receive \/ Investigate
  \/ Propose \/ MarkWaiting \/ Interrupt \/ WaitForApproval
  \/ ApplyChange \/ ApplyWrite \/ ApplyCommit \/ ApplyPush
  \/ CompileStage \/ TestStage \/ VerifyStage \/ Complete

Next ==
  \/ \E w \in Workflows : Start(w) \/ Continue(w)
  \/ \E w \in Workflows, a \in Answer : Submit(w, a)
  \/ \E r \in inbox : Resume(r) \/ TurnAway(r)
  \/ GraphStep
  \/ Raise \/ Crash

\* Every variable keeps its shape: in particular nothing but a value of the
\* workflow's own state type is ever written to the checkpoint store.
TypeOK ==
  /\ lock \in Workflows \cup {Free}
  /\ phase \in Phases
  /\ answer \in Answer \cup {None}
  /\ out \in WorkflowState \cup {None}
  /\ ckpt \in [Workflows -> WorkflowState \cup {None}]
  /\ pend \in [Workflows -> WorkflowState \cup {None}]
  /\ ws \in [Workflows -> Workspace]
  /\ remote \in SUBSET Commit
  /\ commits \in [Workflows -> Nat]
  /\ inbox \in SUBSET Request
  /\ decisions \in SUBSET Request
  /\ requests \in 0..MaxRequests
  /\ crashes \in 0..MaxCrashes

Spec == Init /\ [][Next]_vars

\* A request thread that holds the lock keeps running, and an operator presses
\* continue on a workflow that a crash has stopped.
FairSpec == /\ Spec
            /\ WF_vars(GraphStep)
            /\ \A w \in Workflows : WF_vars(Continue(w))
=============================================================================
