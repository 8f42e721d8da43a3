------------------------- MODULE WorkflowProperties -------------------------
(***************************************************************************)
(* What must be true of DurableWorkflow, the inductive invariant behind    *)
(* it, and the abstract specification it implements.                       *)
(***************************************************************************)
EXTENDS DurableWorkflow

\* A workflow's checkpoint is readable and holds this state.
InState(w, S) == Status(w) = "ok" /\ ckpt[w].state \in S

\* Whatever was ever written or committed for a workflow, a human submitted an
\* approval of exactly that content first and the checkpoint holds it, and no
\* other content reaches the workspace or the remote.  So a blocked or rejected
\* workflow leaves no trace (durable_workflow.py: "approval arrives ONLY
\* through resume_workflow()"; workflow_drill.py phase 6).
OnlyApprovedIsWritten ==
  \A w \in Workflows :
    commits[w] > 0 \/ ws[w].exists =>
      /\ ckpt[w] # None /\ ckpt[w].approval # None
      /\ ckpt[w].approval.decision = "approve"
      /\ ckpt[w].approval.binding = ckpt[w].binding
      /\ [wf |-> w, answer |-> ckpt[w].approval] \in decisions
      /\ \A c \in ws[w].refs \cup remote : c.wf = w => c.binding = ckpt[w].binding

\* While workspaces survive and git log answers, an approval is spent on one commit however often
\* the process dies inside apply and the workflow is continued.
CommittedOnce == \A w \in Workflows : commits[w] <= 1

\* COMPLETED means every gate was passed, and the recorded commit is this
\* workflow's own, of the approved content - also when apply skipped, when
\* another workflow has the same binding and when the disk was lost between.
CompletedIsEarned ==
  \A w \in Workflows :
    InState(w, {"COMPLETED"}) =>
      /\ ckpt[w].completed = {"RECEIVED", "INVESTIGATED", "PROPOSED",
           "WAITING_FOR_APPROVAL", "APPROVED", "APPLIED", "COMPILED",
           "TESTED", "VERIFIED"}
      /\ ckpt[w].applied.commit.wf = w
      /\ ckpt[w].applied.commit.binding = ckpt[w].approval.binding
      /\ ckpt[w].applied.commit.n = commits[w]

\* A push status PUSHED in any checkpoint is true of the remote.
PushedIsOnRemote ==
  \A w \in Workflows :
    (ckpt[w] # None /\ ckpt[w].applied # None /\ ckpt[w].applied.push = "PUSHED")
      => ckpt[w].applied.commit \in remote

\* What the record of a workflow claims is true of its gates, its commits and
\* the remote (durable_workflow.verify_stage, apply_change).
RecordIsTrue == CompletedIsEarned /\ PushedIsOnRemote

\* A workflow that ended stays as it ended: no later request, continue or
\* replay changes its checkpoint, its commits or (but for a lost disk) its
\* workspace.
EndedStaysEnded ==
  [][\A w \in Workflows :
       Ended(w) => /\ ckpt'[w] = ckpt[w]
                   /\ commits'[w] = commits[w]
                   /\ ws'[w] \in {ws[w], NoWorkspace}]_vars

\* The proposal shown and the verdict on it are never replaced: not by a
\* second decision, a re-executed node or a replayed write.
VerdictIsFinal ==
  [][\A w \in Workflows :
       ckpt[w] # None =>
         /\ ckpt[w].binding # None => ckpt'[w].binding = ckpt[w].binding
         /\ ckpt[w].approval # None => ckpt'[w].approval = ckpt[w].approval]_vars

\* Every workflow that got past its input checkpoint ends or waits for a
\* human, whatever the crashes; an approved one cannot wait again, so it ends.
Settles ==
  \A w \in Workflows :
    (Status(w) = "ok") ~> InState(w, TERMINAL_STATES \cup {"WAITING_FOR_APPROVAL"})

ApprovedEnds ==
  \A w \in Workflows : InState(w, {"APPROVED"}) ~> Ended(w)

-----------------------------------------------------------------------------
\* The abstract specification, read off the durable state.
Offers   == [w \in Workflows |-> IF ckpt[w] = None THEN None ELSE ckpt[w].binding]
Verdicts == [w \in Workflows |->
               IF ckpt[w] = None \/ ckpt[w].approval = None THEN "open"
               ELSE IF ckpt[w].approval.decision = "approve" THEN "approved"
               ELSE "refused"]
Outcomes == [w \in Workflows |->
               IF ckpt[w] = None THEN "none"
               ELSE IF ckpt[w].state = "COMPLETED" THEN "completed"
               ELSE IF ckpt[w].state \in {"FAILED", "BLOCKED"} THEN "failed"
               ELSE "none"]

Promise == INSTANCE ApprovedChange WITH
  Changes <- Workflows, Contents <- Bindings,
  offer <- Offers, verdict <- Verdicts, written <- commits, outcome <- Outcomes

\* The workflow engine implements the promise: offered once, decided once,
\* written only once approved, completed only once written.
KeepsPromise == Promise!Spec

-----------------------------------------------------------------------------
(* The inductive invariant *)

BeforeProposal == {"__start__", "receive", "investigate", "propose"}
BeforeDecision == BeforeProposal \cup {"mark_waiting", "wait_for_approval"}
AfterApproval  == {"apply", "compile", "test", "verify", "complete"}

ApprovedIn(v) == v.approval # None /\ v.approval.decision = "approve"

\* What a checkpoint of w, or the values about to become one, may say.
ValueOK(w, v) ==
  /\ v.next = "END" <=> v.state \in TERMINAL_STATES
  /\ v.next \in BeforeProposal => v.binding = None
  /\ v.next \in BeforeDecision => v.approval = None
  /\ v.next \in AfterApproval => ApprovedIn(v)
  /\ ApprovedIn(v) => /\ v.approval.binding = v.binding
                      /\ [wf |-> w, answer |-> v.approval] \in decisions

\* v may follow u: the proposal and the verdict on it are never replaced.
Follows(u, v) == /\ u.binding # None => v.binding = u.binding
                 /\ u.approval # None => v.approval = u.approval

\* The store: a pending write follows the checkpoint it belongs to.
StoreOK ==
  \A w \in Workflows :
    /\ ckpt[w] # None => ValueOK(w, ckpt[w])
    /\ pend[w] # None => /\ ckpt[w] # None
                         /\ ValueOK(w, pend[w])
                         /\ Follows(ckpt[w], pend[w])

\* The running graph: it has a checkpoint to run from that is not an end, an
\* answer it carries was submitted, and what it returns may follow.
RunOK ==
  /\ lock = Free <=> phase = "idle"
  /\ lock # Free =>
       /\ ckpt[lock] # None /\ ckpt[lock].next # "END"
       /\ answer # None => [wf |-> lock, answer |-> answer] \in decisions
       /\ phase \in {"returned", "stored"} =>
            out # None /\ ValueOK(lock, out) /\ Follows(ckpt[lock], out)
       /\ phase \in {"cloned", "written", "committed"} => ckpt[lock].next = "apply"
       /\ phase = "committed" => ws[lock].head \in ws[lock].refs

\* Git: every commit anywhere is of a workflow that is approved and of the
\* content that was approved.
ApprovedAt(w) == ckpt[w] # None /\ ApprovedIn(ckpt[w])
CommitsOf(w)  == ws[w].refs \cup remote
GitOK ==
  /\ \A w \in Workflows :
       commits[w] > 0 \/ ws[w].exists => ApprovedAt(w)
  /\ \A w \in Workflows : \A c \in CommitsOf(w) :
       ApprovedAt(c.wf) /\ c.binding = ckpt[c.wf].binding

\* The invariant by which OnlyApprovedIsWritten, VerdictIsFinal and
\* EndedStaysEnded are proved: store, running graph and git agree.
WorkflowInv == TypeOK /\ inbox \subseteq decisions /\ StoreOK /\ RunOK /\ GitOK

\* And the one for CommittedOnce: a workflow that has committed still has the
\* commit where _find_own_commit looks for it.
OnceInv ==
  /\ \A w \in Workflows :
       commits[w] > 0 => /\ commits[w] = 1
                         /\ ws[w].exists
                         /\ \E c \in ws[w].refs : c.binding = ckpt[w].binding
  /\ lock # Free /\ phase \in {"cloned", "written"} =>
       commits[lock] = 0 /\ ws[lock].exists

-----------------------------------------------------------------------------
(* The inductive invariant behind RecordIsTrue and KeepsPromise *)

\* Where the graph stands when n is next: the state it is in, those it has left.
StateAt(n) ==
  CASE n = "investigate"       -> "RECEIVED"
    [] n = "propose"           -> "INVESTIGATED"
    [] n = "mark_waiting"      -> "PROPOSED"
    [] n = "wait_for_approval" -> "WAITING_FOR_APPROVAL"
    [] n = "apply"             -> "APPROVED"
    [] n = "compile"           -> "APPLIED"
    [] n = "test"              -> "COMPILED"
    [] n = "verify"            -> "TESTED"
    [] n = "complete"          -> "VERIFIED"
    [] OTHER                   -> "None"
Gates == {"RECEIVED", "INVESTIGATED", "PROPOSED", "WAITING_FOR_APPROVAL", "APPROVED",
          "APPLIED", "COMPILED", "TESTED", "VERIFIED"}
Behind(n) ==
  CASE n = "propose"           -> {"RECEIVED"}
    [] n = "mark_waiting"      -> {"RECEIVED", "INVESTIGATED"}
    [] n = "wait_for_approval" -> {"RECEIVED", "INVESTIGATED", "PROPOSED"}
    [] n = "apply"             -> Gates \ {"APPROVED", "APPLIED", "COMPILED", "TESTED", "VERIFIED"}
    [] n = "compile"           -> Gates \ {"APPLIED", "COMPILED", "TESTED", "VERIFIED"}
    [] n = "test"              -> Gates \ {"COMPILED", "TESTED", "VERIFIED"}
    [] n = "verify"            -> Gates \ {"TESTED", "VERIFIED"}
    [] n = "complete"          -> Gates \ {"VERIFIED"}
    [] OTHER                   -> {}

\* The recorded commit is the last one of w, of the content that was approved.
Earned(w, v) == /\ v.applied # None
                /\ v.applied.commit.wf = w
                /\ v.applied.commit.binding = v.approval.binding
                /\ v.applied.commit.n = commits[w]
                /\ commits[w] > 0

\* What is recorded as pushed is in r.
PushedIn(v, r) ==
  v.applied # None /\ v.applied.push = "PUSHED" => v.applied.commit \in r

\* What the values of w may claim.
RecordOK(w, v) ==
  /\ v.next # "END" => v.state = StateAt(v.next) /\ v.completed = Behind(v.next)
  /\ v.next \in BeforeDecision \cup {"apply"} => v.applied = None
  /\ v.next \in {"mark_waiting", "wait_for_approval"} => v.binding # None
  /\ v.next = "complete" => Earned(w, v)
  /\ v.state = "COMPLETED" => v.completed = Gates /\ Earned(w, v)

\* From u to v a workflow is offered or decided or neither, and what is offered or
\* decided has not ended in the same step.
OneMove(u, v) ==
  \/ v.binding = u.binding /\ v.approval = u.approval
  \/ /\ u.binding = None /\ v.binding # None
     /\ u.approval = None /\ v.approval = None
     /\ v.state \notin TERMINAL_STATES
  \/ /\ u.binding # None /\ v.binding = u.binding
     /\ u.approval = None /\ v.approval # None
     /\ v.state \notin {"COMPLETED", "FAILED", "BLOCKED"}

RecordInv ==
  /\ \A w \in Workflows :
       /\ ckpt[w] # None => RecordOK(w, ckpt[w]) /\ PushedIn(ckpt[w], remote)
       /\ pend[w] # None => /\ RecordOK(w, pend[w]) /\ PushedIn(pend[w], remote)
                            /\ OneMove(ckpt[w], pend[w])
       /\ ws[w].head # None => /\ ws[w].head \in ws[w].refs
                               /\ ws[w].head.wf = w
                               /\ ws[w].head.n = commits[w]
                               /\ commits[w] > 0
  /\ lock # Free /\ phase \in {"returned", "stored"} =>
       /\ RecordOK(lock, out) /\ PushedIn(out, remote)
       /\ OneMove(ckpt[lock], out)
  /\ lock # Free /\ phase # "stored" => pend[lock] = None
=============================================================================
