--------------------------- MODULE WorkflowProofs ---------------------------
(***************************************************************************)
(* Proofs about DurableWorkflow, for every set of workflows and bindings   *)
(* and every bound.                                                        *)
(***************************************************************************)
EXTENDS WorkflowProperties, TLAPS

-----------------------------------------------------------------------------
(* What the helpers return *)

\* _record_transition moves the state and the graph on and leaves alone what
\* the human saw and said (durable_workflow.py _record_transition).
LEMMA MovedFacts ==
  ASSUME NEW v \in WorkflowState, NEW s \in STATES, NEW n \in Nodes
  PROVE  /\ Moved(v, s, n) \in WorkflowState
         /\ Moved(v, s, n).state = s
         /\ Moved(v, s, n).next = Routed(s, n)
         /\ Moved(v, s, n).binding = v.binding
         /\ Moved(v, s, n).pending = v.pending
         /\ Moved(v, s, n).approval = v.approval
         /\ Moved(v, s, n).applied = v.applied
<1>1. Completed(v) \in SUBSET STATES
  BY DEF Completed, WorkflowState
<1>2. Routed(s, n) \in Nodes
  BY DEF Routed, Nodes
<1> QED BY <1>1, <1>2 DEF Moved, WorkflowState

\* The graph ends exactly at a terminal state (_route_after).
LEMMA RoutedEnd ==
  ASSUME NEW s \in STATES, NEW n \in Nodes, n # "END" \/ s \in TERMINAL_STATES
  PROVE  Routed(s, n) = "END" <=> s \in TERMINAL_STATES
BY DEF Routed

\* A search of the workspace finds commits of the workspace only.
LEMMA FoundInRefs ==
  ASSUME NEW w \in Workflows, NEW b
  PROVE  /\ FoundCommits(w, b) \subseteq {c \in ws[w].refs : c.binding = b}
         /\ (\E c \in ws[w].refs : c.binding = b) => FoundCommits(w, b) # {}
BY DEF FoundCommits

\* While a graph runs, its checkpoint is a value of the workflow's state type.
LEMMA Running ==
  ASSUME WorkflowInv, lock # Free
  PROVE  /\ lock \in Workflows
         /\ values \in WorkflowState
         /\ ValueOK(lock, values)
         /\ values.next # "END"
BY DEF WorkflowInv, TypeOK, StoreOK, RunOK, values

\* An approved workflow has a proposal, the one that was approved.
LEMMA ApprovedBinding ==
  ASSUME WorkflowInv, NEW w \in Workflows, ApprovedAt(w)
  PROVE  ckpt[w].binding \in Bindings
<1> DEFINE u == ckpt[w]
<1>1. u \in WorkflowState /\ ValueOK(w, u) /\ ApprovedIn(u)
  BY DEF WorkflowInv, TypeOK, StoreOK, ApprovedAt
<1> HIDE DEF u
<1>2. u.approval \in Answer /\ u.approval.binding = u.binding
  BY <1>1 DEF ValueOK, ApprovedIn, WorkflowState
<1>3. u.binding \in Bindings
  BY <1>2 DEF Answer
<1> QED BY <1>3 DEF u

-----------------------------------------------------------------------------
(* Steps of the running graph *)

\* A node that returns values which may follow the checkpoint keeps the
\* invariant, provided git stays in order.
LEMMA ReturnStep ==
  ASSUME WorkflowInv, lock # Free,
         NEW v \in WorkflowState, ValueOK(lock, v), Follows(values, v),
         Return(v), answer' \in {answer, None},
         UNCHANGED <<store, human, crashes>>,
         ws' \in [Workflows -> Workspace], remote' \in SUBSET Commit,
         commits' \in [Workflows -> Nat], GitOK'
  PROVE  WorkflowInv'
<1> USE DEF Return, store, human
<1>1. TypeOK'
  BY DEF WorkflowInv, TypeOK, Phases
<1>2. (inbox \subseteq decisions)'
  BY DEF WorkflowInv
<1>3. StoreOK'
  BY DEF WorkflowInv, StoreOK, ValueOK, Follows
<1>4. RunOK'
  BY NoneIsNoValue DEF WorkflowInv, RunOK, ValueOK, Follows, values
<1> QED BY <1>1, <1>2, <1>3, <1>4 DEF WorkflowInv

\* The same for a node that leaves git alone.
LEMMA QuietReturn ==
  ASSUME WorkflowInv, lock # Free,
         NEW v \in WorkflowState, ValueOK(lock, v), Follows(values, v),
         Return(v), answer' \in {answer, None}, Quiet
  PROVE  WorkflowInv'
<1>1. /\ ws' \in [Workflows -> Workspace] /\ remote' \in SUBSET Commit
      /\ commits' \in [Workflows -> Nat]
  BY DEF WorkflowInv, TypeOK, Quiet, git
<1>2. GitOK'
  BY DEF WorkflowInv, GitOK, ApprovedAt, ApprovedIn, CommitsOf, Quiet, git, store
<1> QED BY <1>1, <1>2, ReturnStep DEF Quiet

\* Moving on without touching the proposal or the verdict is allowed wherever
\* the next node is on the same side of the decision.
LEMMA MoveFollows ==
  ASSUME WorkflowInv, lock # Free,
         NEW s \in STATES, NEW n \in Nodes,
         n # "END" \/ s \in TERMINAL_STATES,
         n \in BeforeProposal => values.next \in BeforeProposal,
         n \in BeforeDecision => values.next \in BeforeDecision,
         n \in AfterApproval => values.next \in AfterApproval
  PROVE  /\ Moved(values, s, n) \in WorkflowState
         /\ ValueOK(lock, Moved(values, s, n))
         /\ Follows(values, Moved(values, s, n))
<1>1. values \in WorkflowState /\ ValueOK(lock, values)
  BY Running
<1> DEFINE m == Moved(values, s, n)
<1>2. /\ m \in WorkflowState
      /\ m.state = s /\ m.next = Routed(s, n)
      /\ m.binding = values.binding /\ m.approval = values.approval
  BY <1>1, MovedFacts
<1>3. (m.next = "END" <=> s \in TERMINAL_STATES) /\ m.next \in {n, "END"}
  BY <1>2, RoutedEnd DEF Routed
<1>4. ValueOK(lock, m)
  BY <1>1, <1>2, <1>3 DEF ValueOK, ApprovedIn, BeforeProposal, BeforeDecision, AfterApproval
<1>5. Follows(values, m)
  BY <1>2 DEF Follows
<1> QED BY <1>2, <1>4, <1>5

-----------------------------------------------------------------------------
(* Every action keeps the invariant *)

\* The nodes that only compute.
LEMMA ComputeSteps ==
  ASSUME WorkflowInv,
         StartTask \/ Receive \/ Investigate \/ MarkWaiting
           \/ CompileStage \/ TestStage \/ VerifyStage
  PROVE  WorkflowInv'
<1> USE DEF At, values
<1>1. CASE StartTask
  <2>1. lock # Free /\ values.next = "__start__"
    BY <1>1 DEF StartTask
  <2> DEFINE v == [values EXCEPT !.next = "receive"]
  <2>2. /\ v \in WorkflowState /\ v.next = "receive"
        /\ v.state = values.state /\ v.binding = values.binding
        /\ v.approval = values.approval
    BY <2>1, Running DEF WorkflowState, Nodes
  <2>3. ValueOK(lock, v) /\ Follows(values, v)
    BY <2>1, <2>2, Running
    DEF ValueOK, Follows, ApprovedIn, BeforeProposal, BeforeDecision, AfterApproval
  <2> QED BY <1>1, <2>1, <2>2, <2>3, QuietReturn DEF StartTask
<1>2. ASSUME NEW here \in Nodes, At(here),
             NEW s \in STATES, NEW n \in Nodes,
             n # "END" \/ s \in TERMINAL_STATES,
             n \in BeforeProposal => here \in BeforeProposal,
             n \in BeforeDecision => here \in BeforeDecision,
             n \in AfterApproval => here \in AfterApproval,
             Return(Moved(values, s, n)), UNCHANGED answer, Quiet
      PROVE  WorkflowInv'
  BY <1>2, MoveFollows, QuietReturn
<1> USE DEF Nodes, STATES, TERMINAL_STATES, BeforeProposal, BeforeDecision, AfterApproval
<1>3. CASE Receive
  BY <1>2, <1>3 DEF Receive
<1>4. CASE Investigate
  BY <1>2, <1>4 DEF Investigate
<1>5. CASE MarkWaiting
  BY <1>2, <1>5 DEF MarkWaiting
<1>6. CASE CompileStage
  BY <1>2, <1>6 DEF CompileStage
<1>7. CASE TestStage
  BY <1>2, <1>7 DEF TestStage
<1>8. CASE VerifyStage
  BY <1>2, <1>8 DEF VerifyStage
<1> QED BY <1>1, <1>3, <1>4, <1>5, <1>6, <1>7, <1>8

\* complete: COMPLETED, and nothing is pending any more.
LEMMA CompleteStep ==
  ASSUME WorkflowInv, Complete
  PROVE  WorkflowInv'
<1>1. lock # Free /\ values.next = "complete"
  BY DEF Complete, At, values
<1> DEFINE m == Moved(values, "COMPLETED", "END")
           v == [m EXCEPT !.pending = FALSE]
<1>2. m \in WorkflowState /\ ValueOK(lock, m) /\ Follows(values, m)
  BY <1>1, MoveFollows
  DEF STATES, Nodes, TERMINAL_STATES, BeforeProposal, BeforeDecision, AfterApproval
<1>3. /\ v \in WorkflowState
      /\ v.next = m.next /\ v.state = m.state
      /\ v.binding = m.binding /\ v.approval = m.approval
  BY <1>2 DEF WorkflowState
<1>4. ValueOK(lock, v) /\ Follows(values, v)
  BY <1>2, <1>3 DEF ValueOK, Follows, ApprovedIn
<1> QED BY <1>1, <1>3, <1>4, QuietReturn DEF Complete

\* propose: the proposal is bound once, before there is any verdict.
LEMMA ProposeStep ==
  ASSUME WorkflowInv, Propose
  PROVE  WorkflowInv'
<1>1. lock # Free /\ values.next = "propose"
  BY DEF Propose, At, values
<1> USE DEF STATES, Nodes, TERMINAL_STATES
<1>2. CASE Return(Moved(values, "FAILED", "END"))
  BY <1>1, <1>2, MoveFollows, QuietReturn
  DEF Propose, BeforeProposal, BeforeDecision, AfterApproval
<1>3. ASSUME NEW b \in Bindings,
             Return([Moved(values, "PROPOSED", "mark_waiting")
                       EXCEPT !.binding = b, !.pending = TRUE])
      PROVE  WorkflowInv'
  <2> DEFINE m == Moved(values, "PROPOSED", "mark_waiting")
             v == [m EXCEPT !.binding = b, !.pending = TRUE]
  <2>1. values \in WorkflowState /\ values.binding = None /\ values.approval = None
    BY <1>1, Running DEF ValueOK, BeforeProposal, BeforeDecision
  <2>2. m \in WorkflowState /\ m.state = "PROPOSED" /\ m.next = "mark_waiting"
        /\ m.approval = None
    BY <2>1, MovedFacts DEF Routed
  <2>3. /\ v \in WorkflowState /\ v.state = "PROPOSED" /\ v.next = "mark_waiting"
        /\ v.approval = None
    BY <2>2 DEF WorkflowState
  <2>4. ValueOK(lock, v) /\ Follows(values, v)
    BY <2>1, <2>3
    DEF ValueOK, Follows, ApprovedIn, BeforeProposal, BeforeDecision, AfterApproval
  <2> QED BY <1>1, <1>3, <2>3, <2>4, QuietReturn DEF Propose
<1> QED BY <1>2, <1>3 DEF Propose

\* wait_for_approval: an approval counts only for the proposal it names.
LEMMA VerdictStep ==
  ASSUME WorkflowInv, WaitForApproval
  PROVE  WorkflowInv'
<1>1. lock # Free /\ values.next = "wait_for_approval" /\ answer # None
  BY DEF WaitForApproval, At, values
<1>2. /\ answer \in Answer
      /\ [wf |-> lock, answer |-> answer] \in decisions
  BY <1>1 DEF WorkflowInv, TypeOK, RunOK
<1>3. values \in WorkflowState /\ values.approval = None
  BY <1>1, Running DEF ValueOK, BeforeDecision
<1> DEFINE d == Verdict(answer, values.binding)
           m == Moved(values, d.state, "apply")
           v == [m EXCEPT !.pending = FALSE, !.approval = d.approval]
<1>4. /\ d.state \in {"APPROVED", "REJECTED"} /\ d.approval \in Answer
      /\ d.state = "APPROVED" <=> d.approval.decision = "approve"
      /\ d.state = "APPROVED" => /\ d.approval = answer
                                 /\ answer.binding = values.binding
  BY <1>2 DEF Verdict, Answer
<1>5. /\ m \in WorkflowState /\ m.state = d.state
      /\ m.next = (IF d.state = "APPROVED" THEN "apply" ELSE "END")
      /\ m.binding = values.binding
  BY <1>3, <1>4, MovedFacts, SMTT(20) DEF Routed, STATES, TERMINAL_STATES, Nodes
<1>6. /\ v \in WorkflowState /\ v.state = m.state /\ v.next = m.next
      /\ v.binding = values.binding /\ v.approval = d.approval
  BY <1>4, <1>5 DEF WorkflowState
<1>7. d.approval # None
  BY <1>4, NoneIsNoValue
<1>8. ValueOK(lock, v)
  BY <1>2, <1>4, <1>5, <1>6, <1>7
  DEF ValueOK, ApprovedIn, BeforeProposal, BeforeDecision, AfterApproval, TERMINAL_STATES
<1>9. Follows(values, v)
  BY <1>3, <1>6 DEF Follows
<1> QED BY <1>1, <1>6, <1>8, <1>9, QuietReturn DEF WaitForApproval

\* Inside the apply node the workflow is approved.
LEMMA ApplyIsApproved ==
  ASSUME WorkflowInv, lock # Free, values.next = "apply"
  PROVE  /\ ApprovedAt(lock)
         /\ values.approval.binding = values.binding
         /\ values.binding \in Bindings
<1>1. values \in WorkflowState /\ ValueOK(lock, values) /\ lock \in Workflows
  BY Running
<1>2. ApprovedIn(values)
  BY <1>1 DEF ValueOK, AfterApproval
<1>3. ckpt[lock] # None
  BY DEF WorkflowInv, RunOK
<1> QED BY <1>1, <1>2, <1>3 DEF ValueOK, ApprovedAt, ApprovedIn, WorkflowState, Answer, values

\* Returning APPLIED with any record of the side effect.
LEMMA AppliedFollows ==
  ASSUME WorkflowInv, lock # Free, values.next = "apply", NEW a \in Applied
  PROVE  LET v == [Moved(values, "APPLIED", "compile") EXCEPT !.applied = a]
         IN  v \in WorkflowState /\ ValueOK(lock, v) /\ Follows(values, v)
<1> DEFINE m == Moved(values, "APPLIED", "compile")
           v == [m EXCEPT !.applied = a]
<1>1. m \in WorkflowState /\ ValueOK(lock, m) /\ Follows(values, m)
  BY MoveFollows
  DEF STATES, Nodes, TERMINAL_STATES, BeforeProposal, BeforeDecision, AfterApproval
<1>2. /\ v \in WorkflowState
      /\ v.next = m.next /\ v.state = m.state
      /\ v.binding = m.binding /\ v.approval = m.approval
  BY <1>1 DEF WorkflowState
<1>3. ValueOK(lock, v) /\ Follows(values, v)
  BY <1>1, <1>2 DEF ValueOK, Follows, ApprovedIn
<1> QED BY <1>2, <1>3

\* Failing, at any node of the approved side, keeps what was decided.
LEMMA FailedFollows ==
  ASSUME WorkflowInv, lock # Free, values.next = "apply"
  PROVE  LET v == Moved(values, "FAILED", "END")
         IN  v \in WorkflowState /\ ValueOK(lock, v) /\ Follows(values, v)
BY MoveFollows
DEF STATES, Nodes, TERMINAL_STATES, BeforeProposal, BeforeDecision, AfterApproval

\* apply_change up to the clone.
LEMMA ApplyChangeStep ==
  ASSUME WorkflowInv, ApplyChange
  PROVE  WorkflowInv'
<1>1. /\ lock # Free /\ phase = "node" /\ values.next = "apply" /\ lock \in Workflows
      /\ UNCHANGED <<answer, store, human, crashes>>
  BY Running DEF ApplyChange, At, values
<1>2. CASE ApplyRefuse
  BY <1>1, <1>2, FailedFollows, QuietReturn DEF ApplyRefuse, Quiet
<1>3. CASE ApplySkip
  <2>1. PICK c \in FoundCommits(lock, values.binding) :
          Return([Moved(values, "APPLIED", "compile") EXCEPT
                    !.applied = [commit |-> c, dup |-> TRUE,
                                 push |-> PushOfSkipped(values)]])
    BY <1>3 DEF ApplySkip
  <2>2. c \in Commit
    BY <1>1, <2>1, FoundInRefs DEF WorkflowInv, TypeOK, Workspace
  <2>3. PushOfSkipped(values) \in {"PUSHED", "NOT_CONFIGURED", "FAILED", "UNRECORDED"}
    BY <1>1, Running DEF PushOfSkipped, WorkflowState, Applied
  <2>4. [commit |-> c, dup |-> TRUE, push |-> PushOfSkipped(values)] \in Applied
    BY <2>2, <2>3 DEF Applied
  <2> QED BY <1>1, <1>3, <2>1, <2>4, AppliedFollows, QuietReturn DEF ApplySkip, Quiet
<1>4. CASE ApplyClone
  <2>1. CASE /\ ws' = [ws EXCEPT ![lock] = Clone(remote)]
             /\ phase' = "cloned" /\ UNCHANGED <<lock, out>>
    <3>1. Clone(remote) \in Workspace
      BY DEF Clone, Workspace, WorkflowInv, TypeOK
    <3>2. TypeOK'
      BY <1>1, <1>4, <2>1, <3>1 DEF WorkflowInv, TypeOK, ApplyClone, store, human, Phases
    <3>3. StoreOK' /\ (inbox \subseteq decisions)'
      BY <1>1 DEF WorkflowInv, StoreOK, ValueOK, store, human
    <3>4. RunOK'
      BY <1>1, <2>1 DEF WorkflowInv, RunOK, store, human, values
    <3>5. GitOK'
      BY <1>1, <1>4, <2>1, ApplyIsApproved
      DEF WorkflowInv, GitOK, TypeOK, ApplyClone, Clone, CommitsOf, ApprovedAt, ApprovedIn, store
    <3> QED BY <3>2, <3>3, <3>4, <3>5 DEF WorkflowInv
  <2>2. CASE /\ ws' = [ws EXCEPT ![lock] = NoWorkspace]
             /\ Return(Moved(values, "FAILED", "END"))
    <3>1. NoWorkspace \in Workspace
      BY DEF NoWorkspace, Workspace
    <3>2. ws' \in [Workflows -> Workspace] /\ remote' \in SUBSET Commit
          /\ commits' \in [Workflows -> Nat]
      BY <1>4, <2>2, <3>1 DEF ApplyClone, WorkflowInv, TypeOK
    <3>3. GitOK'
      BY <1>1, <1>4, <2>2
      DEF WorkflowInv, GitOK, TypeOK, ApplyClone, NoWorkspace, CommitsOf, ApprovedAt, ApprovedIn, store
    <3> QED BY <1>1, <2>2, <3>2, <3>3, FailedFollows, ReturnStep
  <2> QED BY <1>4, <2>1, <2>2 DEF ApplyClone
<1>5. CASE ApplyReuse
  <2> USE DEF ApplyReuse, store, git, human
  <2>1. TypeOK' /\ (inbox \subseteq decisions)'
    BY <1>1, <1>5 DEF WorkflowInv, TypeOK, Phases
  <2>2. StoreOK'
    BY <1>1 DEF WorkflowInv, StoreOK, ValueOK
  <2>3. RunOK'
    BY <1>1, <1>5 DEF WorkflowInv, RunOK, values
  <2>4. GitOK'
    BY <1>1, <1>5 DEF WorkflowInv, GitOK, CommitsOf, ApprovedAt, ApprovedIn
  <2> QED BY <2>1, <2>2, <2>3, <2>4 DEF WorkflowInv
<1> QED BY <1>2, <1>3, <1>4, <1>5 DEF ApplyChange

\* The approved content reaches the workspace of an approved workflow only.
LEMMA ApplyWriteStep ==
  ASSUME WorkflowInv, ApplyWrite
  PROVE  WorkflowInv'
<1> USE DEF ApplyWrite, store, human
<1>1. lock \in Workflows
  BY Running
<1>2. [ws[lock] EXCEPT !.content = "approved"] \in Workspace
  BY <1>1 DEF Workspace, WorkflowInv, TypeOK
<1>3. /\ TypeOK' /\ (inbox \subseteq decisions)'
  BY <1>1, <1>2 DEF WorkflowInv, TypeOK, Phases
<1>4. StoreOK'
  BY DEF WorkflowInv, StoreOK, ValueOK
<1>5. RunOK'
  BY DEF WorkflowInv, RunOK
<1>6. \A w \in Workflows : ws'[w].exists = ws[w].exists /\ ws'[w].refs = ws[w].refs
  BY <1>1 DEF WorkflowInv, TypeOK, Workspace
<1>7. GitOK'
  BY <1>6 DEF WorkflowInv, GitOK, CommitsOf, ApprovedAt, ApprovedIn
<1> QED BY <1>3, <1>4, <1>5, <1>7 DEF WorkflowInv

\* The commit is of the approved content, whoever's history it joins.
LEMMA ApplyCommitStep ==
  ASSUME WorkflowInv, ApplyCommit
  PROVE  WorkflowInv'
<1> USE DEF store, human
<1>1. /\ lock # Free /\ lock \in Workflows /\ phase = "written"
      /\ values.next = "apply"
      /\ UNCHANGED <<answer, remote, store, human, crashes>>
  BY Running DEF ApplyCommit, WorkflowInv, RunOK, values
<1> DEFINE c == [wf |-> lock, binding |-> values.binding, n |-> commits[lock] + 1]
<1>2. c \in Commit
  BY <1>1, ApplyIsApproved DEF Commit, WorkflowInv, TypeOK
<1>3. CASE /\ ws' = [ws EXCEPT ![lock].head = c, ![lock].refs = @ \cup {c}]
           /\ commits' = [commits EXCEPT ![lock] = @ + 1]
           /\ phase' = "committed" /\ UNCHANGED <<lock, out>>
  <2>1. /\ ws'[lock].head = c /\ ws'[lock].refs = ws[lock].refs \cup {c}
        /\ ws'[lock].exists = ws[lock].exists
        /\ \A w \in Workflows \ {lock} : ws'[w] = ws[w]
        /\ ws' \in [Workflows -> Workspace]
    <3> HIDE DEF c
    <3>1. ws[lock] \in Workspace /\ ws \in [Workflows -> Workspace]
      BY <1>1 DEF WorkflowInv, TypeOK
    <3> DEFINE r == [ws[lock] EXCEPT !.head = c, !.refs = @ \cup {c}]
    <3>2. /\ r \in Workspace /\ r.head = c /\ r.refs = ws[lock].refs \cup {c}
          /\ r.exists = ws[lock].exists
      BY <1>2, <3>1 DEF Workspace
    <3>3. ws' = [ws EXCEPT ![lock] = r]
      BY <1>1, <1>3, <3>1 DEF Workspace
    <3> HIDE DEF r
    <3> QED BY <1>1, <3>1, <3>2, <3>3
  <2>2. TypeOK' /\ (inbox \subseteq decisions)'
    BY <1>1, <1>3, <2>1 DEF WorkflowInv, TypeOK, Phases
  <2>3. StoreOK'
    BY <1>1 DEF WorkflowInv, StoreOK, ValueOK
  <2>4. RunOK'
    BY <1>1, <1>3, <2>1 DEF WorkflowInv, RunOK, values
  <2>5. ApprovedAt(lock) /\ c.wf = lock /\ c.binding = ckpt[lock].binding
    BY <1>1, ApplyIsApproved DEF values
  <2>6. \A w \in Workflows : CommitsOf(w)' \subseteq CommitsOf(w) \cup {c}
    BY <1>1, <2>1 DEF CommitsOf
  <2>7. GitOK'
    <3>1. \A w \in Workflows : commits'[w] > 0 \/ ws'[w].exists => ApprovedAt(w)'
      BY <1>1, <1>3, <2>1, <2>5 DEF WorkflowInv, TypeOK, GitOK, ApprovedAt, ApprovedIn
    <3>2. \A w \in Workflows : \A x \in CommitsOf(w)' :
            ApprovedAt(x.wf) /\ x.binding = ckpt[x.wf].binding
      BY <2>5, <2>6 DEF WorkflowInv, GitOK
    <3>3. ckpt' = ckpt
      BY <1>1
    <3> QED BY <3>1, <3>2, <3>3 DEF GitOK, ApprovedAt, ApprovedIn
  <2> QED BY <2>2, <2>3, <2>4, <2>7 DEF WorkflowInv
<1>4. CASE Return(Moved(values, "FAILED", "END")) /\ UNCHANGED <<ws, commits>>
  BY <1>1, <1>4, FailedFollows, QuietReturn DEF Quiet, git
<1> QED BY <1>3, <1>4 DEF ApplyCommit

\* The push takes the commit that was just made to the remote, or does not.
LEMMA ApplyPushStep ==
  ASSUME WorkflowInv, ApplyPush
  PROVE  WorkflowInv'
<1> USE DEF store, human
<1>1. /\ lock # Free /\ lock \in Workflows /\ phase = "committed"
      /\ values.next = "apply"
      /\ UNCHANGED <<answer, ws, commits, store, human, crashes>>
  BY Running DEF ApplyPush, WorkflowInv, RunOK, values
<1> DEFINE c == ws[lock].head
           v(p) == [Moved(values, "APPLIED", "compile") EXCEPT
                      !.applied = [commit |-> c, dup |-> FALSE, push |-> p]]
<1>2. c \in ws[lock].refs /\ c \in Commit
  BY <1>1 DEF WorkflowInv, RunOK, TypeOK, Workspace
<1>3. \A p \in {"PUSHED", "NOT_CONFIGURED", "FAILED"} :
        v(p) \in WorkflowState /\ ValueOK(lock, v(p)) /\ Follows(values, v(p))
  <2> SUFFICES ASSUME NEW p \in {"PUSHED", "NOT_CONFIGURED", "FAILED"}
               PROVE  v(p) \in WorkflowState /\ ValueOK(lock, v(p)) /\ Follows(values, v(p))
    OBVIOUS
  <2>1. [commit |-> c, dup |-> FALSE, push |-> p] \in Applied
    BY <1>2 DEF Applied
  <2> QED BY <1>1, <2>1, AppliedFollows
<1>4. /\ remote' \in {remote, remote \cup {c}}
      /\ \E p \in {"PUSHED", "NOT_CONFIGURED", "FAILED"} : Return(v(p))
  BY <1>1 DEF ApplyPush
<1>5. GitOK'
  <2>1. \A w \in Workflows : CommitsOf(w)' \subseteq CommitsOf(w) \cup CommitsOf(lock)
    BY <1>1, <1>2, <1>4 DEF CommitsOf
  <2>2. \A w \in Workflows : \A x \in CommitsOf(w)' :
          ApprovedAt(x.wf) /\ x.binding = ckpt[x.wf].binding
    BY <1>1, <2>1 DEF WorkflowInv, GitOK
  <2> QED BY <1>1, <2>2 DEF WorkflowInv, GitOK, ApprovedAt, ApprovedIn
<1>6. /\ ws' \in [Workflows -> Workspace] /\ remote' \in SUBSET Commit
      /\ commits' \in [Workflows -> Nat]
  BY <1>1, <1>2, <1>4 DEF WorkflowInv, TypeOK
<1> HIDE DEF v
<1> QED BY <1>1, <1>3, <1>4, <1>5, <1>6, ReturnStep

-----------------------------------------------------------------------------
(* The checkpoint store, the requests and the crash *)

\* Nothing runs after graph.invoke has ended.
LEMMA ReleaseStep ==
  ASSUME WorkflowInv, Release, UNCHANGED <<store, git, human>>,
         crashes' \in 0..MaxCrashes
  PROVE  WorkflowInv'
<1> USE DEF Release, store, git, human
<1>1. TypeOK' /\ (inbox \subseteq decisions)'
  BY DEF WorkflowInv, TypeOK, Phases
<1>2. StoreOK' /\ RunOK'
  BY DEF WorkflowInv, StoreOK, ValueOK, RunOK
<1>3. GitOK'
  BY DEF WorkflowInv, GitOK, CommitsOf, ApprovedAt, ApprovedIn
<1> QED BY <1>1, <1>2, <1>3 DEF WorkflowInv

\* A pending write follows its checkpoint, because the node's return did.
LEMMA PutWritesStep ==
  ASSUME WorkflowInv, PutWrites
  PROVE  WorkflowInv'
<1> USE DEF PutWrites, git, human
<1>1. /\ lock \in Workflows /\ out \in WorkflowState
      /\ ValueOK(lock, out) /\ Follows(ckpt[lock], out) /\ ckpt[lock] # None
  BY Running DEF WorkflowInv, RunOK, TypeOK
<1>2. TypeOK' /\ (inbox \subseteq decisions)'
  BY <1>1 DEF WorkflowInv, TypeOK, Phases
<1>3. StoreOK'
  BY <1>1 DEF WorkflowInv, TypeOK, StoreOK, ValueOK
<1>4. RunOK'
  BY DEF WorkflowInv, RunOK, ValueOK
<1>5. GitOK'
  BY DEF WorkflowInv, GitOK, CommitsOf, ApprovedAt, ApprovedIn
<1> QED BY <1>2, <1>3, <1>4, <1>5 DEF WorkflowInv

\* The new checkpoint keeps every approval that git relies on.
LEMMA PutCheckpointStep ==
  ASSUME WorkflowInv, PutCheckpoint
  PROVE  WorkflowInv'
<1> USE DEF git, human
<1>1. /\ lock \in Workflows /\ lock # Free /\ out \in WorkflowState /\ out # None
      /\ ValueOK(lock, out) /\ Follows(ckpt[lock], out)
      /\ ckpt[lock] # None
  BY Running DEF PutCheckpoint, WorkflowInv, RunOK, TypeOK
<1>2. /\ ckpt' = [ckpt EXCEPT ![lock] = out] /\ pend' = [pend EXCEPT ![lock] = None]
      /\ UNCHANGED <<git, human, crashes>>
  BY DEF PutCheckpoint
<1>3. TypeOK' /\ (inbox \subseteq decisions)'
  BY <1>1, <1>2 DEF WorkflowInv, TypeOK, PutCheckpoint, Release, Phases
<1>4. StoreOK'
  BY <1>1, <1>2 DEF WorkflowInv, TypeOK, StoreOK, ValueOK
<1>5. RunOK'
  BY <1>1, <1>2 DEF WorkflowInv, TypeOK, RunOK, PutCheckpoint, Release
<1>6. \A w \in Workflows :
        ApprovedAt(w) => ApprovedAt(w)' /\ ckpt'[w].binding = ckpt[w].binding
  <2>1. ckpt \in [Workflows -> WorkflowState \cup {None}]
    BY DEF WorkflowInv, TypeOK
  <2>2. ApprovedAt(lock) => out.approval = ckpt[lock].approval
                            /\ out.binding = ckpt[lock].binding
    <3> QED BY <1>1, ApprovedBinding, ConstantsAssumption
            DEF Follows, ApprovedAt, ApprovedIn
  <2> QED BY <1>1, <1>2, <2>1, <2>2 DEF ApprovedAt, ApprovedIn
<1>7. GitOK'
  <2>1. \A w \in Workflows : \A c \in CommitsOf(w) : c.wf \in Workflows
    BY DEF WorkflowInv, TypeOK, CommitsOf, Workspace, Commit
  <2> QED BY <1>2, <1>6, <2>1 DEF WorkflowInv, GitOK, CommitsOf
<1> QED BY <1>3, <1>4, <1>5, <1>7 DEF WorkflowInv

\* start_workflow: a new workflow under an id that has no checkpoint.
LEMMA StartStep ==
  ASSUME WorkflowInv, NEW w \in Workflows, Start(w)
  PROVE  WorkflowInv'
<1>1. /\ ckpt[w] = None /\ pend[w] = None
      /\ ckpt' = [ckpt EXCEPT ![w] = Initial]
      /\ lock' = w /\ phase' = "node" /\ answer' = None /\ out' = None
      /\ UNCHANGED <<pend, git, human, crashes>>
  BY DEF Start, Invoke, WorkflowInv, StoreOK
<1>2. /\ Initial \in WorkflowState /\ Initial # None
      /\ Initial.next = "__start__" /\ Initial.state = "None"
      /\ Initial.binding = None /\ Initial.approval = None
  <2>1. Initial \in WorkflowState
    BY DEF Initial, WorkflowState, Nodes
  <2> QED BY <2>1, NoneIsNoValue DEF Initial
<1> USE DEF git, human
<1>3. TypeOK' /\ (inbox \subseteq decisions)'
  BY <1>1, <1>2 DEF WorkflowInv, TypeOK, Phases
<1>4. ValueOK(w, Initial)'
  BY <1>2 DEF ValueOK, TERMINAL_STATES, ApprovedIn, BeforeProposal, BeforeDecision, AfterApproval
<1>5. ckpt' \in [Workflows -> WorkflowState \cup {None}] /\ ckpt'[w] = Initial
      /\ \A x \in Workflows \ {w} : ckpt'[x] = ckpt[x]
  BY <1>1, <1>3 DEF WorkflowInv, TypeOK
<1> HIDE DEF Initial
<1>6. StoreOK'
  BY <1>1, <1>4, <1>5 DEF WorkflowInv, StoreOK, ValueOK
<1>7. RunOK'
  BY <1>1, <1>2, <1>5, ConstantsAssumption DEF RunOK
<1>8. GitOK'
  <2>1. ~ApprovedAt(w)
    BY <1>1 DEF ApprovedAt
  <2>2. \A x \in Workflows : \A c \in CommitsOf(x) : c.wf \in Workflows
    BY DEF WorkflowInv, TypeOK, CommitsOf, Workspace, Commit
  <2>3. \A x \in Workflows \ {w} : ApprovedAt(x)' = ApprovedAt(x)
    BY <1>5 DEF ApprovedAt, ApprovedIn
  <2> QED BY <1>1, <1>5, <2>1, <2>2, <2>3 DEF WorkflowInv, GitOK, CommitsOf
<1> QED BY <1>3, <1>6, <1>7, <1>8 DEF WorkflowInv

\* Going on with a checkpoint that is neither missing nor an end, with or
\* without an answer: a node that had finished is not run again.
LEMMA InvokeStep ==
  ASSUME WorkflowInv, NEW w \in Workflows, NEW a \in Answer \cup {None},
         Invoke(w, a), ckpt[w] # None, ckpt[w].next # "END",
         a # None => [wf |-> w, answer |-> a] \in decisions,
         inbox' \subseteq inbox,
         UNCHANGED <<store, git, decisions, requests, crashes>>
  PROVE  WorkflowInv'
<1> USE DEF store, git
<1>1. lock' = w /\ w # Free
      /\ \/ pend[w] = None /\ phase' = "node" /\ answer' = a /\ out' = None
         \/ pend[w] # None /\ phase' = "stored" /\ answer' = None /\ out' = pend[w]
  BY ConstantsAssumption DEF Invoke
<1>2. TypeOK' /\ (inbox \subseteq decisions)'
  BY <1>1 DEF WorkflowInv, TypeOK, Phases
<1>3. StoreOK'
  BY DEF WorkflowInv, StoreOK, ValueOK
<1>4. RunOK'
  BY <1>1 DEF WorkflowInv, RunOK, StoreOK, ValueOK
<1>5. GitOK'
  BY DEF WorkflowInv, GitOK, CommitsOf, ApprovedAt, ApprovedIn
<1> QED BY <1>2, <1>3, <1>4, <1>5 DEF WorkflowInv

\* A workflow that is neither ended nor unreadable has a node to run.
LEMMA NotEnded ==
  ASSUME WorkflowInv, NEW w \in Workflows, Continuable(w) \/ Waiting(w)
  PROVE  ckpt[w] # None /\ ckpt[w].next # "END"
BY DEF WorkflowInv, StoreOK, ValueOK, Continuable, Waiting, Status, TERMINAL_STATES

\* The HTTP handlers: continue, a decision submitted, resumed or turned away.
LEMMA RequestSteps ==
  ASSUME WorkflowInv,
         \/ \E w \in Workflows : Start(w) \/ Continue(w)
         \/ \E w \in Workflows, a \in Answer : Submit(w, a)
         \/ \E r \in inbox : Resume(r) \/ TurnAway(r)
  PROVE  WorkflowInv'
<1>1. CASE \E w \in Workflows : Start(w)
  BY <1>1, StartStep
<1>2. CASE \E w \in Workflows : Continue(w)
  BY <1>2, InvokeStep, NotEnded DEF Continue, human
<1>3. ASSUME NEW w \in Workflows, NEW a \in Answer, Submit(w, a)
      PROVE  WorkflowInv'
  <2> USE <1>3 DEF Submit, exec, store, git
  <2>1. [wf |-> w, answer |-> a] \in Request
    BY DEF Request
  <2>2. TypeOK' /\ (inbox \subseteq decisions)'
    BY <2>1, ConstantsAssumption DEF WorkflowInv, TypeOK
  <2>3. StoreOK'
    BY DEF WorkflowInv, StoreOK, ValueOK
  <2>4. RunOK'
    BY DEF WorkflowInv, RunOK, ValueOK
  <2>5. GitOK'
    BY DEF WorkflowInv, GitOK, CommitsOf, ApprovedAt, ApprovedIn
  <2> QED BY <2>2, <2>3, <2>4, <2>5 DEF WorkflowInv
<1>4. ASSUME NEW r \in inbox, Resume(r)
      PROVE  WorkflowInv'
  <2>1. r \in Request /\ r \in decisions
    BY DEF WorkflowInv, TypeOK
  <2>2. r.wf \in Workflows /\ r.answer \in Answer
        /\ r = [wf |-> r.wf, answer |-> r.answer]
    BY <2>1 DEF Request
  <2> QED BY <1>4, <2>1, <2>2, InvokeStep, NotEnded DEF Resume
<1>5. ASSUME NEW r \in inbox, TurnAway(r)
      PROVE  WorkflowInv'
  <2> USE <1>5 DEF TurnAway, exec, store, git
  <2>1. TypeOK' /\ (inbox \subseteq decisions)'
    BY DEF WorkflowInv, TypeOK
  <2>2. StoreOK' /\ RunOK'
    BY DEF WorkflowInv, StoreOK, RunOK, ValueOK
  <2>3. GitOK'
    BY DEF WorkflowInv, GitOK, CommitsOf, ApprovedAt, ApprovedIn
  <2> QED BY <2>1, <2>2, <2>3 DEF WorkflowInv
<1> QED BY <1>1, <1>2, <1>3, <1>4, <1>5

\* A crash forgets everything that is not durable, and nothing else.
LEMMA CrashStep ==
  ASSUME WorkflowInv, Crash
  PROVE  WorkflowInv'
<1> USE DEF Crash, Release, store
<1>1. NoWorkspace \in Workspace /\ ~NoWorkspace.exists /\ NoWorkspace.refs = {}
  BY DEF NoWorkspace, Workspace
<1>2. \/ UNCHANGED ws
      \/ ws' = [w \in Workflows |-> NoWorkspace]
  OBVIOUS
<1>3. TypeOK' /\ (inbox \subseteq decisions)'
  BY <1>1, <1>2, ConstantsAssumption DEF WorkflowInv, TypeOK, Phases
<1>4. StoreOK' /\ RunOK'
  BY DEF WorkflowInv, StoreOK, RunOK, ValueOK
<1>5. GitOK'
  <2>1. \A w \in Workflows : /\ ws'[w].exists => ws[w].exists
                             /\ CommitsOf(w)' \subseteq CommitsOf(w)
    BY <1>1, <1>2 DEF CommitsOf
  <2>2. UNCHANGED <<ckpt, commits>>
    OBVIOUS
  <2> HIDE DEF Crash
  <2> QED BY <2>1, <2>2 DEF WorkflowInv, GitOK, ApprovedAt, ApprovedIn
<1> QED BY <1>3, <1>4, <1>5 DEF WorkflowInv

\* An empty store, no workspace and no commit satisfy the invariant.
LEMMA InitInv == Init => WorkflowInv
<1> SUFFICES ASSUME Init PROVE WorkflowInv
  OBVIOUS
<1> USE DEF Init
<1>1. NoWorkspace \in Workspace /\ ~NoWorkspace.exists /\ NoWorkspace.refs = {}
  BY DEF NoWorkspace, Workspace
<1>2. TypeOK /\ inbox \subseteq decisions
  BY <1>1, ConstantsAssumption DEF TypeOK, Phases
<1>3. StoreOK /\ RunOK
  BY DEF StoreOK, RunOK
<1>4. GitOK
  BY <1>1 DEF GitOK, CommitsOf
<1> QED BY <1>2, <1>3, <1>4 DEF WorkflowInv

\* The invariant is inductive: every step of Next, and stuttering, keeps it.
LEMMA StepInv == WorkflowInv /\ [Next]_vars => WorkflowInv'
<1> SUFFICES ASSUME WorkflowInv, [Next]_vars PROVE WorkflowInv'
  OBVIOUS
<1>1. CASE GraphStep
  <2>1. CASE Interrupt
    BY <2>1, ReleaseStep DEF Interrupt, Quiet, WorkflowInv, TypeOK
  <2> QED BY <1>1, <2>1, PutWritesStep, PutCheckpointStep, ComputeSteps,
             ProposeStep, VerdictStep, ApplyChangeStep, ApplyWriteStep,
             ApplyCommitStep, ApplyPushStep, CompleteStep
          DEF GraphStep
<1>2. CASE UNCHANGED vars
  BY <1>2 DEF vars, exec, store, git, human, WorkflowInv, TypeOK, StoreOK, RunOK,
              GitOK, ValueOK, CommitsOf, ApprovedAt, ApprovedIn
<1>3. CASE Raise
  BY <1>3, ReleaseStep, ConstantsAssumption DEF Raise, WorkflowInv, TypeOK
<1> QED BY <1>1, <1>2, <1>3, RequestSteps, CrashStep DEF Next

\* Store, running graph and git agree in every reachable state.
THEOREM Invariance == Spec => []WorkflowInv
BY InitInv, StepInv, PTL DEF Spec

-----------------------------------------------------------------------------
(* What follows *)

\* Nothing but values of the workflow's own state type is ever stored.
THEOREM TypeCorrect == Spec => []TypeOK
<1>1. WorkflowInv => TypeOK
  BY DEF WorkflowInv
<1> QED BY <1>1, Invariance, PTL

\* Whatever is written or committed was approved first, by a recorded human
\* decision, for exactly that content (resume_workflow, wait_for_approval,
\* apply_change).
THEOREM ApprovedWrites == Spec => []OnlyApprovedIsWritten
<1>1. ASSUME WorkflowInv PROVE OnlyApprovedIsWritten
  <2> SUFFICES ASSUME NEW w \in Workflows, commits[w] > 0 \/ ws[w].exists
               PROVE  /\ ckpt[w] # None /\ ApprovedIn(ckpt[w])
                      /\ ckpt[w].approval.binding = ckpt[w].binding
                      /\ [wf |-> w, answer |-> ckpt[w].approval] \in decisions
                      /\ \A c \in CommitsOf(w) : c.wf = w => c.binding = ckpt[w].binding
    BY DEF OnlyApprovedIsWritten, ApprovedIn, CommitsOf
  <2>1. ApprovedAt(w)
    BY <1>1 DEF WorkflowInv, GitOK
  <2> QED BY <1>1, <2>1 DEF WorkflowInv, StoreOK, GitOK, ValueOK, ApprovedAt
<1> QED BY <1>1, Invariance, PTL

\* Every checkpoint follows the one it replaces.
LEMMA CheckpointFollows ==
  ASSUME WorkflowInv, [Next]_vars, NEW w \in Workflows, ckpt[w] # None
  PROVE  Follows(ckpt[w], ckpt'[w])
<1>1. CASE ckpt' = ckpt
  BY <1>1 DEF Follows
<1>2. CASE PutCheckpoint
  <2>1. /\ Follows(ckpt[lock], out) /\ lock \in Workflows
        /\ ckpt' = [ckpt EXCEPT ![lock] = out]
    BY <1>2, Running DEF PutCheckpoint, WorkflowInv, RunOK
  <2> QED BY <2>1 DEF WorkflowInv, TypeOK, Follows
<1>3. CASE \E x \in Workflows : Start(x)
  BY <1>3 DEF Start, WorkflowInv, TypeOK, Follows
<1>4. \/ ckpt' = ckpt \/ PutCheckpoint \/ \E x \in Workflows : Start(x)
  BY DEF Next, GraphStep, PutWrites, StartTask, Receive, Investigate, Propose,
     MarkWaiting, Interrupt, WaitForApproval, ApplyChange, ApplyWrite, ApplyCommit,
     ApplyPush, CompileStage, TestStage, VerifyStage, Complete, Raise, Crash, Continue,
     Submit, Resume, TurnAway, Quiet, store, vars
<1> QED BY <1>1, <1>2, <1>3, <1>4

\* A proposal and the verdict on it are final (wait_for_approval; the replay of
\* pending writes; a second decision).
THEOREM FinalVerdict == Spec => VerdictIsFinal
<1>1. ASSUME WorkflowInv, [Next]_vars
      PROVE  \A w \in Workflows :
               ckpt[w] # None =>
                 /\ ckpt[w].binding # None => ckpt'[w].binding = ckpt[w].binding
                 /\ ckpt[w].approval # None => ckpt'[w].approval = ckpt[w].approval
  BY <1>1, CheckpointFollows DEF Follows
<1> QED BY <1>1, Invariance, PTL DEF Spec, VerdictIsFinal

\* A workflow that has ended is never run again, so nothing about it changes
\* but the loss of its workspace (continue_workflow, resume_workflow).
THEOREM EndIsFinal == Spec => EndedStaysEnded
<1> DEFINE Kept == \A w \in Workflows :
                     Ended(w) => /\ ckpt'[w] = ckpt[w]
                                 /\ commits'[w] = commits[w]
                                 /\ ws'[w] \in {ws[w], NoWorkspace}
<1>1. ASSUME WorkflowInv, [Next]_vars PROVE Kept
  <2> SUFFICES ASSUME NEW w \in Workflows, Ended(w)
               PROVE  /\ ckpt'[w] = ckpt[w] /\ commits'[w] = commits[w]
                      /\ ws'[w] \in {ws[w], NoWorkspace}
    OBVIOUS
  <2>1. ckpt[w] # None /\ ckpt[w].next = "END"
    BY <1>1 DEF Ended, Status, WorkflowInv, StoreOK, ValueOK
  <2>2. lock # w
    BY <1>1, <2>1, ConstantsAssumption DEF WorkflowInv, RunOK
  <2>3. /\ ckpt \in [Workflows -> WorkflowState \cup {None}]
        /\ commits \in [Workflows -> Nat] /\ ws \in [Workflows -> Workspace]
    BY <1>1 DEF WorkflowInv, TypeOK
  <2>4. CASE GraphStep
    BY <2>2, <2>3, <2>4
    DEF GraphStep, PutWrites, PutCheckpoint, StartTask, Receive, Investigate, Propose,
        MarkWaiting, Interrupt, WaitForApproval, ApplyChange, ApplyRefuse, ApplySkip,
        ApplyReuse, ApplyClone, ApplyWrite, ApplyCommit, ApplyPush, CompileStage, TestStage,
        VerifyStage, Complete, Quiet, store, git
  <2>5. CASE \E x \in Workflows : Start(x)
    BY <2>1, <2>3, <2>5 DEF Start, git
  <2>6. CASE \/ UNCHANGED vars
             \/ \E x \in Workflows : Continue(x) \/ \E a \in Answer : Submit(x, a)
             \/ \E r \in inbox : Resume(r) \/ TurnAway(r)
    BY <2>6 DEF vars, Continue, Submit, Resume, TurnAway, store, git
  <2>7. CASE Raise \/ Crash
    BY <2>7 DEF Raise, Crash, store, git
  <2> QED BY <1>1, <2>4, <2>5, <2>6, <2>7 DEF Next
<1> HIDE DEF Kept
<1>2. Kept => \A w \in Workflows :
                Ended(w) => /\ ckpt'[w] = ckpt[w]
                            /\ commits'[w] = commits[w]
                            /\ ws'[w] \in {ws[w], NoWorkspace}
  BY DEF Kept
<1> QED BY <1>1, <1>2, Invariance, PTL DEF Spec, EndedStaysEnded

-----------------------------------------------------------------------------
(* One approval, one commit *)

\* Nothing is committed at the start.
LEMMA OnceInit == Init => OnceInv
<1> SUFFICES ASSUME Init PROVE OnceInv
  OBVIOUS
<1> QED BY DEF Init, OnceInv

\* While workspaces survive a death and git log answers, no step lets a workflow commit twice: the
\* search for an earlier commit comes before the clone that would hide it.
LEMMA OnceStep ==
  ASSUME DiskSurvives, ~LogMayFail, WorkflowInv, OnceInv, [Next]_vars
  PROVE  OnceInv'
<1>1. /\ commits \in [Workflows -> Nat] /\ ws \in [Workflows -> Workspace]
      /\ lock # Free => lock \in Workflows
  BY DEF WorkflowInv, TypeOK
<1>2. \A w \in Workflows : commits[w] > 0 => ckpt'[w].binding = ckpt[w].binding
  BY CheckpointFollows, ApprovedBinding, ConstantsAssumption
  DEF WorkflowInv, GitOK, ApprovedAt, Follows
\* Only apply touches a workspace or a commit count.
<1>3. CASE /\ UNCHANGED <<ws, commits>>
           /\ phase' \in {"cloned", "written"} => phase' = phase /\ lock' = lock
  BY <1>1, <1>2, <1>3 DEF OnceInv
\* A workflow that has committed would have been found, so it is not cloned.
<1>4. CASE ApplyChange /\ ApplyClone /\ ~AlreadyApplied
  <2>1. /\ lock # Free /\ lock \in Workflows
        /\ lock' = lock /\ phase' \in {"cloned", "returned"} /\ commits' = commits
        /\ ws' \in {[ws EXCEPT ![lock] = Clone(remote)], [ws EXCEPT ![lock] = NoWorkspace]}
        /\ phase' = "cloned" => ws' = [ws EXCEPT ![lock] = Clone(remote)]
    BY <1>1, <1>4 DEF ApplyChange, ApplyClone, At, Return
  <2>2. commits[lock] = 0
    <3>1. commits[lock] > 0 => AlreadyApplied
      BY <2>1, FoundInRefs DEF OnceInv, AlreadyApplied, values
    <3> QED BY <1>1, <1>4, <2>1, <3>1
  <2>3. \A w \in Workflows \ {lock} : ws'[w] = ws[w]
    BY <1>1, <2>1
  <2>4. phase' = "cloned" => ws'[lock].exists
    BY <1>1, <2>1 DEF Clone
  <2> QED BY <1>1, <1>2, <2>1, <2>2, <2>3, <2>4 DEF OnceInv
<1>5. CASE ApplyWrite
  <2>1. /\ lock # Free /\ lock \in Workflows /\ phase = "cloned"
        /\ lock' = lock /\ commits' = commits
    BY <1>1, <1>5 DEF ApplyWrite
  <2>2. \A w \in Workflows : ws'[w].exists = ws[w].exists /\ ws'[w].refs = ws[w].refs
    BY <1>1, <1>5, <2>1 DEF ApplyWrite, Workspace
  <2> QED BY <1>1, <1>2, <2>1, <2>2 DEF OnceInv
\* The first commit, into a workspace that is there.
<1>6. CASE ApplyCommit /\ ~UNCHANGED <<ws, commits>>
  <2> DEFINE c == [wf |-> lock, binding |-> values.binding, n |-> commits[lock] + 1]
  <2>1. /\ lock # Free /\ lock \in Workflows /\ phase = "written" /\ phase' = "committed"
        /\ ws' = [ws EXCEPT ![lock].head = c, ![lock].refs = @ \cup {c}]
        /\ commits' = [commits EXCEPT ![lock] = @ + 1]
    BY <1>1, <1>6 DEF ApplyCommit
  <2>2. commits[lock] = 0 /\ ws[lock].exists
    BY <2>1 DEF OnceInv
  <2>3. commits'[lock] = 1 /\ \A w \in Workflows \ {lock} : commits'[w] = commits[w]
    BY <1>1, <2>1, <2>2
  <2>4. /\ ws'[lock].exists /\ c \in ws'[lock].refs
        /\ \A w \in Workflows \ {lock} : ws'[w] = ws[w]
    <3> HIDE DEF c
    <3> QED BY <1>1, <2>1, <2>2 DEF Workspace
  <2>5. c.binding = ckpt[lock].binding /\ ckpt' = ckpt
    BY <1>6 DEF ApplyCommit, store, values
  <2> QED BY <1>1, <1>2, <2>1, <2>3, <2>4, <2>5, ZenonT(40) DEF OnceInv
<1>7. \/ ApplyChange /\ ApplyClone /\ ~AlreadyApplied
      \/ ApplyWrite
      \/ ApplyCommit
      \/ /\ UNCHANGED <<ws, commits>>
         /\ phase' \in {"cloned", "written"} => phase' = phase /\ lock' = lock
  <2>1. CASE GraphStep
    BY <2>1 DEF GraphStep, PutWrites, PutCheckpoint, StartTask, Receive, Investigate,
       Propose, MarkWaiting, Interrupt, WaitForApproval, ApplyChange, ApplyRefuse,
       ApplySkip, ApplyPush, CompileStage, TestStage, VerifyStage, Complete, Quiet,
       Return, Release, git
  <2>2. CASE \E w \in Workflows : Start(w) \/ Continue(w)
    BY <2>2 DEF Start, Continue, Invoke, git
  <2>3. CASE \E w \in Workflows, a \in Answer : Submit(w, a)
    BY <2>3 DEF Submit, git, exec
  <2>4. CASE \E r \in inbox : Resume(r) \/ TurnAway(r)
    BY <2>4 DEF Resume, TurnAway, Invoke, git, exec
  <2>5. CASE Raise \/ Crash
    BY <2>5 DEF Raise, Crash, Release, git
  <2>6. CASE UNCHANGED vars
    BY <2>6 DEF vars, git, exec
  <2> QED BY <2>1, <2>2, <2>3, <2>4, <2>5, <2>6 DEF Next
<1>8. CASE ApplyCommit /\ UNCHANGED <<ws, commits>>
  BY <1>3, <1>8 DEF ApplyCommit, Return
<1> QED BY <1>3, <1>4, <1>5, <1>6, <1>7, <1>8

\* While workspaces survive the death of the process and git log answers, one
\* approval is spent on at most one commit, whatever the crashes and continues
\* (apply_change's idempotency search).
THEOREM OneCommit == ASSUME DiskSurvives, ~LogMayFail PROVE Spec => []CommittedOnce
<1>1. ASSUME WorkflowInv, OnceInv PROVE CommittedOnce
  BY <1>1 DEF WorkflowInv, TypeOK, OnceInv, CommittedOnce
<1>2. WorkflowInv /\ OnceInv /\ [Next]_vars => OnceInv'
  BY OnceStep
<1> QED BY <1>1, <1>2, OnceInit, Invariance, PTL DEF Spec
=============================================================================
