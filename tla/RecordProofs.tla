---------------------------- MODULE RecordProofs ----------------------------
(***************************************************************************)
(* Proofs about what the record of a workflow claims, that the engine      *)
(* implements ApprovedChange, and that the store it keeps its checkpoints  *)
(* in is the MemorySaver it takes it for, for every set of workflows,      *)
(* bindings and callers and every bound.                                   *)
(***************************************************************************)
EXTENDS WorkflowProofs, MCCheckpointing, WellFoundedInduction

-----------------------------------------------------------------------------
(* What the helpers return *)

\* The state that is left joins the completed ones (_record_transition).
LEMMA MovedCompleted ==
  ASSUME NEW v \in WorkflowState, NEW s \in STATES, NEW n \in Nodes
  PROVE  Moved(v, s, n).completed =
           IF v.state = "None" THEN v.completed ELSE v.completed \cup {v.state}
BY DEF Moved, Completed, WorkflowState

\* The same of a state that has a name.
LEMMA MovedOn ==
  ASSUME NEW v \in WorkflowState, NEW s \in STATES, NEW n \in Nodes, v.state # "None"
  PROVE  Moved(v, s, n).completed = v.completed \cup {v.state}
BY MovedCompleted

\* The states behind a node are those behind the one before it and its state.
LEMMA Path ==
  /\ StateAt("__start__") = "None" /\ StateAt("receive") = "None"
  /\ Behind("__start__") = {} /\ Behind("receive") = {} /\ Behind("investigate") = {}
  /\ Behind("propose") = Behind("investigate") \cup {"RECEIVED"}
  /\ Behind("mark_waiting") = Behind("propose") \cup {"INVESTIGATED"}
  /\ Behind("wait_for_approval") = Behind("mark_waiting") \cup {"PROPOSED"}
  /\ Behind("apply") = Behind("wait_for_approval") \cup {"WAITING_FOR_APPROVAL"}
  /\ Behind("compile") = Behind("apply") \cup {"APPROVED"}
  /\ Behind("test") = Behind("compile") \cup {"APPLIED"}
  /\ Behind("verify") = Behind("test") \cup {"COMPILED"}
  /\ Behind("complete") = Behind("verify") \cup {"TESTED"}
  /\ Gates = Behind("complete") \cup {"VERIFIED"}
BY DEF StateAt, Behind, Gates

\* The state a workflow is in at each node.
LEMMA Standing ==
  /\ StateAt("investigate") = "RECEIVED" /\ StateAt("propose") = "INVESTIGATED"
  /\ StateAt("mark_waiting") = "PROPOSED"
  /\ StateAt("wait_for_approval") = "WAITING_FOR_APPROVAL"
  /\ StateAt("apply") = "APPROVED" /\ StateAt("compile") = "APPLIED"
  /\ StateAt("test") = "COMPILED" /\ StateAt("verify") = "TESTED"
  /\ StateAt("complete") = "VERIFIED"
BY DEF StateAt

-----------------------------------------------------------------------------
(* Steps of the running graph *)

\* While a graph runs, its checkpoint's record is in order.
LEMMA RunningRecord ==
  ASSUME WorkflowInv, RecordInv, lock # Free
  PROVE  /\ lock \in Workflows /\ values \in WorkflowState
         /\ values.next \in Nodes \ {"END"}
         /\ values.state = StateAt(values.next)
         /\ values.completed = Behind(values.next)
         /\ RecordOK(lock, values) /\ PushedIn(values, remote)
         /\ ckpt[lock] # None
<1>1. lock \in Workflows /\ values \in WorkflowState /\ values.next # "END"
  BY Running
<1>2. ckpt[lock] # None
  BY DEF WorkflowInv, RunOK
<1>3. RecordOK(lock, values) /\ PushedIn(values, remote)
  BY <1>1, <1>2 DEF RecordInv, values
<1> QED BY <1>1, <1>2, <1>3 DEF RecordOK, WorkflowState

\* A node that returns values which may follow, and leaves git alone or adds to
\* what is on the remote.
LEMMA ReturnRecord ==
  ASSUME WorkflowInv, RecordInv, lock # Free, phase # "stored",
         NEW v, RecordOK(lock, v), PushedIn(v, remote'), OneMove(values, v),
         Return(v), UNCHANGED <<store, commits>>,
         remote \subseteq remote',
         \A w \in Workflows : ws'[w].head # None =>
           ws'[w].head = ws[w].head /\ ws'[w].head \in ws'[w].refs
  PROVE  RecordInv'
<1> USE DEF Return, store
<1>1. \A w \in Workflows :
        /\ ckpt[w] # None => RecordOK(w, ckpt[w])' /\ PushedIn(ckpt[w], remote)'
        /\ pend[w] # None => /\ RecordOK(w, pend[w])' /\ PushedIn(pend[w], remote)'
                             /\ OneMove(ckpt[w], pend[w])'
  BY DEF RecordInv, RecordOK, Earned, PushedIn, OneMove
<1>2. \A w \in Workflows :
        ws'[w].head # None => /\ ws'[w].head \in ws'[w].refs
                              /\ ws'[w].head.wf = w
                              /\ ws'[w].head.n = commits[w]
                              /\ commits[w] > 0
  BY DEF RecordInv
<1>3. /\ RecordOK(lock, out)' /\ PushedIn(out, remote)'
      /\ OneMove(ckpt[lock], out)'
  BY DEF RecordOK, Earned, PushedIn, OneMove, values
<1>4. pend[lock] = None
  BY DEF RecordInv
<1> QED BY <1>1, <1>2, <1>3, <1>4 DEF RecordInv

\* The same for a node that leaves git alone.
LEMMA QuietRecord ==
  ASSUME WorkflowInv, RecordInv, lock # Free, phase # "stored",
         NEW v, RecordOK(lock, v), PushedIn(v, remote), OneMove(values, v),
         Return(v), UNCHANGED <<store, git>>
  PROVE  RecordInv'
<1>1. /\ UNCHANGED <<store, commits>> /\ remote \subseteq remote'
      /\ PushedIn(v, remote')
      /\ \A w \in Workflows : ws'[w].head # None =>
           ws'[w].head = ws[w].head /\ ws'[w].head \in ws'[w].refs
  BY DEF git, RecordInv
<1> QED BY <1>1, ReturnRecord

\* Moving on along the path, short of complete.
LEMMA MoveRecord ==
  ASSUME WorkflowInv, RecordInv, lock # Free,
         NEW s \in STATES \ TERMINAL_STATES, NEW n \in Nodes \ {"END", "complete"},
         s = StateAt(n),
         Behind(n) = IF values.state = "None" THEN values.completed
                     ELSE values.completed \cup {values.state},
         n \in BeforeDecision \cup {"apply"} => values.next \in BeforeDecision,
         n = "wait_for_approval" => values.next = "mark_waiting",
         n # "mark_waiting"
  PROVE  LET m == Moved(values, s, n)
         IN  /\ m \in WorkflowState
             /\ RecordOK(lock, m) /\ PushedIn(m, remote) /\ OneMove(values, m)
<1> DEFINE m == Moved(values, s, n)
<1>1. values \in WorkflowState /\ RecordOK(lock, values) /\ PushedIn(values, remote)
  BY RunningRecord
<1>2. /\ m \in WorkflowState
      /\ m.state = s /\ m.next = n /\ m.completed = Behind(n)
      /\ m.binding = values.binding /\ m.approval = values.approval
      /\ m.applied = values.applied
  <2>1. s \in STATES /\ s \notin TERMINAL_STATES /\ n \in Nodes
    OBVIOUS
  <2>2. Routed(s, n) = n
    BY <2>1 DEF Routed
  <2>3. m.completed = Behind(n)
    BY <1>1, <2>1, MovedCompleted
  <2> QED BY <1>1, <2>1, <2>2, <2>3, MovedFacts
<1>3. s # "COMPLETED"
  BY DEF TERMINAL_STATES
<1> HIDE DEF m
<1>4. RecordOK(lock, m)
  BY <1>1, <1>2, <1>3 DEF RecordOK
<1>5. PushedIn(m, remote) /\ OneMove(values, m)
  BY <1>1, <1>2 DEF PushedIn, OneMove
<1> QED BY <1>2, <1>4, <1>5 DEF m

\* Blocked, rejected or failed, nothing more is claimed.
LEMMA EndRecord ==
  ASSUME WorkflowInv, RecordInv, lock # Free,
         NEW s \in TERMINAL_STATES \ {"COMPLETED"}
  PROVE  LET m == Moved(values, s, "END")
         IN  /\ m \in WorkflowState
             /\ RecordOK(lock, m) /\ PushedIn(m, remote) /\ OneMove(values, m)
<1> DEFINE m == Moved(values, s, "END")
<1>1. values \in WorkflowState /\ PushedIn(values, remote)
  BY RunningRecord
<1>2. s \in STATES /\ "END" \in Nodes
  BY DEF STATES, TERMINAL_STATES, Nodes
<1>3. /\ m \in WorkflowState
      /\ m.state = s /\ m.next = "END"
      /\ m.binding = values.binding /\ m.approval = values.approval
      /\ m.applied = values.applied
  BY <1>1, <1>2, MovedFacts DEF Routed
<1> HIDE DEF m
<1>4. RecordOK(lock, m)
  BY <1>3 DEF RecordOK, BeforeDecision, BeforeProposal
<1>5. PushedIn(m, remote) /\ OneMove(values, m)
  BY <1>1, <1>3 DEF PushedIn, OneMove
<1> QED BY <1>3, <1>4, <1>5 DEF m

-----------------------------------------------------------------------------
(* Every action keeps the record in order *)

\* A node that fails or blocks.
LEMMA FailStep ==
  ASSUME WorkflowInv, RecordInv, lock # Free, phase # "stored",
         NEW s \in TERMINAL_STATES \ {"COMPLETED"},
         Return(Moved(values, s, "END")), UNCHANGED <<store, git>>
  PROVE  RecordInv'
BY EndRecord, QuietRecord

\* The nodes that only compute, but for propose and the verdict.
LEMMA ComputeRecord ==
  ASSUME WorkflowInv, RecordInv,
         StartTask \/ Receive \/ Investigate \/ MarkWaiting \/ CompileStage \/ TestStage
  PROVE  RecordInv'
<1> USE DEF At, values
<1>1. CASE StartTask
  <2>1. /\ lock # Free /\ phase # "stored" /\ values.next = "__start__"
        /\ UNCHANGED <<store, git>>
    BY <1>1 DEF StartTask, Quiet
  <2> DEFINE v == [values EXCEPT !.next = "receive"]
  <2>2. /\ values \in WorkflowState /\ RecordOK(lock, values) /\ PushedIn(values, remote)
        /\ values.state = StateAt("__start__") /\ values.completed = Behind("__start__")
    BY <2>1, RunningRecord
  <2>3. /\ v.next = "receive" /\ v.state = values.state /\ v.binding = values.binding
        /\ v.completed = values.completed
        /\ v.approval = values.approval /\ v.applied = values.applied
    BY <2>2 DEF WorkflowState
  <2>4. values.applied = None
    BY <2>1, <2>2 DEF RecordOK, BeforeDecision, BeforeProposal
  <2>5. RecordOK(lock, v)
    BY <2>2, <2>3, <2>4, Path DEF RecordOK
  <2>6. PushedIn(v, remote) /\ OneMove(values, v)
    BY <2>2, <2>3 DEF PushedIn, OneMove
  <2>7. Return(v)
    BY <1>1 DEF StartTask
  <2> QED BY <2>1, <2>5, <2>6, <2>7, QuietRecord
<1>2. ASSUME NEW here \in Nodes, At(here),
             NEW s \in STATES \ TERMINAL_STATES, NEW n \in Nodes \ {"END", "complete"},
             s = StateAt(n),
             Behind(n) = IF StateAt(here) = "None" THEN Behind(here)
                         ELSE Behind(here) \cup {StateAt(here)},
             n \in BeforeDecision \cup {"apply"} => here \in BeforeDecision,
             n = "wait_for_approval" => here = "mark_waiting",
             n # "mark_waiting",
             Return(Moved(values, s, n)), Quiet
      PROVE  RecordInv'
  <2>1. /\ lock # Free /\ phase # "stored" /\ values.next = here
        /\ values.state = StateAt(here) /\ values.completed = Behind(here)
    BY <1>2, RunningRecord
  <2>2. LET m == Moved(values, s, n)
        IN  RecordOK(lock, m) /\ PushedIn(m, remote) /\ OneMove(values, m)
    BY <1>2, <2>1, MoveRecord
  <2> QED BY <1>2, <2>1, <2>2, QuietRecord DEF Quiet
<1> USE DEF Nodes, STATES, TERMINAL_STATES, BeforeProposal, BeforeDecision
<1>3. CASE Receive
  <2>1. CASE Return(Moved(values, "RECEIVED", "investigate"))
    BY <1>2, <1>3, <2>1, Path, Standing DEF Receive
  <2>2. CASE Return(Moved(values, "BLOCKED", "END"))
    BY <1>3, <2>2, FailStep DEF Receive, Quiet
  <2> QED BY <1>3, <2>1, <2>2 DEF Receive
<1>4. CASE Investigate
  BY <1>2, <1>4, Path, Standing DEF Investigate
<1>5. CASE MarkWaiting
  BY <1>2, <1>5, Path, Standing DEF MarkWaiting
<1>6. CASE CompileStage
  <2>1. CASE Return(Moved(values, "COMPILED", "test"))
    BY <1>2, <1>6, <2>1, Path, Standing DEF CompileStage
  <2>2. CASE Return(Moved(values, "FAILED", "END"))
    BY <1>6, <2>2, FailStep DEF CompileStage, Quiet
  <2> QED BY <1>6, <2>1, <2>2 DEF CompileStage
<1>7. CASE TestStage
  <2>1. CASE Return(Moved(values, "TESTED", "verify"))
    BY <1>2, <1>7, <2>1, Path, Standing DEF TestStage
  <2>2. CASE Return(Moved(values, "FAILED", "END"))
    BY <1>7, <2>2, FailStep DEF TestStage, Quiet
  <2> QED BY <1>7, <2>1, <2>2 DEF TestStage
<1> QED BY <1>1, <1>3, <1>4, <1>5, <1>6, <1>7

\* propose: there is a proposal, and no verdict yet.
LEMMA ProposeRecord ==
  ASSUME WorkflowInv, RecordInv, Propose
  PROVE  RecordInv'
<1>1. /\ lock # Free /\ phase # "stored" /\ values.next = "propose"
      /\ UNCHANGED <<store, git>>
  BY DEF Propose, At, values, Quiet
<1>2. CASE Return(Moved(values, "FAILED", "END"))
  BY <1>1, <1>2, FailStep DEF TERMINAL_STATES
<1>3. ASSUME NEW b \in Bindings,
             Return([Moved(values, "PROPOSED", "mark_waiting")
                       EXCEPT !.binding = b, !.pending = TRUE])
      PROVE  RecordInv'
  <2> DEFINE m == Moved(values, "PROPOSED", "mark_waiting")
             v == [m EXCEPT !.binding = b, !.pending = TRUE]
  <2>1. /\ values \in WorkflowState /\ ValueOK(lock, values) /\ RecordOK(lock, values)
        /\ values.state = "INVESTIGATED" /\ values.completed = Behind("propose")
    BY <1>1, Running, RunningRecord, Standing
  <2>2. values.binding = None /\ values.approval = None /\ values.applied = None
    BY <1>1, <2>1 DEF ValueOK, RecordOK, BeforeProposal, BeforeDecision
  <2>3. "PROPOSED" \in STATES /\ "mark_waiting" \in Nodes /\ "PROPOSED" \notin TERMINAL_STATES
    BY DEF STATES, Nodes, TERMINAL_STATES
  <2>4. /\ m \in WorkflowState /\ m.state = "PROPOSED" /\ m.next = "mark_waiting"
        /\ m.approval = None /\ m.applied = None
        /\ m.completed = Behind("mark_waiting")
    <3>1. m.completed = Behind("mark_waiting")
      <4>1. m.completed = values.completed \cup {values.state}
        BY <2>1, <2>2, <2>3, MovedOn
      <4> HIDE DEF m
      <4> QED BY <4>1, <2>1, <2>2, <2>3, Path
    <3> QED BY <3>1, <2>1, <2>2, <2>3, MovedFacts DEF Routed
  <2> HIDE DEF m
  <2>5. /\ v.state = "PROPOSED" /\ v.next = "mark_waiting" /\ v.binding = b
        /\ v.approval = None /\ v.applied = None /\ v.completed = Behind("mark_waiting")
    BY <2>4 DEF WorkflowState
  <2>6. Return(v)
    BY <1>3 DEF m
  <2> HIDE DEF v
  <2>7. b # None
    BY ConstantsAssumption
  <2>8. RecordOK(lock, v) /\ PushedIn(v, remote) /\ OneMove(values, v)
    BY <2>2, <2>3, <2>5, <2>7, Standing DEF RecordOK, PushedIn, OneMove
  <2> QED BY <1>1, <2>6, <2>8, QuietRecord
<1> QED BY <1>2, <1>3 DEF Propose

\* wait_for_approval: there is a verdict now.
LEMMA VerdictRecord ==
  ASSUME WorkflowInv, RecordInv, WaitForApproval
  PROVE  RecordInv'
<1>1. /\ lock # Free /\ phase # "stored" /\ values.next = "wait_for_approval"
      /\ answer # None /\ UNCHANGED <<store, git>>
  BY DEF WaitForApproval, At, values, Quiet
<1> DEFINE d == Verdict(answer, values.binding)
           m == Moved(values, d.state, "apply")
           v == [m EXCEPT !.pending = FALSE, !.approval = d.approval]
<1>2. answer \in Answer
  BY <1>1 DEF WorkflowInv, TypeOK
<1>3. /\ values \in WorkflowState /\ ValueOK(lock, values) /\ RecordOK(lock, values)
      /\ values.state = "WAITING_FOR_APPROVAL"
      /\ values.completed = Behind("wait_for_approval")
  BY <1>1, Running, RunningRecord, Standing
<1>4. values.binding # None /\ values.approval = None /\ values.applied = None
  BY <1>1, <1>3 DEF ValueOK, RecordOK, BeforeProposal, BeforeDecision
<1>5. d.state \in {"APPROVED", "REJECTED"} /\ d.approval \in Answer
  BY <1>2 DEF Verdict, Answer
<1>6. d.approval # None
  BY <1>5, NoneIsNoValue
<1> HIDE DEF d
<1>7. d.state \in STATES /\ "apply" \in Nodes
  BY <1>5 DEF STATES, Nodes
<1>8. /\ m \in WorkflowState /\ m.state = d.state
      /\ m.next = (IF d.state = "APPROVED" THEN "apply" ELSE "END")
      /\ m.binding = values.binding /\ m.applied = None
      /\ m.completed = Behind("apply")
  <2>1. m.completed = Behind("apply")
    <3>1. m.completed = values.completed \cup {values.state}
      BY <1>3, <1>4, <1>5, <1>7, MovedOn
    <3> HIDE DEF m
    <3> QED BY <3>1, <1>3, <1>4, <1>5, <1>7, Path
  <2> QED BY <2>1, <1>3, <1>4, <1>5, <1>7, MovedFacts DEF Routed, TERMINAL_STATES
<1> HIDE DEF m
<1>9. /\ v.state = d.state /\ v.next = (IF d.state = "APPROVED" THEN "apply" ELSE "END")
      /\ v.binding = values.binding /\ v.applied = None
      /\ v.completed = Behind("apply") /\ v.approval = d.approval
  BY <1>5, <1>8 DEF WorkflowState
<1>10. Return(v)
  BY DEF WaitForApproval, d, m
<1> HIDE DEF v
<1>11. RecordOK(lock, v) /\ PushedIn(v, remote) /\ OneMove(values, v)
  BY <1>4, <1>5, <1>6, <1>9, Standing
  DEF RecordOK, PushedIn, OneMove, BeforeDecision, BeforeProposal
<1> QED BY <1>1, <1>10, <1>11, QuietRecord

\* verify passes only when HEAD is the recorded commit.
LEMMA VerifyRecord ==
  ASSUME WorkflowInv, RecordInv, VerifyStage
  PROVE  RecordInv'
<1>1. /\ lock # Free /\ phase # "stored" /\ values.next = "verify"
      /\ UNCHANGED <<store, git>>
  BY DEF VerifyStage, At, values, Quiet
<1>2. CASE ~Verified
  BY <1>1, <1>2, FailStep DEF VerifyStage, TERMINAL_STATES
<1>3. CASE Verified
  <2> DEFINE m == Moved(values, "VERIFIED", "complete")
  <2>1. /\ lock \in Workflows /\ values \in WorkflowState /\ ValueOK(lock, values)
        /\ PushedIn(values, remote) /\ ckpt[lock] # None
        /\ values.state = "TESTED" /\ values.completed = Behind("verify")
    BY <1>1, Running, RunningRecord, Standing
  <2>2. "VERIFIED" \in STATES /\ "complete" \in Nodes /\ "VERIFIED" \notin TERMINAL_STATES
    BY DEF STATES, Nodes, TERMINAL_STATES
  <2>3. /\ m.state = "VERIFIED" /\ m.next = "complete"
        /\ m.binding = values.binding /\ m.approval = values.approval
        /\ m.applied = values.applied /\ m.completed = Behind("complete")
    <3>1. m.completed = Behind("complete")
      <4>1. m.completed = values.completed \cup {values.state}
        BY <2>1, <2>2, MovedOn
      <4> HIDE DEF m
      <4> QED BY <4>1, <2>1, <2>2, Path
    <3> QED BY <3>1, <2>1, <2>2, MovedFacts DEF Routed
  <2>4. Return(m)
    BY <1>3 DEF VerifyStage
  <2> HIDE DEF m
  <2>5. ApprovedIn(values) /\ values.approval.binding = values.binding
    BY <1>1, <2>1 DEF ValueOK, AfterApproval
  <2>6. values.applied # None /\ ws[lock].head = values.applied.commit
    BY <1>3 DEF Verified
  <2>7. ws[lock].head # None
    BY <2>1, <2>6, NoneIsNoValue DEF WorkflowState, Applied
  <2>8. /\ ws[lock].head \in ws[lock].refs /\ ws[lock].head.wf = lock
        /\ ws[lock].head.n = commits[lock] /\ commits[lock] > 0
    BY <2>1, <2>7 DEF RecordInv
  <2>9. ws[lock].head.binding = values.binding
    BY <2>1, <2>8 DEF WorkflowInv, GitOK, CommitsOf, values
  <2>10. Earned(lock, m)
    BY <2>3, <2>5, <2>6, <2>8, <2>9 DEF Earned
  <2>11. RecordOK(lock, m)
    BY <2>3, <2>10, Standing DEF RecordOK, BeforeDecision, BeforeProposal
  <2>12. PushedIn(m, remote) /\ OneMove(values, m)
    BY <2>1, <2>3 DEF PushedIn, OneMove
  <2> QED BY <1>1, <2>4, <2>11, <2>12, QuietRecord
<1> QED BY <1>2, <1>3

\* complete: what verify has found is what COMPLETED says.
LEMMA CompleteRecord ==
  ASSUME WorkflowInv, RecordInv, Complete
  PROVE  RecordInv'
<1>1. /\ lock # Free /\ phase # "stored" /\ values.next = "complete"
      /\ UNCHANGED <<store, git>>
  BY DEF Complete, At, values, Quiet
<1> DEFINE m == Moved(values, "COMPLETED", "END")
           v == [m EXCEPT !.pending = FALSE]
<1>2. /\ values \in WorkflowState /\ RecordOK(lock, values) /\ PushedIn(values, remote)
      /\ values.state = "VERIFIED" /\ values.completed = Behind("complete")
  BY <1>1, RunningRecord, Standing
<1>3. "COMPLETED" \in STATES /\ "END" \in Nodes
  BY DEF STATES, Nodes
<1>4. /\ m \in WorkflowState /\ m.state = "COMPLETED" /\ m.next = "END"
      /\ m.binding = values.binding /\ m.approval = values.approval
      /\ m.applied = values.applied /\ m.completed = Gates
  <2>1. m.completed = Gates
    <3>1. m.completed = values.completed \cup {values.state}
      BY <1>2, <1>3, MovedOn
    <3> HIDE DEF m
    <3> QED BY <3>1, <1>2, <1>3, Path
  <2> QED BY <2>1, <1>2, <1>3, MovedFacts DEF Routed
<1> HIDE DEF m
<1>5. /\ v.state = "COMPLETED" /\ v.next = "END"
      /\ v.binding = values.binding /\ v.approval = values.approval
      /\ v.applied = values.applied /\ v.completed = Gates
  BY <1>4 DEF WorkflowState
<1>6. Return(v)
  BY DEF Complete, m
<1> HIDE DEF v
<1>7. Earned(lock, v)
  BY <1>1, <1>2, <1>5 DEF RecordOK, Earned
<1>8. RecordOK(lock, v) /\ PushedIn(v, remote) /\ OneMove(values, v)
  BY <1>2, <1>5, <1>7 DEF RecordOK, PushedIn, OneMove, BeforeDecision, BeforeProposal
<1> QED BY <1>1, <1>6, <1>8, QuietRecord

\* APPLIED, with a record that has a push status that is true.
LEMMA AppliedRecord ==
  ASSUME WorkflowInv, RecordInv, lock # Free, values.next = "apply",
         NEW a, a.push = "PUSHED" => a.commit \in remote'
  PROVE  LET v == [Moved(values, "APPLIED", "compile") EXCEPT !.applied = a]
         IN  RecordOK(lock, v) /\ PushedIn(v, remote') /\ OneMove(values, v)
<1> DEFINE m == Moved(values, "APPLIED", "compile")
           v == [m EXCEPT !.applied = a]
<1>1. /\ values \in WorkflowState
      /\ values.state = "APPROVED" /\ values.completed = Behind("apply")
  BY RunningRecord, Standing
<1>2. "APPLIED" \in STATES /\ "compile" \in Nodes /\ "APPLIED" \notin TERMINAL_STATES
  BY DEF STATES, Nodes, TERMINAL_STATES
<1>3. /\ m \in WorkflowState /\ m.state = "APPLIED" /\ m.next = "compile"
      /\ m.binding = values.binding /\ m.approval = values.approval
      /\ m.completed = Behind("compile")
  <2>1. m.completed = Behind("compile")
    <3>1. m.completed = values.completed \cup {values.state}
      BY <1>1, <1>2, MovedOn
    <3> HIDE DEF m
    <3> QED BY <3>1, <1>1, <1>2, Path
  <2> QED BY <2>1, <1>1, <1>2, MovedFacts DEF Routed
<1> HIDE DEF m
<1>4. /\ v.state = "APPLIED" /\ v.next = "compile"
      /\ v.binding = values.binding /\ v.approval = values.approval
      /\ v.applied = a /\ v.completed = Behind("compile")
  BY <1>3 DEF WorkflowState
<1> HIDE DEF v
<1>5. RecordOK(lock, v) /\ PushedIn(v, remote') /\ OneMove(values, v)
  BY <1>4, Standing DEF RecordOK, PushedIn, OneMove, BeforeDecision, BeforeProposal
<1> QED BY <1>5 DEF v, m

\* A step inside apply that does not commit.
LEMMA InsideApply ==
  ASSUME WorkflowInv, RecordInv, lock # Free, phase # "stored",
         phase' \in {"cloned", "written"},
         UNCHANGED <<lock, store, remote, commits>>,
         \A w \in Workflows : ws'[w].head # None =>
           ws'[w].head = ws[w].head /\ ws'[w].head \in ws'[w].refs
  PROVE  RecordInv'
<1> USE DEF store
<1>1. \A w \in Workflows :
        /\ ckpt[w] # None => RecordOK(w, ckpt[w])' /\ PushedIn(ckpt[w], remote)'
        /\ pend[w] # None => /\ RecordOK(w, pend[w])' /\ PushedIn(pend[w], remote)'
                             /\ OneMove(ckpt[w], pend[w])'
  BY DEF RecordInv, RecordOK, Earned, PushedIn, OneMove
<1>2. \A w \in Workflows :
        ws'[w].head # None => /\ ws'[w].head \in ws'[w].refs
                              /\ ws'[w].head.wf = w
                              /\ ws'[w].head.n = commits[w]
                              /\ commits[w] > 0
  BY DEF RecordInv
<1>3. pend[lock] = None
  BY DEF RecordInv
<1> QED BY <1>1, <1>2, <1>3 DEF RecordInv

\* apply_change up to the clone: nothing was recorded before.
LEMMA ApplyChangeRecord ==
  ASSUME WorkflowInv, RecordInv, ApplyChange
  PROVE  RecordInv'
<1>1. /\ lock # Free /\ phase # "stored" /\ values.next = "apply" /\ lock \in Workflows
      /\ UNCHANGED store
  BY Running DEF ApplyChange, At, values
<1>2. ws \in [Workflows -> Workspace]
  BY DEF WorkflowInv, TypeOK
<1>3. CASE ApplyRefuse
  BY <1>1, <1>3, FailStep DEF ApplyRefuse, TERMINAL_STATES
<1>4. CASE ApplySkip
  <2>1. values.applied = None
    BY <1>1, RunningRecord DEF RecordOK
  <2>2. PICK c \in FoundCommits(lock, values.binding) :
          Return([Moved(values, "APPLIED", "compile") EXCEPT
                    !.applied = [commit |-> c, dup |-> TRUE,
                                 push |-> PushOfSkipped(values)]])
    BY <1>4 DEF ApplySkip
  <2> DEFINE a == [commit |-> c, dup |-> TRUE, push |-> PushOfSkipped(values)]
  <2>3. a.push = "UNRECORDED"
    BY <2>1 DEF PushOfSkipped
  <2> HIDE DEF a
  <2>4. UNCHANGED git
    BY <1>4 DEF ApplySkip
  <2>5. LET v == [Moved(values, "APPLIED", "compile") EXCEPT !.applied = a]
        IN  RecordOK(lock, v) /\ PushedIn(v, remote) /\ OneMove(values, v)
    BY <1>1, <2>3, <2>4, AppliedRecord DEF git
  <2> QED BY <1>1, <2>2, <2>4, <2>5, QuietRecord DEF a
<1>5. CASE ApplyReuse
  BY <1>1, <1>5, InsideApply DEF ApplyReuse, git, RecordInv
<1>6. CASE ApplyClone
  <2>1. /\ UNCHANGED <<remote, commits>>
        /\ ws' \in {[ws EXCEPT ![lock] = Clone(remote)], [ws EXCEPT ![lock] = NoWorkspace]}
    BY <1>6 DEF ApplyClone
  <2>2. \A w \in Workflows : ws'[w].head # None => ws'[w] = ws[w]
    BY <1>1, <1>2, <2>1 DEF Clone, NoWorkspace
  <2>3. \A w \in Workflows : ws'[w].head # None =>
          ws'[w].head = ws[w].head /\ ws'[w].head \in ws'[w].refs
    BY <2>2 DEF RecordInv
  <2>4. CASE phase' = "cloned" /\ UNCHANGED lock
    BY <1>1, <2>1, <2>3, <2>4, InsideApply
  <2>5. CASE Return(Moved(values, "FAILED", "END"))
    <3>1. LET m == Moved(values, "FAILED", "END")
          IN  RecordOK(lock, m) /\ PushedIn(m, remote') /\ OneMove(values, m)
      BY <1>1, <2>1, EndRecord DEF TERMINAL_STATES
    <3> QED BY <1>1, <2>1, <2>3, <2>5, <3>1, ReturnRecord
  <2> QED BY <1>6, <2>4, <2>5 DEF ApplyClone
<1> QED BY <1>3, <1>4, <1>5, <1>6 DEF ApplyChange

\* The write of the file touches no commit.
LEMMA ApplyWriteRecord ==
  ASSUME WorkflowInv, RecordInv, ApplyWrite
  PROVE  RecordInv'
<1>1. /\ lock # Free /\ phase # "stored" /\ phase' = "written"
      /\ UNCHANGED <<lock, store, remote, commits>>
      /\ ws' = [ws EXCEPT ![lock].content = "approved"]
      /\ ws \in [Workflows -> Workspace]
  BY DEF ApplyWrite, WorkflowInv, TypeOK
<1>2. \A w \in Workflows : ws'[w].head = ws[w].head /\ ws'[w].refs = ws[w].refs
  BY <1>1 DEF Workspace
<1> QED BY <1>1, <1>2, InsideApply DEF RecordInv

\* The commit: the new HEAD is the last commit of its workflow, of which nothing
\* is recorded yet.
LEMMA ApplyCommitRecord ==
  ASSUME WorkflowInv, RecordInv, ApplyCommit
  PROVE  RecordInv'
<1>1. /\ lock # Free /\ phase = "written" /\ lock \in Workflows
      /\ UNCHANGED <<remote, store>> /\ values.next = "apply"
      /\ ws \in [Workflows -> Workspace] /\ commits \in [Workflows -> Nat]
  BY Running DEF ApplyCommit, WorkflowInv, TypeOK, RunOK, values
<1>2. CASE Return(Moved(values, "FAILED", "END")) /\ UNCHANGED <<ws, commits>>
  BY <1>1, <1>2, FailStep DEF TERMINAL_STATES, git
<1> DEFINE c == [wf |-> lock, binding |-> values.binding, n |-> commits[lock] + 1]
<1>3. CASE /\ ws' = [ws EXCEPT ![lock].head = c, ![lock].refs = @ \cup {c}]
           /\ commits' = [commits EXCEPT ![lock] = @ + 1]
           /\ phase' = "committed" /\ UNCHANGED lock
  <2>1. c.wf = lock /\ c.n = commits[lock] + 1
    OBVIOUS
  <2> HIDE DEF c
  <2>2. /\ ws'[lock].head = c /\ c \in ws'[lock].refs
        /\ commits'[lock] = commits[lock] + 1 /\ commits'[lock] > 0
    BY <1>1, <1>3 DEF Workspace
  <2>3. \A w \in Workflows \ {lock} : ws'[w] = ws[w] /\ commits'[w] = commits[w]
    BY <1>1, <1>3
  <2>4. \A w \in Workflows :
          ws'[w].head # None => /\ ws'[w].head \in ws'[w].refs
                                /\ ws'[w].head.wf = w
                                /\ ws'[w].head.n = commits'[w]
                                /\ commits'[w] > 0
    BY <2>1, <2>2, <2>3 DEF RecordInv
  <2>5. /\ pend[lock] = None /\ RecordOK(lock, ckpt[lock])
        /\ ckpt[lock].state = "APPROVED"
    BY <1>1, RunningRecord, Standing DEF RecordInv, values
  <2>6. RecordOK(lock, ckpt[lock])'
    BY <1>1, <1>3, <2>5 DEF RecordOK, values, store
  <2>7. \A w \in Workflows \ {lock} :
          /\ ckpt[w] # None => RecordOK(w, ckpt[w])'
          /\ pend[w] # None => RecordOK(w, pend[w])'
    BY <1>1, <2>3 DEF RecordInv, RecordOK, Earned, store
  <2>8. \A w \in Workflows :
          /\ ckpt[w] # None => PushedIn(ckpt[w], remote)'
          /\ pend[w] # None => PushedIn(pend[w], remote)' /\ OneMove(ckpt[w], pend[w])'
    BY <1>1 DEF RecordInv, PushedIn, OneMove, store
  <2> QED BY <1>1, <1>3, <2>4, <2>5, <2>6, <2>7, <2>8 DEF RecordInv, store
<1> QED BY <1>2, <1>3 DEF ApplyCommit

\* push_change: PUSHED is recorded only of a push that arrived.
LEMMA ApplyPushRecord ==
  ASSUME WorkflowInv, RecordInv, ApplyPush
  PROVE  RecordInv'
<1>1. /\ lock # Free /\ phase # "stored" /\ values.next = "apply" /\ lock \in Workflows
      /\ UNCHANGED <<ws, commits, store>>
  BY Running DEF ApplyPush, WorkflowInv, RunOK, values
<1> DEFINE Applies(p) ==
             Return([Moved(values, "APPLIED", "compile") EXCEPT
                       !.applied = [commit |-> ws[lock].head, dup |-> FALSE, push |-> p]])
<1>2. \/ UNCHANGED remote /\ (Applies("NOT_CONFIGURED") \/ Applies("FAILED"))
      \/ remote' = remote \cup {ws[lock].head} /\ (Applies("PUSHED") \/ Applies("FAILED"))
  BY DEF ApplyPush
<1> HIDE DEF Applies
<1>3. PICK p : Applies(p) /\ (p = "PUSHED" => ws[lock].head \in remote')
  BY <1>2
<1> DEFINE a == [commit |-> ws[lock].head, dup |-> FALSE, push |-> p]
<1>4. a.push = "PUSHED" => a.commit \in remote'
  BY <1>3
<1> HIDE DEF a
<1>5. LET v == [Moved(values, "APPLIED", "compile") EXCEPT !.applied = a]
      IN  RecordOK(lock, v) /\ PushedIn(v, remote') /\ OneMove(values, v)
  BY <1>1, <1>4, AppliedRecord
<1>6. \A w \in Workflows : ws'[w].head # None =>
        ws'[w].head = ws[w].head /\ ws'[w].head \in ws'[w].refs
  BY <1>1 DEF RecordInv
<1>7. remote \subseteq remote'
  BY <1>2
<1> QED BY <1>1, <1>3, <1>5, <1>6, <1>7, ReturnRecord DEF a, Applies

-----------------------------------------------------------------------------
(* The store, the handlers and the deaths *)

\* put_writes: what was returned is pending now.
LEMMA PutWritesRecord ==
  ASSUME WorkflowInv, RecordInv, PutWrites
  PROVE  RecordInv'
<1>1. /\ lock # Free /\ phase = "returned" /\ lock \in Workflows
      /\ pend' = [pend EXCEPT ![lock] = out] /\ phase' = "stored"
      /\ UNCHANGED <<lock, out, ckpt, git>>
      /\ pend \in [Workflows -> WorkflowState \cup {None}]
  BY Running DEF PutWrites, WorkflowInv, TypeOK
<1>2. /\ RecordOK(lock, out) /\ PushedIn(out, remote) /\ OneMove(ckpt[lock], out)
  BY <1>1 DEF RecordInv
<1>3. pend'[lock] = out /\ \A w \in Workflows \ {lock} : pend'[w] = pend[w]
  BY <1>1
<1>4. \A w \in Workflows :
        pend'[w] # None => /\ RecordOK(w, pend'[w]) /\ PushedIn(pend'[w], remote)
                           /\ OneMove(ckpt[w], pend'[w])
  BY <1>2, <1>3 DEF RecordInv
<1>5. UNCHANGED <<commits, remote, ws, ckpt, lock, out>>
  BY <1>1 DEF git
<1>6. \A w \in Workflows : pend'[w] # None =>
        RecordOK(w, pend[w])' /\ PushedIn(pend[w], remote)' /\ OneMove(ckpt[w], pend[w])'
  BY <1>4, <1>5 DEF RecordOK, Earned, PushedIn, OneMove
<1>7. \A w \in Workflows : ckpt'[w] # None =>
        RecordOK(w, ckpt[w])' /\ PushedIn(ckpt[w], remote)'
  BY <1>5 DEF RecordInv, RecordOK, Earned, PushedIn
<1>8. RecordOK(lock, out)' /\ PushedIn(out, remote)' /\ OneMove(ckpt[lock], out)'
  BY <1>2, <1>5 DEF RecordOK, Earned, PushedIn, OneMove
<1> QED BY <1>1, <1>5, <1>6, <1>7, <1>8 DEF RecordInv

\* put: what was returned is the checkpoint now.
LEMMA PutCheckpointRecord ==
  ASSUME WorkflowInv, RecordInv, PutCheckpoint
  PROVE  RecordInv'
<1>1. /\ lock # Free /\ phase \in {"returned", "stored"} /\ lock \in Workflows
      /\ ckpt' = [ckpt EXCEPT ![lock] = out] /\ pend' = [pend EXCEPT ![lock] = None]
      /\ UNCHANGED git
      /\ lock' = Free \/ (lock' = lock /\ phase' = "node")
      /\ pend \in [Workflows -> WorkflowState \cup {None}]
      /\ ckpt \in [Workflows -> WorkflowState \cup {None}]
  BY Running DEF PutCheckpoint, Release, WorkflowInv, TypeOK
<1>2. RecordOK(lock, out) /\ PushedIn(out, remote)
  BY <1>1 DEF RecordInv
<1>3. /\ ckpt'[lock] = out /\ pend'[lock] = None
      /\ \A w \in Workflows \ {lock} : pend'[w] = pend[w] /\ ckpt'[w] = ckpt[w]
  BY <1>1
<1>4. \A w \in Workflows :
        /\ ckpt'[w] # None => RecordOK(w, ckpt'[w]) /\ PushedIn(ckpt'[w], remote)
        /\ pend'[w] # None => /\ RecordOK(w, pend'[w]) /\ PushedIn(pend'[w], remote)
                              /\ OneMove(ckpt'[w], pend'[w])
  BY <1>2, <1>3 DEF RecordInv
<1> QED BY <1>1, <1>3, <1>4, SMTT(20) DEF RecordInv, RecordOK, Earned, PushedIn, OneMove, git

\* The end of graph.invoke, with or without the workspaces.
LEMMA ReleaseRecord ==
  ASSUME RecordInv, Release, UNCHANGED <<store, remote, commits>>,
         \A w \in Workflows : ws'[w].head # None =>
           ws'[w].head = ws[w].head /\ ws'[w].head \in ws'[w].refs
  PROVE  RecordInv'
<1> USE DEF Release, store
<1>1. \A w \in Workflows :
        /\ ckpt[w] # None => RecordOK(w, ckpt[w])' /\ PushedIn(ckpt[w], remote)'
        /\ pend[w] # None => /\ RecordOK(w, pend[w])' /\ PushedIn(pend[w], remote)'
                             /\ OneMove(ckpt[w], pend[w])'
  BY DEF RecordInv, RecordOK, Earned, PushedIn, OneMove
<1>2. \A w \in Workflows :
        ws'[w].head # None => /\ ws'[w].head \in ws'[w].refs
                              /\ ws'[w].head.wf = w
                              /\ ws'[w].head.n = commits[w]
                              /\ commits[w] > 0
  BY DEF RecordInv
<1> QED BY <1>1, <1>2 DEF RecordInv

\* graph.invoke replays what is pending.
LEMMA InvokeRecord ==
  ASSUME RecordInv, NEW w \in Workflows, NEW a, Invoke(w, a), UNCHANGED <<store, git>>
  PROVE  RecordInv'
<1> USE DEF store, git
<1>1. /\ lock' = w
      /\ \/ pend[w] = None /\ phase' = "node" /\ out' = None
         \/ pend[w] # None /\ phase' = "stored" /\ out' = pend[w]
  BY DEF Invoke
<1> QED BY <1>1 DEF RecordInv, RecordOK, Earned, PushedIn, OneMove

\* start_workflow: the input checkpoint claims nothing.
LEMMA StartRecord ==
  ASSUME WorkflowInv, RecordInv, NEW w \in Workflows, Start(w)
  PROVE  RecordInv'
<1>1. /\ ckpt[w] = None /\ ckpt' = [ckpt EXCEPT ![w] = Initial]
      /\ UNCHANGED <<pend, git>>
      /\ ckpt \in [Workflows -> WorkflowState \cup {None}]
  BY DEF Start, WorkflowInv, TypeOK
<1>2. pend[w] = None
  BY <1>1 DEF WorkflowInv, StoreOK
<1>3. lock' = w /\ phase' = "node"
  BY <1>2 DEF Start, Invoke
<1>4. /\ ckpt'[w] = Initial
      /\ \A x \in Workflows \ {w} : ckpt'[x] = ckpt[x]
  BY <1>1
<1>5. RecordOK(w, Initial)' /\ PushedIn(Initial, remote)'
  BY Path DEF RecordOK, PushedIn, Initial
<1> QED BY <1>1, <1>2, <1>3, <1>4, <1>5
        DEF RecordInv, RecordOK, Earned, PushedIn, OneMove, git

\* Nothing is claimed at the start.
LEMMA InitRecord == Init => RecordInv
BY DEF Init, RecordInv, NoWorkspace

\* No step makes the record claim what is not so.
LEMMA StepRecord ==
  ASSUME WorkflowInv, RecordInv, [Next]_vars
  PROVE  RecordInv'
<1>1. \A w \in Workflows : ws[w].head # None => ws[w].head \in ws[w].refs
  BY DEF RecordInv
<1>2. CASE GraphStep
  <2>1. CASE Interrupt
    BY <1>1, <2>1, ReleaseRecord DEF Interrupt, Quiet, git
  <2> QED BY <1>2, <2>1, PutWritesRecord, PutCheckpointRecord, ComputeRecord,
             ProposeRecord, VerdictRecord, ApplyChangeRecord, ApplyWriteRecord,
             ApplyCommitRecord, ApplyPushRecord, VerifyRecord, CompleteRecord
          DEF GraphStep
<1>3. CASE \E w \in Workflows : Start(w)
  BY <1>3, StartRecord
<1>4. CASE \E w \in Workflows : Continue(w)
  BY <1>4, InvokeRecord DEF Continue
<1>5. CASE \E r \in inbox : Resume(r)
  <2>1. \A r \in inbox : r.wf \in Workflows
    BY DEF WorkflowInv, TypeOK, Request
  <2> QED BY <1>5, <2>1, InvokeRecord DEF Resume
<1>6. CASE \/ \E w \in Workflows, a \in Answer : Submit(w, a)
           \/ \E r \in inbox : TurnAway(r)
           \/ UNCHANGED vars
  <2>1. UNCHANGED <<lock, phase, out, store, git>>
    BY <1>6 DEF Submit, TurnAway, vars, exec
  <2> QED BY <2>1 DEF RecordInv, RecordOK, Earned, PushedIn, OneMove, store, git
<1>7. CASE Raise
  BY <1>1, <1>7, ReleaseRecord DEF Raise, git
<1>8. CASE Crash
  <2>1. \A w \in Workflows : ws'[w].head # None =>
          ws'[w].head = ws[w].head /\ ws'[w].head \in ws'[w].refs
    BY <1>1, <1>8 DEF Crash, NoWorkspace
  <2> QED BY <1>8, <2>1, ReleaseRecord DEF Crash
<1> QED BY <1>2, <1>3, <1>4, <1>5, <1>6, <1>7, <1>8 DEF Next

\* COMPLETED and PUSHED are true of the gates, the commits and the remote, over any
\* deaths and lost disks (verify_stage, apply_change).
THEOREM TrueRecord == Spec => []RecordIsTrue
<1>1. ASSUME WorkflowInv, RecordInv PROVE RecordIsTrue
  <2>1. CompletedIsEarned
    BY <1>1 DEF RecordInv, RecordOK, Earned, Gates, CompletedIsEarned, InState, Status
  <2>2. PushedIsOnRemote
    BY <1>1 DEF RecordInv, PushedIn, PushedIsOnRemote
  <2> QED BY <2>1, <2>2 DEF RecordIsTrue
<1>2. WorkflowInv /\ RecordInv /\ [Next]_vars => RecordInv'
  BY StepRecord
<1> QED BY <1>1, <1>2, InitRecord, Invariance, PTL DEF Spec

-----------------------------------------------------------------------------
(* The engine implements ApprovedChange *)

\* Nothing is offered at the start.
LEMMA InitPromised == Init => Promise!Init
BY DEF Init, Promise!Init, Offers, Verdicts, Outcomes

\* What is seen of the workflows that a step leaves alone.
LEMMA Unseen ==
  ASSUME UNCHANGED <<ckpt, commits>>
  PROVE  UNCHANGED Promise!vars
BY DEF Promise!vars, Offers, Verdicts, Outcomes

\* A new value of one workflow is all that changes of what is seen.
LEMMA OneSeen ==
  ASSUME NEW w \in Workflows, \A x \in Workflows \ {w} : ckpt'[x] = ckpt[x]
  PROVE  /\ Offers' = [Offers EXCEPT ![w] = Offers'[w]]
         /\ Verdicts' = [Verdicts EXCEPT ![w] = Verdicts'[w]]
         /\ Outcomes' = [Outcomes EXCEPT ![w] = Outcomes'[w]]
         /\ Offers'[w] = Offers[w] => Offers' = Offers
         /\ Verdicts'[w] = Verdicts[w] => Verdicts' = Verdicts
         /\ Outcomes'[w] = Outcomes[w] => Outcomes' = Outcomes
<1>1. /\ Offers' = [Offers EXCEPT ![w] = Offers'[w]]
      /\ Offers'[w] = Offers[w] => Offers' = Offers
  BY DEF Offers
<1>2. /\ Verdicts' = [Verdicts EXCEPT ![w] = Verdicts'[w]]
      /\ Verdicts'[w] = Verdicts[w] => Verdicts' = Verdicts
  BY ZenonT(40) DEF Verdicts
<1>3. /\ Outcomes' = [Outcomes EXCEPT ![w] = Outcomes'[w]]
      /\ Outcomes'[w] = Outcomes[w] => Outcomes' = Outcomes
  BY DEF Outcomes
<1> QED BY <1>1, <1>2, <1>3

\* A new checkpoint of a workflow that has not ended is a step of the promise.
LEMMA CheckpointPromised ==
  ASSUME WorkflowInv, RecordInv, OnceInv, PutCheckpoint
  PROVE  [Promise!Next]_(Promise!vars)
<1> DEFINE u == ckpt[lock]
<1>1. /\ lock # Free /\ phase \in {"returned", "stored"} /\ lock \in Workflows
      /\ ckpt' = [ckpt EXCEPT ![lock] = out] /\ UNCHANGED commits
      /\ ckpt \in [Workflows -> WorkflowState \cup {None}]
      /\ commits \in [Workflows -> Nat]
  BY Running DEF PutCheckpoint, WorkflowInv, TypeOK, git
<1>2. /\ u # None /\ u.next # "END" /\ out # None /\ out \in WorkflowState
      /\ u \in WorkflowState /\ ValueOK(lock, u) /\ ValueOK(lock, out)
      /\ RecordOK(lock, out) /\ OneMove(u, out)
  BY <1>1 DEF WorkflowInv, TypeOK, RunOK, StoreOK, RecordInv
<1>3. /\ ckpt'[lock] = out
      /\ \A w \in Workflows \ {lock} : ckpt'[w] = ckpt[w]
  BY <1>1
<1>4. u.state \notin TERMINAL_STATES
  BY <1>2 DEF ValueOK
<1>5. u.approval # None => u.approval.decision = "approve"
  <2>1. u.next \in BeforeDecision \cup AfterApproval
    BY <1>2 DEF WorkflowState, Nodes, BeforeDecision, BeforeProposal, AfterApproval
  <2> HIDE DEF u
  <2> QED BY <1>2, <2>1 DEF ValueOK, ApprovedIn
<1>6. /\ Offers[lock] = u.binding /\ Outcomes[lock] = "none"
      /\ Verdicts[lock] = (IF u.approval = None THEN "open" ELSE "approved")
  BY <1>1, <1>2, <1>4, <1>5 DEF Offers, Verdicts, Outcomes, TERMINAL_STATES
<1>7. /\ Offers'[lock] = out.binding
      /\ Verdicts'[lock] = (IF out.approval = None THEN "open"
                            ELSE IF out.approval.decision = "approve" THEN "approved"
                            ELSE "refused")
      /\ Outcomes'[lock] = (IF out.state = "COMPLETED" THEN "completed"
                            ELSE IF out.state \in {"FAILED", "BLOCKED"} THEN "failed"
                            ELSE "none")
  BY <1>1, <1>2, <1>3 DEF Offers, Verdicts, Outcomes
<1>8. /\ Offers' = [Offers EXCEPT ![lock] = Offers'[lock]]
      /\ Verdicts' = [Verdicts EXCEPT ![lock] = Verdicts'[lock]]
      /\ Outcomes' = [Outcomes EXCEPT ![lock] = Outcomes'[lock]]
      /\ Offers'[lock] = Offers[lock] => Offers' = Offers
      /\ Verdicts'[lock] = Verdicts[lock] => Verdicts' = Verdicts
      /\ Outcomes'[lock] = Outcomes[lock] => Outcomes' = Outcomes
  BY <1>1, <1>3, OneSeen
<1> HIDE DEF u
\* Neither offered nor decided: it goes on, or it ends.
<1>9. CASE out.binding = u.binding /\ out.approval = u.approval
  <2>1. Offers' = Offers /\ Verdicts' = Verdicts
    BY <1>5, <1>6, <1>7, <1>8, <1>9
  <2>2. CASE Outcomes'[lock] = "none"
    <3>1. Outcomes' = Outcomes
      BY <1>6, <1>8, <2>2
    <3> QED BY <1>1, <2>1, <3>1 DEF Promise!vars
  <2>3. CASE Outcomes'[lock] # "none"
    <3>1. /\ Outcomes'[lock] \in {"completed", "failed"}
          /\ Outcomes'[lock] = "completed" => commits[lock] = 1
      BY <1>1, <1>2, <1>7, <2>3 DEF RecordOK, Earned, OnceInv
    <3>2. Verdicts[lock] # "refused"
      BY <1>6
    <3>3. Promise!Finish(lock)
      BY <1>1, <1>6, <1>8, <2>1, <3>1, <3>2 DEF Promise!Finish
    <3> QED BY <1>1, <3>3 DEF Promise!Next
  <2> QED BY <2>2, <2>3
<1>10. CASE /\ u.binding = None /\ out.binding # None
            /\ u.approval = None /\ out.approval = None
            /\ out.state \notin TERMINAL_STATES
  <2>1. Verdicts' = Verdicts /\ Outcomes' = Outcomes
    BY <1>6, <1>7, <1>8, <1>10 DEF TERMINAL_STATES
  <2>2. Offers' = [Offers EXCEPT ![lock] = out.binding]
    BY <1>7, <1>8
  <2>3. out.binding \in Bindings
    BY <1>2, <1>10 DEF WorkflowState
  <2>4. Promise!Offer(lock)
    BY <1>1, <1>6, <1>10, <2>1, <2>2, <2>3 DEF Promise!Offer
  <2> QED BY <1>1, <2>4 DEF Promise!Next
<1>11. CASE /\ u.binding # None /\ out.binding = u.binding
            /\ u.approval = None /\ out.approval # None
            /\ out.state \notin {"COMPLETED", "FAILED", "BLOCKED"}
  <2>1. Offers' = Offers /\ Outcomes' = Outcomes
    BY <1>6, <1>7, <1>8, <1>11
  <2>2. Verdicts'[lock] \in {"approved", "refused"} /\ Verdicts[lock] = "open"
    BY <1>6, <1>7, <1>11
  <2>3. Promise!Decide(lock)
    BY <1>1, <1>6, <1>8, <1>11, <2>1, <2>2 DEF Promise!Decide
  <2> QED BY <1>1, <2>3 DEF Promise!Next
<1> QED BY <1>2, <1>9, <1>10, <1>11 DEF OneMove

\* The first commit of an approved workflow is the promised write.
LEMMA CommitPromised ==
  ASSUME WorkflowInv, OnceInv, ApplyCommit
  PROVE  [Promise!Next]_(Promise!vars)
<1>1. /\ lock # Free /\ phase = "written" /\ lock \in Workflows
      /\ UNCHANGED ckpt /\ values.next = "apply" /\ values \in WorkflowState
      /\ ValueOK(lock, values) /\ ckpt[lock] # None
      /\ commits \in [Workflows -> Nat]
      /\ commits' = commits \/ commits' = [commits EXCEPT ![lock] = @ + 1]
  BY Running DEF ApplyCommit, WorkflowInv, TypeOK, RunOK, values, store
<1>2. CASE commits' = commits
  BY <1>1, <1>2, Unseen
<1>3. CASE commits' = [commits EXCEPT ![lock] = @ + 1]
  <2>1. commits[lock] = 0
    BY <1>1 DEF OnceInv
  <2>2. commits' = [commits EXCEPT ![lock] = 1]
    BY <1>1, <1>3, <2>1
  <2>3. ApprovedIn(values) /\ values.state \notin TERMINAL_STATES
    BY <1>1 DEF ValueOK, AfterApproval
  <2>4. Verdicts[lock] = "approved" /\ Outcomes[lock] = "none"
    BY <1>1, <2>3 DEF Verdicts, Outcomes, ApprovedIn, values, TERMINAL_STATES
  <2>5. UNCHANGED <<Offers, Verdicts, Outcomes>>
    BY <1>1 DEF Offers, Verdicts, Outcomes
  <2>6. Promise!Write(lock)
    BY <2>1, <2>2, <2>4, <2>5 DEF Promise!Write
  <2> QED BY <1>1, <2>6 DEF Promise!Next
<1> QED BY <1>1, <1>2, <1>3

\* A workflow that has only its input checkpoint has nothing to show.
LEMMA StartPromised ==
  ASSUME WorkflowInv, NEW w \in Workflows, Start(w)
  PROVE  UNCHANGED Promise!vars
<1>1. /\ ckpt[w] = None /\ ckpt' = [ckpt EXCEPT ![w] = Initial]
      /\ ckpt \in [Workflows -> WorkflowState \cup {None}] /\ UNCHANGED commits
  BY DEF Start, WorkflowInv, TypeOK, git
<1>2. /\ ckpt'[w] = Initial
      /\ \A x \in Workflows \ {w} : ckpt'[x] = ckpt[x]
  BY <1>1
<1>3. Offers'[w] = Offers[w] /\ Verdicts'[w] = Verdicts[w] /\ Outcomes'[w] = Outcomes[w]
  BY <1>1, <1>2 DEF Offers, Verdicts, Outcomes, Initial
<1> QED BY <1>1, <1>2, <1>3, OneSeen DEF Promise!vars

\* Every step is one of the promise or none at all.
LEMMA StepPromised ==
  ASSUME WorkflowInv, RecordInv, OnceInv, [Next]_vars
  PROVE  [Promise!Next]_(Promise!vars)
<1>1. CASE PutCheckpoint
  BY <1>1, CheckpointPromised
<1>2. CASE ApplyCommit
  BY <1>2, CommitPromised
<1>3. CASE \E w \in Workflows : Start(w)
  BY <1>3, StartPromised
<1>4. CASE UNCHANGED <<ckpt, commits>>
  BY <1>4, Unseen
<1>5. \/ PutCheckpoint \/ ApplyCommit \/ \E w \in Workflows : Start(w)
      \/ UNCHANGED <<ckpt, commits>>
  <2>1. CASE GraphStep
    BY <2>1 DEF GraphStep, PutWrites, StartTask, Receive, Investigate, Propose,
       MarkWaiting, Interrupt, WaitForApproval, ApplyChange, ApplyRefuse, ApplySkip,
       ApplyReuse, ApplyClone, ApplyWrite, ApplyPush, CompileStage, TestStage,
       VerifyStage, Complete, Quiet, store, git
  <2> QED BY <2>1 DEF Next, Raise, Crash, Continue, Submit, Resume, TurnAway,
             store, git, vars
<1> QED BY <1>1, <1>2, <1>3, <1>4, <1>5

\* While workspaces survive a death and git log answers, the engine offers once,
\* decides once, writes once and only what is approved, and completes only what is
\* written (durable_workflow.build_graph, resume_workflow, continue_workflow).
THEOREM Implements == ASSUME DiskSurvives, ~LogMayFail PROVE Spec => KeepsPromise
<1>1. WorkflowInv /\ OnceInv /\ [Next]_vars => OnceInv'
  BY OnceStep
<1>2. WorkflowInv /\ RecordInv /\ [Next]_vars => RecordInv'
  BY StepRecord
<1>3. WorkflowInv /\ RecordInv /\ OnceInv /\ [Next]_vars => [Promise!Next]_(Promise!vars)
  BY StepPromised
<1> QED BY <1>1, <1>2, <1>3, OnceInit, InitRecord, InitPromised, Invariance, PTL
        DEF Spec, KeepsPromise, Promise!Spec

-----------------------------------------------------------------------------
(* The checkpoint store *)

\* What a caller does: it reads a thread, or it is its writer.
Reads(c)  == store_call[c] # None /\ store_call[c].op = "get"
Writer(c) == store_call[c] # None /\ store_call[c].op # "get"
Now(t)    == Store!Abstract!TupleOf(store_rows[t], store_writes[t])

StoreShape ==
  /\ store_rows \in [Stored -> [Store!Ids -> {None, Whole, Corrupt}]]
  /\ store_writes \in [Stored -> [Store!Ids -> Store!WriteSets]]
  /\ store_call \in [Callers -> Store!Calls \cup {None}]
  /\ store_seen = [c \in Callers |-> store_seen[c]]

\* A thread has one writer; the rows an open put_writes would leave replace no plain
\* write, and are those of the latest checkpoint.
StoreWriterOK ==
  \A c \in Callers : Writer(c) => LET x == store_call[c] IN
    /\ \A d \in Callers : Writer(d) /\ store_call[d].thread = x.thread => d = c
    /\ x.op = "writes" =>
         /\ x.id = Store!Latest(x.thread)
         /\ \A h \in Store!Channels : x.own[h] # store_writes[x.thread][x.id][h] =>
              x.own[h] # None /\ (h = "plain" => store_writes[x.thread][x.id][h] = None)

\* A reader has seen what is there now, and the row it has read with the writes that
\* row has now.
StoreReaderOK ==
  \A c \in Callers : LET x == store_call[c] IN
    IF Reads(c)
      THEN /\ Now(x.thread) \in store_seen[c]
           /\ x.row # 0 =>
                /\ store_rows[x.thread][x.row] # Corrupt
                /\ [is |-> "tuple", id |-> x.row, writes |-> store_writes[x.thread][x.row]]
                     \in store_seen[c]
      ELSE store_seen[c] = {}

StoreInv == StoreShape /\ StoreWriterOK /\ StoreReaderOK

-----------------------------------------------------------------------------

\* What is assumed of the constants.
LEMMA StoreConstants ==
  /\ MaxIds \in Nat /\ Whole # Corrupt /\ None \notin {Whole, Corrupt}
  /\ None \notin WriteValues /\ None \notin Stored /\ None \notin Store!Calls
BY StoredAssumption DEF Store!StoreAssumption

\* What is open is a read of a thread, or an upsert or inserts by its writer.
LEMMA CallTypes ==
  ASSUME StoreShape, NEW c \in Callers
  PROVE  /\ Reads(c) => store_call[c] \in [op : {"get"}, thread : Stored, row : 0..MaxIds]
         /\ Writer(c) => store_call[c].thread \in Stored /\ store_call[c].id \in Store!Ids
         /\ Writer(c) /\ store_call[c].op = "put" =>
              store_call[c] \in [op : {"put"}, thread : Stored, id : Store!Ids]
         /\ Writer(c) /\ store_call[c].op # "put" =>
              store_call[c] \in [op : {"writes"}, thread : Stored, id : Store!Ids,
                                 left : Store!WriteSets, own : Store!WriteSets]
<1>1. CASE store_call[c] = None
  BY <1>1 DEF Reads, Writer
<1>2. CASE store_call[c] \in [op : {"put"}, thread : Stored, id : Store!Ids]
  BY <1>2 DEF Reads, Writer
<1>3. CASE store_call[c] \in [op : {"writes"}, thread : Stored, id : Store!Ids,
                              left : Store!WriteSets, own : Store!WriteSets]
  BY <1>3 DEF Reads, Writer
<1>4. CASE store_call[c] \in [op : {"get"}, thread : Stored, row : 0..MaxIds]
  BY <1>4 DEF Reads, Writer
<1> QED BY <1>1, <1>2, <1>3, <1>4 DEF StoreShape, Store!Calls

\* A set of numbers up to n that is not empty has a greatest one.
LEMMA Greatest ==
  ASSUME NEW n \in Nat, NEW T, T \subseteq 1..n, T # {}
  PROVE  \E m \in T : \A k \in T : k <= m
<1> DEFINE R == OpToRel(<, Nat)
           D == {n - k : k \in T}
<1>1. D \subseteq Nat /\ D # {}
  <2>1. ASSUME NEW k \in T PROVE n - k \in Nat
    <3>1. k \in 1..n
      OBVIOUS
    <3> QED BY <3>1
  <2>2. PICK k \in T : TRUE
    OBVIOUS
  <2> QED BY <2>1, <2>2
<1>2. IsWellFoundedOn(R, Nat)
  BY NatLessThanWellFounded
<1>3. R = {ss \in Nat \X Nat : ss[1] < ss[2]}
  BY DEF OpToRel
<1> HIDE DEF R
<1>4. PICK d \in D : \A y \in D : <<y, d>> \notin R
  BY <1>1, <1>2, WFMin
<1>5. ASSUME NEW y \in D PROVE d <= y
  <2>1. <<y, d>> \in Nat \X Nat /\ <<y, d>>[1] = y /\ <<y, d>>[2] = d
    BY <1>1
  <2>2. ~(<<y, d>>[1] < <<y, d>>[2])
    BY <1>3, <1>4, <2>1, Zenon
  <2> QED BY <1>1, <2>1, <2>2
<1>6. PICK m \in T : d = n - m
  OBVIOUS
<1>7. ASSUME NEW k \in T PROVE k <= m
  <2>1. n - k \in D
    OBVIOUS
  <2> QED BY <1>5, <1>6, <2>1
<1> QED BY <1>7

\* The latest checkpoint of a thread is one of its rows.
LEMMA LatestType ==
  ASSUME StoreShape, NEW t \in Stored, Store!Latest(t) # 0
  PROVE  Store!Latest(t) \in Store!Ids /\ store_rows[t][Store!Latest(t)] # None
<1> DEFINE made == {i \in Store!Ids : store_rows[t][i] # None}
<1>1. made # {} /\ made \subseteq 1..MaxIds
  BY DEF Store!Latest, Store!Abstract!LatestIn, Store!Ids
<1>2. \E i \in made : \A j \in made : j <= i
  BY <1>1, Greatest, StoreConstants
<1>3. Store!Latest(t) = CHOOSE i \in made : \A j \in made : j <= i
  BY <1>1 DEF Store!Latest, Store!Abstract!LatestIn
<1> HIDE DEF made
<1>4. Store!Latest(t) \in made
  BY <1>2, <1>3
<1> QED BY <1>4 DEF made

\* What the latest of a thread with whole rows is told as.
LEMMA NowLatest ==
  ASSUME NEW t, Store!Latest(t) # 0, store_rows[t][Store!Latest(t)] # Corrupt
  PROVE  Now(t) = [is |-> "tuple", id |-> Store!Latest(t),
                   writes |-> store_writes[t][Store!Latest(t)]]
BY DEF Now, Store!Latest, Store!Abstract!TupleOf

\* A reader is shown what is there after every step, and keeps what it was shown.
LEMMA WatchedShows ==
  ASSUME Store!Watched, NEW c \in Callers
  PROVE  IF Reads(c)'
           THEN Now(store_call[c].thread)' \in store_seen'[c] /\ store_seen[c] \subseteq store_seen'[c]
           ELSE store_seen'[c] = {}
BY DEF Store!Watched, Reads, Now

\* The transaction of a put_writes after one more insert.
AfterInsert(x, h) ==
  [op |-> "writes", thread |-> x.thread, id |-> x.id,
   left |-> [x.left EXCEPT ![h] = None],
   own  |-> [x.own EXCEPT ![h] = Store!Inserted(h, x.own[h], x.left[h])]]

\* What an insert of a channel's writes changes.
LEMMA InsertsAs ==
  ASSUME StoreShape, NEW c \in Callers, NEW h \in Store!Channels, Store!Insert(c, h)
  PROVE  /\ Writer(c) /\ store_call[c].op = "writes"
         /\ store_call' = [store_call EXCEPT ![c] = AfterInsert(store_call[c], h)]
         /\ AfterInsert(store_call[c], h) \in Store!Calls
<1> DEFINE x == store_call[c]
           a == Store!Inserted(h, x.own[h], x.left[h])
<1>1. Writer(c) /\ x.op = "writes"
  BY DEF Store!Insert, Store!Idle, Writer
<1>2. x \in [op : {"writes"}, thread : Stored, id : Store!Ids,
             left : Store!WriteSets, own : Store!WriteSets]
  BY <1>1, CallTypes
<1>3. store_call' = [store_call EXCEPT ![c].own[h] = a, ![c].left[h] = None]
  BY DEF Store!Insert
<1> HIDE DEF a
<1>4. store_call' = [store_call EXCEPT ![c] = [[x EXCEPT !.own[h] = a] EXCEPT !.left[h] = None]]
  BY <1>3 DEF StoreShape
<1> DEFINE y == [op |-> "writes", thread |-> x.thread, id |-> x.id, left |-> x.left,
                 own |-> [x.own EXCEPT ![h] = a]]
<1>6. x = [op |-> "writes", thread |-> x.thread, id |-> x.id, left |-> x.left, own |-> x.own]
  BY <1>2
<1>7. [x EXCEPT !.own[h] = a] = y
  BY <1>6
<1>8. [y EXCEPT !.left[h] = None] = [op |-> "writes", thread |-> x.thread, id |-> x.id,
           left |-> [x.left EXCEPT ![h] = None], own |-> [x.own EXCEPT ![h] = a]]
  OBVIOUS
<1>5. [[x EXCEPT !.own[h] = a] EXCEPT !.left[h] = None]
        = [op |-> "writes", thread |-> x.thread, id |-> x.id,
           left |-> [x.left EXCEPT ![h] = None], own |-> [x.own EXCEPT ![h] = a]]
  BY <1>7, <1>8
<1>9. Store!Inserted(h, x.own[h], x.left[h]) \in WriteValues \cup {None}
  BY <1>2 DEF Store!Inserted, Store!WriteSets
<1>10. AfterInsert(x, h) \in Store!Calls
  BY <1>2, <1>9 DEF AfterInsert, Store!Calls, Store!WriteSets
<1> QED BY <1>1, <1>4, <1>5, <1>10 DEF AfterInsert, a

-----------------------------------------------------------------------------
(* Types are kept *)

\* Every step keeps the shape.
LEMMA StoreShapeKept ==
  ASSUME StoreShape, Store!Next
  PROVE  StoreShape'
<1> USE StoreConstants DEF StoreShape
<1>0. ASSUME Store!Watched PROVE store_seen' = [c \in Callers |-> store_seen'[c]]
  BY <1>0 DEF Store!Watched
<1>1. ASSUME NEW c \in Callers, NEW t \in Stored, NEW i \in Store!Ids, Store!Put(c, t, i)
      PROVE  StoreShape'
  <2>1. [op |-> "put", thread |-> t, id |-> i] \in Store!Calls
    BY DEF Store!Calls
  <2> QED BY <1>0, <1>1, <2>1 DEF Store!Put, Store!Opens
<1>2. ASSUME NEW c \in Callers, NEW t \in Stored, NEW w \in Store!WriteSets, Store!PutWrites(c, t, w)
      PROVE  StoreShape'
  <2>1. Store!Latest(t) \in Store!Ids
    BY <1>2, LatestType DEF Store!PutWrites
  <2>2. [op |-> "writes", thread |-> t, id |-> Store!Latest(t), left |-> w,
         own |-> store_writes[t][Store!Latest(t)]] \in Store!Calls
    BY <2>1 DEF Store!Calls
  <2> QED BY <1>0, <1>2, <2>2 DEF Store!PutWrites, Store!Opens
<1>3. ASSUME NEW c \in Callers, NEW t \in Stored, Store!Get(c, t) PROVE StoreShape'
  <2>1. [op |-> "get", thread |-> t, row |-> 0] \in Store!Calls
    BY DEF Store!Calls
  <2> QED BY <1>0, <1>3, <2>1 DEF Store!Get, Store!Opens
<1>4. ASSUME NEW c \in Callers, Store!CommitPut(c) PROVE StoreShape'
  BY <1>0, <1>4 DEF Store!CommitPut, Store!Closes
<1>5. ASSUME NEW c \in Callers, NEW h \in Store!Channels, Store!Insert(c, h) PROVE StoreShape'
  <2>8. store_call' \in [Callers -> Store!Calls \cup {None}]
    BY <1>5, InsertsAs
  <2> QED BY <1>0, <1>5, <2>8 DEF Store!Insert
<1>6. ASSUME NEW c \in Callers, Store!CommitWrites(c) PROVE StoreShape'
  <2>1. Writer(c) /\ store_call[c].op = "writes"
    BY <1>6 DEF Store!CommitWrites, Store!Idle, Writer
  <2>2. store_call[c].own \in Store!WriteSets
    BY <2>1, CallTypes
  <2> QED BY <1>0, <1>6, <2>2 DEF Store!CommitWrites, Store!Closes
<1>7. ASSUME NEW c \in Callers, Store!ReadNone(c) \/ Store!ReadWrites(c) \/ Store!Break(c)
      PROVE  StoreShape'
  BY <1>0, <1>7 DEF Store!ReadNone, Store!ReadWrites, Store!Break, Store!Tells, Store!Closes
<1>8. ASSUME NEW c \in Callers, Store!ReadRow(c) PROVE StoreShape'
  <2>1. Reads(c)
    BY <1>8 DEF Store!ReadRow, Store!Unread, Store!Idle, Reads
  <2>2. store_call[c] \in [op : {"get"}, thread : Stored, row : 0..MaxIds]
    BY <2>1, CallTypes
  <2> DEFINE i == Store!Latest(store_call[c].thread)
  <2>3. i \in Store!Ids
    BY <1>8, <2>2, LatestType DEF Store!ReadRow
  <2>4. store_call' = [store_call EXCEPT ![c] = [@ EXCEPT !.row = i]]
    BY <1>8 DEF Store!ReadRow
  <2> HIDE DEF i
  <2>5. [store_call[c] EXCEPT !.row = i] \in Store!Calls
    BY <2>2, <2>3 DEF Store!Calls, Store!Ids
  <2> QED BY <1>0, <1>8, <2>4, <2>5 DEF Store!ReadRow
<1>9. ASSUME NEW t \in Stored, Store!DeleteThread(t) PROVE StoreShape'
  <2>1. [i \in Store!Ids |-> Store!Abstract!NoWrites] \in [Store!Ids -> Store!WriteSets]
    BY DEF Store!Abstract!NoWrites, Store!Abstract!Channels, Store!WriteSets, Store!Channels
  <2> QED BY <1>0, <1>9, <2>1 DEF Store!DeleteThread
<1>10. ASSUME NEW t \in Stored, Store!Damage(t) PROVE StoreShape'
  BY <1>0, <1>10 DEF Store!Damage
<1> QED BY <1>1, <1>2, <1>3, <1>4, <1>5, <1>6, <1>7, <1>8, <1>9, <1>10 DEF Store!Next

-----------------------------------------------------------------------------
(* Who writes, and what a reader has *)

\* Calls other than that of c stay as they are.
Alone(c) == \A d \in Callers \ {c} : store_call'[d] = store_call[d]

\* Every step keeps one writer for a thread.
LEMMA WritersKept ==
  ASSUME StoreShape, StoreWriterOK, Store!Next
  PROVE  StoreWriterOK'
<1> USE StoreConstants
<1>0. ASSUME NEW c \in Callers, Alone(c), ~Writer(c)', UNCHANGED <<store_rows, store_writes>>
      PROVE  StoreWriterOK'
  BY <1>0 DEF Alone, StoreWriterOK, Writer, Store!Latest
<1>1. ASSUME NEW c \in Callers, NEW t \in Stored, NEW i \in Store!Ids, Store!Put(c, t, i)
      PROVE  StoreWriterOK'
  <2>1. /\ store_call'[c] = [op |-> "put", thread |-> t, id |-> i] /\ Alone(c)
        /\ UNCHANGED <<store_rows, store_writes>>
        /\ \A d \in Callers : Writer(d) => store_call[d].thread # t
    BY <1>1 DEF Store!Put, Store!Opens, Store!Changes, Store!Busy, Writer, Alone, StoreShape
  <2> QED BY <2>1 DEF Alone, StoreWriterOK, Writer, Store!Latest
<1>2. ASSUME NEW c \in Callers, NEW t \in Stored, NEW w \in Store!WriteSets, Store!PutWrites(c, t, w)
      PROVE  StoreWriterOK'
  <2>1. /\ store_call'[c] = [op |-> "writes", thread |-> t, id |-> Store!Latest(t),
                             left |-> w, own |-> store_writes[t][Store!Latest(t)]]
        /\ Alone(c) /\ UNCHANGED <<store_rows, store_writes>>
        /\ \A d \in Callers : Writer(d) => store_call[d].thread # t
    BY <1>2 DEF Store!PutWrites, Store!Opens, Store!Changes, Store!Busy, Writer, Alone, StoreShape
  <2>2. Store!Latest(t)' = Store!Latest(t)
    BY <2>1 DEF Store!Latest
  <2>3. \A d \in Callers \ {c} : Writer(d)' = Writer(d)
    BY <2>1 DEF Alone, Writer
  <2>4. ASSUME NEW d \in Callers \ {c}, Writer(d)
        PROVE  Store!Latest(store_call[d].thread)' = Store!Latest(store_call[d].thread)
    BY <2>1, <2>4 DEF Alone, Store!Latest
  <2> QED BY <2>1, <2>2, <2>3, <2>4 DEF Alone, StoreWriterOK, Writer
<1>3. ASSUME NEW c \in Callers, NEW t \in Stored, Store!Get(c, t) PROVE StoreWriterOK'
  BY <1>0, <1>3 DEF Store!Get, Store!Opens, Alone, Writer, StoreShape
<1>4. ASSUME NEW c \in Callers, Store!CommitPut(c) \/ Store!CommitWrites(c) PROVE StoreWriterOK'
  <2>1. /\ Writer(c) /\ store_call'[c] = None /\ Alone(c)
        /\ \A t \in Stored \ {store_call[c].thread} :
             store_rows'[t] = store_rows[t] /\ store_writes'[t] = store_writes[t]
    BY <1>4 DEF Store!CommitPut, Store!CommitWrites, Store!Closes, Store!Idle, Writer, Alone,
                StoreShape
  <2>2. ASSUME NEW d \in Callers, Writer(d)'
        PROVE  /\ d # c /\ Writer(d) /\ store_call'[d] = store_call[d]
               /\ store_call[d].thread \in Stored \ {store_call[c].thread}
    BY <2>1, <2>2, CallTypes DEF Alone, Writer, StoreWriterOK
  <2>3. ASSUME NEW d \in Callers, Writer(d)'
        PROVE  /\ Store!Latest(store_call[d].thread)' = Store!Latest(store_call[d].thread)
               /\ store_writes'[store_call[d].thread] = store_writes[store_call[d].thread]
    BY <2>1, <2>2, <2>3 DEF Store!Latest
  <2> QED BY <2>2, <2>3 DEF StoreWriterOK
<1>5. ASSUME NEW c \in Callers, NEW h \in Store!Channels, Store!Insert(c, h) PROVE StoreWriterOK'
  <2> DEFINE x == store_call[c]
             y == AfterInsert(x, h)
  <2>1. /\ Writer(c) /\ x.op = "writes" /\ store_call' = [store_call EXCEPT ![c] = y]
        /\ x.left[h] # None /\ UNCHANGED <<store_rows, store_writes>>
    BY <1>5, InsertsAs DEF Store!Insert
  <2>2. x.own \in Store!WriteSets
    BY <2>1, CallTypes
  <2>3. /\ store_call'[c] = y /\ Alone(c)
        /\ y.op = "writes" /\ y.thread = x.thread /\ y.id = x.id
        /\ y.own = [x.own EXCEPT ![h] = Store!Inserted(h, x.own[h], x.left[h])]
    BY <2>1 DEF Alone, StoreShape, AfterInsert
  <2>4. y # None
    BY <1>5, InsertsAs
  <2> DEFINE old == store_writes[x.thread][x.id]
  <2>5. /\ x.id = Store!Latest(x.thread)
        /\ \A k \in Store!Channels : x.own[k] # old[k] =>
              x.own[k] # None /\ (k = "plain" => old[k] = None)
        /\ \A d \in Callers : Writer(d) /\ store_call[d].thread = x.thread => d = c
    BY <2>1 DEF StoreWriterOK
  <2> HIDE DEF old
  <2>6. \A k \in Store!Channels : y.own[k] # old[k] =>
              y.own[k] # None /\ (k = "plain" => old[k] = None)
    BY <2>1, <2>2, <2>3, <2>5 DEF Store!Inserted, Store!WriteSets, Store!Channels
  <2> HIDE DEF x, y
  <2>7. \A d \in Callers : Writer(d)' => Writer(d) /\ store_call'[d].thread = store_call[d].thread
    BY <2>1, <2>3 DEF Alone, Writer, x
  <2>8. \A t : Store!Latest(t)' = Store!Latest(t)
    BY <2>1 DEF Store!Latest
  <2>9. ASSUME NEW d \in Callers, Writer(d)', d # c
        PROVE  store_call'[d] = store_call[d] /\ Writer(d)
    BY <2>3, <2>7, <2>9 DEF Alone
  <2>10. Writer(c)' /\ store_call'[c].thread = x.thread
    BY <2>3, <2>4 DEF Writer
  <2>11. ASSUME NEW d \in Callers, NEW e \in Callers, Writer(d)', Writer(e)',
               store_call'[e].thread = store_call'[d].thread
         PROVE e = d
    BY <2>7, <2>11 DEF StoreWriterOK
  <2>12. ASSUME NEW d \in Callers, Writer(d)', store_call'[d].op = "writes"
         PROVE  /\ store_call'[d].id = Store!Latest(store_call[d].thread)'
                /\ \A k \in Store!Channels :
                     store_call'[d].own[k]
                       # store_writes'[store_call'[d].thread][store_call'[d].id][k]
                     => /\ store_call'[d].own[k] # None
                        /\ k = "plain" =>
                             store_writes'[store_call'[d].thread][store_call'[d].id][k] = None
    <3>1. CASE d = c
      <4>1. store_call'[d] = y
        BY <2>3, <3>1
      <4>2. store_call'[d].id = Store!Latest(store_call[d].thread)'
        BY <2>3, <2>5, <2>8, <4>1
      <4>3. store_writes'[store_call'[d].thread][store_call'[d].id] = old
        BY <2>1, <2>3, <4>1 DEF old
      <4> QED BY <2>6, <4>1, <4>2, <4>3
    <3>2. CASE d # c
      <4>1. Writer(d) /\ store_call'[d] = store_call[d]
        BY <2>9, <2>12, <3>2
      <4>2. Store!Latest(store_call[d].thread)' = Store!Latest(store_call[d].thread)
        BY <2>8, <4>1
      <4> QED BY <2>1, <2>12, <4>1, <4>2 DEF StoreWriterOK
    <3> QED BY <3>1, <3>2
  <2> QED BY <2>11, <2>12 DEF StoreWriterOK
<1>6. ASSUME NEW c \in Callers, Store!ReadNone(c) \/ Store!ReadWrites(c) \/ Store!Break(c)
      PROVE  StoreWriterOK'
  BY <1>0, <1>6 DEF Store!ReadNone, Store!ReadWrites, Store!Break, Store!Tells, Store!Closes,
                    Alone, Writer, StoreShape
<1>7. ASSUME NEW c \in Callers, Store!ReadRow(c) PROVE StoreWriterOK'
  <2>1. Reads(c)
    BY <1>7 DEF Store!ReadRow, Store!Unread, Store!Idle, Reads
  <2>2. store_call[c] \in [op : {"get"}, thread : Stored, row : 0..MaxIds]
    BY <2>1, CallTypes
  <2>3. store_call'[c].op = "get" /\ Alone(c)
    BY <1>7, <2>2 DEF Store!ReadRow, Alone, StoreShape
  <2> QED BY <1>0, <1>7, <2>3 DEF Store!ReadRow, Writer
<1>8. ASSUME NEW t \in Stored, Store!DeleteThread(t) PROVE StoreWriterOK'
  <2>1. /\ store_call' = store_call /\ \A c \in Callers : Writer(c) => store_call[c].thread # t
        /\ \A u \in Stored \ {t} : store_rows'[u] = store_rows[u] /\ store_writes'[u] = store_writes[u]
    BY <1>8 DEF Store!DeleteThread, Writer, StoreShape
  <2>2. ASSUME NEW d \in Callers, Writer(d)'
        PROVE  /\ Writer(d) /\ store_call[d].thread \in Stored \ {t}
    BY <2>1, <2>2, CallTypes DEF Writer
  <2>3. ASSUME NEW d \in Callers, Writer(d)'
        PROVE  /\ Store!Latest(store_call[d].thread)' = Store!Latest(store_call[d].thread)
               /\ store_writes'[store_call[d].thread] = store_writes[store_call[d].thread]
    BY <2>1, <2>2, <2>3 DEF Store!Latest
  <2> QED BY <2>1, <2>2, <2>3 DEF StoreWriterOK, Writer
<1>9. ASSUME NEW t \in Stored, Store!Damage(t) PROVE StoreWriterOK'
  BY <1>9 DEF Store!Damage, StoreWriterOK, Writer
<1> QED BY <1>1, <1>2, <1>3, <1>4, <1>5, <1>6, <1>7, <1>8, <1>9 DEF Store!Next

\* A row that was read keeps its writes, or is the latest one still and is shown again.
LEMMA ReadersKept ==
  ASSUME StoreInv, Store!Next
  PROVE  StoreReaderOK'
<1> USE StoreConstants
<1>0. Store!Watched
  BY DEF Store!Next, Store!Put, Store!PutWrites, Store!Get, Store!CommitPut, Store!Insert,
         Store!CommitWrites, Store!ReadNone, Store!ReadRow, Store!ReadWrites, Store!Break,
         Store!DeleteThread, Store!Damage
<1> DEFINE Has(d) == LET x == store_call[d] IN
             /\ store_rows[x.thread][x.row] # Corrupt
             /\ [is |-> "tuple", id |-> x.row, writes |-> store_writes[x.thread][x.row]]
                  \in store_seen[d]
<1>a. ASSUME \A d \in Callers : Reads(d)' /\ store_call'[d].row # 0 => Has(d)'
      PROVE  StoreReaderOK'
  BY <1>0, <1>a, WatchedShows DEF StoreReaderOK
<1>b. ASSUME NEW d \in Callers, Reads(d)', store_call'[d] = store_call[d], store_call'[d].row # 0
      PROVE  /\ Reads(d) /\ Has(d) /\ store_seen[d] \subseteq store_seen'[d]
             /\ store_call[d].thread \in Stored /\ store_call[d].row \in Store!Ids
             /\ Now(store_call[d].thread)' \in store_seen'[d]
  <2>1. Reads(d)
    BY <1>b DEF Reads
  <2>2. store_call[d] \in [op : {"get"}, thread : Stored, row : 0..MaxIds]
    BY <2>1, CallTypes DEF StoreInv
  <2> QED BY <1>0, <1>b, <2>1, <2>2, WatchedShows DEF StoreInv, StoreReaderOK, Store!Ids
<1>c. ASSUME UNCHANGED <<store_rows, store_writes>>,
             NEW d \in Callers, Reads(d)', store_call'[d] = store_call[d], store_call'[d].row # 0
      PROVE  Has(d)'
  BY <1>b, <1>c
<1> HIDE DEF Has
<1>d. ASSUME UNCHANGED <<store_rows, store_writes>>, NEW c \in Callers, Alone(c),
             ~Reads(c)' \/ store_call'[c].row = 0
      PROVE  StoreReaderOK'
  BY <1>a, <1>c, <1>d DEF Alone
<1>1. ASSUME NEW c \in Callers, NEW t \in Stored, NEW i \in Store!Ids, Store!Put(c, t, i)
      PROVE  StoreReaderOK'
  BY <1>1, <1>d DEF Store!Put, Store!Opens, Alone, Reads, StoreInv, StoreShape
<1>2. ASSUME NEW c \in Callers, NEW t \in Stored, NEW w \in Store!WriteSets, Store!PutWrites(c, t, w)
      PROVE  StoreReaderOK'
  BY <1>2, <1>d DEF Store!PutWrites, Store!Opens, Alone, Reads, StoreInv, StoreShape
<1>3. ASSUME NEW c \in Callers, NEW t \in Stored, Store!Get(c, t) PROVE StoreReaderOK'
  BY <1>3, <1>d DEF Store!Get, Store!Opens, Alone, Reads, StoreInv, StoreShape
<1>4. ASSUME NEW c \in Callers, Store!CommitPut(c) PROVE StoreReaderOK'
  <2>1. /\ Writer(c) /\ store_call'[c] = None /\ Alone(c) /\ store_writes' = store_writes
        /\ store_rows' = [store_rows EXCEPT ![store_call[c].thread][store_call[c].id] = Whole]
    BY <1>4 DEF Store!CommitPut, Store!Closes, Store!Idle, Writer, Alone, StoreInv, StoreShape
  <2>2. ASSUME NEW d \in Callers, Reads(d)', store_call'[d].row # 0 PROVE Has(d)'
    <3>1. store_call'[d] = store_call[d]
      BY <2>1, <2>2 DEF Alone, Reads
    <3>2. /\ Has(d) /\ store_seen[d] \subseteq store_seen'[d]
          /\ store_call[d].thread \in Stored /\ store_call[d].row \in Store!Ids
      BY <1>b, <2>2, <3>1
    <3>3. store_rows'[store_call[d].thread][store_call[d].row] # Corrupt
      BY <2>1, <3>2 DEF Has, StoreInv, StoreShape
    <3> QED BY <2>1, <3>1, <3>2, <3>3 DEF Has
  <2> QED BY <1>a, <2>2
<1>5. ASSUME NEW c \in Callers, NEW h \in Store!Channels, Store!Insert(c, h) PROVE StoreReaderOK'
  <2>1. /\ store_call' = [store_call EXCEPT ![c] = AfterInsert(store_call[c], h)]
        /\ UNCHANGED <<store_rows, store_writes>>
    BY <1>5, InsertsAs DEF Store!Insert, StoreInv
  <2> QED BY <1>d, <2>1 DEF Alone, Reads, AfterInsert, StoreInv, StoreShape
<1>6. ASSUME NEW c \in Callers, Store!CommitWrites(c) PROVE StoreReaderOK'
  <2> DEFINE x == store_call[c]
  <2>1. /\ Writer(c) /\ x.op = "writes" /\ store_call'[c] = None /\ Alone(c)
        /\ store_rows' = store_rows
        /\ store_writes' = [store_writes EXCEPT ![x.thread][x.id] = x.own]
    BY <1>6 DEF Store!CommitWrites, Store!Closes, Store!Idle, Writer, Alone, StoreInv, StoreShape
  <2>2. /\ x.id = Store!Latest(x.thread) /\ x.id \in Store!Ids /\ x.thread \in Stored
    BY <2>1, CallTypes DEF StoreInv, StoreWriterOK
  <2>3. ASSUME NEW d \in Callers, Reads(d)', store_call'[d].row # 0 PROVE Has(d)'
    <3> DEFINE t == store_call[d].thread
               i == store_call[d].row
    <3>1. store_call'[d] = store_call[d]
      BY <2>1, <2>3 DEF Alone, Reads
    <3>2. /\ Has(d) /\ store_seen[d] \subseteq store_seen'[d]
          /\ t \in Stored /\ i \in Store!Ids /\ Now(t)' \in store_seen'[d]
      BY <1>b, <2>3, <3>1
    <3>3. CASE ~(t = x.thread /\ i = x.id)
      <4>1. store_writes'[t][i] = store_writes[t][i]
        BY <2>1, <2>2, <3>2, <3>3 DEF StoreInv, StoreShape
      <4> QED BY <2>1, <3>1, <3>2, <4>1 DEF Has
    <3>4. CASE t = x.thread /\ i = x.id
      <4>1. Store!Abstract!LatestIn(store_rows'[t]) = i /\ i # 0
        BY <2>1, <2>2, <3>2, <3>4 DEF Store!Latest, Store!Ids
      <4>2. store_rows'[t][i] # Corrupt
        BY <2>1, <3>2 DEF Has
      <4>3. Now(t)' = [is |-> "tuple", id |-> i, writes |-> store_writes'[t][i]]
        BY <3>1, <4>1, <4>2 DEF Now, Store!Abstract!TupleOf
      <4> QED BY <3>1, <3>2, <4>2, <4>3 DEF Has
    <3> QED BY <3>3, <3>4
  <2> QED BY <1>a, <2>3
<1>7. ASSUME NEW c \in Callers, Store!ReadNone(c) \/ Store!ReadWrites(c) \/ Store!Break(c)
      PROVE  StoreReaderOK'
  BY <1>7, <1>d DEF Store!ReadNone, Store!ReadWrites, Store!Break, Store!Tells, Store!Closes,
                    Alone, Reads, StoreInv, StoreShape
<1>8. ASSUME NEW c \in Callers, Store!ReadRow(c) PROVE StoreReaderOK'
  <2> DEFINE t == store_call[c].thread
             i == Store!Latest(t)
  <2>1. Reads(c)
    BY <1>8 DEF Store!ReadRow, Store!Unread, Store!Idle, Reads
  <2>2. store_call[c] \in [op : {"get"}, thread : Stored, row : 0..MaxIds]
    BY <2>1, CallTypes DEF StoreInv
  <2>3. /\ i # 0 /\ store_rows[t][i] # Corrupt
        /\ store_call' = [store_call EXCEPT ![c].row = i]
        /\ UNCHANGED <<store_rows, store_writes>>
    BY <1>8 DEF Store!ReadRow
  <2>4. Now(t) = [is |-> "tuple", id |-> i, writes |-> store_writes[t][i]] /\ Now(t)' = Now(t)
    BY <2>3, NowLatest DEF Now
  <2>5. Now(t) \in store_seen[c]
    BY <2>1 DEF StoreInv, StoreReaderOK
  <2> HIDE DEF i
  <2>6. store_call'[c].row = i /\ store_call'[c].thread = t /\ Alone(c)
    BY <2>2, <2>3 DEF Alone, StoreInv, StoreShape
  <2>7. Reads(c)' => Has(c)'
    <3>1. Reads(c)' => store_seen[c] \subseteq store_seen'[c]
      BY <1>0, WatchedShows
    <3> QED BY <2>3, <2>4, <2>5, <2>6, <3>1 DEF Has
  <2> QED BY <1>a, <1>c, <2>3, <2>6, <2>7 DEF Alone
<1>9. ASSUME NEW t \in Stored, Store!DeleteThread(t) PROVE StoreReaderOK'
  <2>1. /\ store_call' = store_call
        /\ \A c \in Callers : store_call[c] # None => store_call[c].thread # t
        /\ \A u \in Stored \ {t} : store_rows'[u] = store_rows[u] /\ store_writes'[u] = store_writes[u]
    BY <1>9 DEF Store!DeleteThread, StoreInv, StoreShape
  <2>2. ASSUME NEW d \in Callers, Reads(d)', store_call'[d].row # 0 PROVE Has(d)'
    <3>1. /\ Reads(d) /\ Has(d) /\ store_seen[d] \subseteq store_seen'[d]
          /\ store_call[d].thread \in Stored
      BY <1>b, <2>1, <2>2
    <3>2. store_call[d].thread \in Stored \ {t}
      BY <2>1, <3>1 DEF Reads
    <3> QED BY <2>1, <3>1, <3>2 DEF Has
  <2> QED BY <1>a, <2>2
<1>10. ASSUME NEW t \in Stored, Store!Damage(t) PROVE StoreReaderOK'
  BY <1>10, <1>a DEF Store!Damage, Reads
<1> QED BY <1>1, <1>2, <1>3, <1>4, <1>5, <1>6, <1>7, <1>8, <1>9, <1>10 DEF Store!Next

-----------------------------------------------------------------------------
(* The store is a MemorySaver *)

\* What the store inside the module promises, in this module's words.
ReadsNow == [c \in Callers |-> IF Reads(c) THEN store_call[c].thread ELSE None]
PromiseVars == <<store_rows, store_writes, ReadsNow, store_seen, store_told>>

\* Every step notes for the readers what the rows now hold.
LEMMA EveryStepWatches ==
  ASSUME Store!Next
  PROVE  Store!Watched
BY DEF Store!Next, Store!Put, Store!PutWrites, Store!Get, Store!CommitPut, Store!Insert,
       Store!CommitWrites, Store!ReadNone, Store!ReadRow, Store!ReadWrites, Store!Break,
       Store!DeleteThread, Store!Damage

\* While nothing of the database changes, a call that goes on is shown nothing new.
LEMMA NothingNew ==
  ASSUME StoreInv, Store!Watched, UNCHANGED <<store_rows, store_writes>>,
         NEW d \in Callers,
         \/ store_call'[d] = store_call[d]
         \/ Reads(d) /\ Reads(d)' /\ store_call'[d].thread = store_call[d].thread
         \/ ~Reads(d) /\ ~Reads(d)'
  PROVE  store_seen'[d] = store_seen[d]
<1>1. CASE Reads(d) /\ Reads(d)' /\ store_call'[d].thread = store_call[d].thread
  <2>1. Now(store_call[d].thread) \in store_seen[d]
    BY <1>1 DEF StoreInv, StoreReaderOK
  <2>2. store_seen'[d] = store_seen[d] \cup {Now(store_call[d].thread)}
    BY <1>1 DEF Store!Watched, Reads, Now
  <2> QED BY <2>1, <2>2
<1>2. CASE ~Reads(d) /\ ~Reads(d)'
  BY <1>2, WatchedShows DEF StoreInv, StoreReaderOK
<1>3. CASE store_call'[d] = store_call[d]
  BY <1>1, <1>2, <1>3 DEF Reads
<1> QED BY <1>1, <1>2, <1>3

\* A step inside a transaction: what the abstract store is made of stays.
LEMMA Stutters ==
  ASSUME StoreInv, Store!Watched, StoreShape',
         UNCHANGED <<store_rows, store_writes, store_told>>,
         \A d \in Callers :
           \/ store_call'[d] = store_call[d]
           \/ Reads(d) /\ Reads(d)' /\ store_call'[d].thread = store_call[d].thread
           \/ ~Reads(d) /\ ~Reads(d)'
  PROVE  UNCHANGED PromiseVars
<1>1. \A d \in Callers : store_seen'[d] = store_seen[d]
  BY NothingNew
<1>2. store_seen' = store_seen
  <2>1. store_seen = [c \in Callers |-> store_seen[c]] /\ store_seen' = [c \in Callers |-> store_seen'[c]]
    BY DEF StoreInv, StoreShape
  <2> QED BY <1>1, <2>1, Zenon
<1>3. \A d \in Callers : (IF Reads(d)' THEN store_call'[d].thread ELSE None)
                         = (IF Reads(d) THEN store_call[d].thread ELSE None)
  BY DEF Reads
<1>4. ReadsNow' = ReadsNow
  BY <1>3 DEF ReadsNow
<1> QED BY <1>2, <1>4 DEF PromiseVars

\* What leaves the reads alone is watched by the abstract store, too.
LEMMA ReadersOnly ==
  ASSUME StoreInv, Store!Watched,
         \A d \in Callers : Reads(d)' = Reads(d) /\ (Reads(d) => store_call'[d] = store_call[d])
  PROVE  ReadsNow' = ReadsNow /\ Store!Abstract!Watched
<1>1. ReadsNow' = ReadsNow
  BY DEF ReadsNow
<1>2. \A d \in Callers : Reads(d) => store_call[d].thread # None
  BY CallTypes, StoreConstants DEF StoreInv
<1>3. Store!Abstract!Watched
  BY <1>2 DEF Store!Watched, Store!Abstract!Watched, Reads
<1> QED BY <1>1, <1>3

\* So does the commit of a writer.
LEMMA ReadersStay ==
  ASSUME StoreInv, Store!Watched, NEW c \in Callers, ~Reads(c),
         store_call' = [store_call EXCEPT ![c] = None]
  PROVE  ReadsNow' = ReadsNow /\ Store!Abstract!Watched
<1>1. \A d \in Callers : Reads(d)' = Reads(d) /\ (Reads(d) => store_call'[d] = store_call[d])
  BY DEF Reads, StoreInv, StoreShape
<1> QED BY <1>1, ReadersOnly

\* A read that begins, and one that ends with an answer it was shown, or an error.
LEMMA ReadBegins ==
  ASSUME StoreInv, NEW c \in Callers, NEW t \in Stored, Store!Get(c, t)
  PROVE  Store!Abstract!Begin(c, t)
<1>1. /\ ~Reads(c) /\ store_seen[c] = {}
      /\ store_call' = [store_call EXCEPT ![c] = [op |-> "get", thread |-> t, row |-> 0]]
      /\ UNCHANGED <<store_rows, store_writes>> /\ store_told' = [store_told EXCEPT ![c] = None]
      /\ Store!Watched
  BY DEF Store!Get, Store!Opens, Store!Idle, Reads, StoreInv, StoreReaderOK
<1>2. /\ store_call'[c] = [op |-> "get", thread |-> t, row |-> 0]
      /\ \A d \in Callers \ {c} : store_call'[d] = store_call[d]
  BY <1>1 DEF StoreInv, StoreShape
<1>a. [op |-> "get", thread |-> t, row |-> 0] \in Store!Calls
  BY StoreConstants DEF Store!Calls
<1>3. Reads(c)' /\ \A d \in Callers \ {c} : Reads(d)' = Reads(d)
  BY <1>2, <1>a, StoreConstants DEF Reads
<1>b. store_call'[c].thread = t
  BY <1>2
<1>4. ReadsNow' = [ReadsNow EXCEPT ![c] = t]
  BY <1>2, <1>3, <1>b DEF ReadsNow
<1>5. store_seen'[c] = {Now(t)}
  BY <1>1, <1>2, <1>3 DEF Store!Watched, Reads, Now
<1>6. \A d \in Callers \ {c} : store_seen'[d] = store_seen[d]
  BY <1>1, <1>2, NothingNew
<1>7. store_seen' = [store_seen EXCEPT ![c] = {Now(t)}]
  <2>1. store_seen = [d \in Callers |-> store_seen[d]] /\ store_seen' = [d \in Callers |-> store_seen'[d]]
    BY <1>1 DEF StoreInv, StoreShape, Store!Watched
  <2> QED BY <1>5, <1>6, <2>1
<1> QED BY <1>1, <1>4, <1>7 DEF Store!Abstract!Begin, ReadsNow, Reads, Now

\* A read that ends tells what the memory may tell.
LEMMA ReadEnds ==
  ASSUME StoreInv, NEW c \in Callers, Reads(c), Store!Watched, NEW a, Store!Tells(c, a),
         UNCHANGED <<store_rows, store_writes>>,
         a \in store_seen[c] \/ a = [is |-> "error"]
  PROVE  Store!Abstract!Answer(c)
<1>1. /\ store_call' = [store_call EXCEPT ![c] = None]
      /\ store_told' = [store_told EXCEPT ![c] = a]
  BY DEF Store!Tells, Store!Closes
<1>2. /\ store_call'[c] = None
      /\ \A d \in Callers \ {c} : store_call'[d] = store_call[d]
  BY <1>1 DEF StoreInv, StoreShape
<1>3. ~Reads(c)' /\ \A d \in Callers \ {c} : Reads(d)' = Reads(d)
  BY <1>2 DEF Reads
<1>4. ReadsNow' = [ReadsNow EXCEPT ![c] = None]
  BY <1>2, <1>3 DEF ReadsNow
<1>5. store_seen'[c] = {}
  BY <1>3, WatchedShows
<1>6. \A d \in Callers \ {c} : store_seen'[d] = store_seen[d]
  BY <1>2, NothingNew
<1>7. store_seen' = [store_seen EXCEPT ![c] = {}]
  <2>1. store_seen = [d \in Callers |-> store_seen[d]] /\ store_seen' = [d \in Callers |-> store_seen'[d]]
    BY DEF StoreInv, StoreShape, Store!Watched
  <2> QED BY <1>5, <1>6, <2>1
<1>8. ReadsNow[c] # None
  BY CallTypes, StoreConstants DEF StoreInv, ReadsNow
<1> QED BY <1>1, <1>4, <1>7, <1>8 DEF Store!Abstract!Answer, ReadsNow, Reads

\* The writes a put_writes leaves are those the MemorySaver would keep.
LEMMA CommittedAs ==
  ASSUME StoreInv, NEW c \in Callers, Store!CommitWrites(c)
  PROVE  \E t \in Stored, i \in Store!Ids, w \in Store!Abstract!WriteSets :
           Store!Abstract!PutWrites(t, i, w)
<1> DEFINE x == store_call[c]
           old == store_writes[x.thread][x.id]
           w == [h \in Store!Channels |-> IF x.own[h] = old[h] THEN None ELSE x.own[h]]
           kept == [h \in Store!Abstract!Channels |->
                      IF w[h] = None THEN old[h] ELSE Store!Abstract!Kept(h, old[h], w[h])]
<1>1. /\ Writer(c) /\ x.op = "writes" /\ store_rows' = store_rows
      /\ store_writes' = [store_writes EXCEPT ![x.thread][x.id] = x.own]
      /\ store_call' = [store_call EXCEPT ![c] = None] /\ store_told' = store_told /\ Store!Watched
  BY DEF Store!CommitWrites, Store!Closes, Store!Idle, Writer
<1>2. /\ x.thread \in Stored /\ x.id \in Store!Ids /\ x.own \in Store!WriteSets
  BY <1>1, CallTypes DEF StoreInv
<1>3. \A h \in Store!Channels : x.own[h] # old[h] => x.own[h] # None /\ (h = "plain" => old[h] = None)
  BY <1>1 DEF StoreInv, StoreWriterOK
<1>4. old \in Store!WriteSets
  BY <1>2 DEF StoreInv, StoreShape
<1>5. w \in Store!Abstract!WriteSets
  BY <1>2 DEF Store!WriteSets, Store!Abstract!WriteSets, Store!Channels, Store!Abstract!Channels
<1>6. kept = x.own
  <2> HIDE DEF old
  <2>1. x.own = [h \in Store!Channels |-> x.own[h]]
    BY <1>2 DEF Store!WriteSets
  <2>2. ASSUME NEW h \in Store!Channels PROVE kept[h] = x.own[h]
    BY <1>3 DEF Store!Abstract!Kept, Store!Channels, Store!Abstract!Channels
  <2> HIDE DEF w
  <2>3. kept = [h \in Store!Channels |-> kept[h]]
    BY DEF Store!Channels, Store!Abstract!Channels
  <2> HIDE DEF kept, x
  <2> QED BY <2>1, <2>2, <2>3
<1>7. store_writes' = [store_writes EXCEPT ![x.thread][x.id] = kept]
  BY <1>1, <1>6
<1>8. ReadsNow' = ReadsNow /\ Store!Abstract!Watched
  BY <1>1, ReadersStay DEF Reads, Writer
<1> HIDE DEF w
<1>9. Store!Abstract!PutWrites(x.thread, x.id, w)
  BY <1>1, <1>2, <1>7, <1>8 DEF Store!Abstract!PutWrites, Store!Abstract!Changes, ReadsNow, Reads,
     StoreInv, StoreShape
<1> QED BY <1>2, <1>5, <1>9

\* Each step of the store is a step of the MemorySaver, or none.
LEMMA StoreStep ==
  ASSUME StoreInv, Store!Next
  PROVE  Store!Abstract!Next \/ UNCHANGED PromiseVars
<1> USE StoreConstants
<1>0. Store!Watched /\ StoreShape /\ StoreShape'
  BY EveryStepWatches, StoreShapeKept DEF StoreInv
<1>1. ASSUME NEW c \in Callers, NEW t \in Stored, NEW i \in Store!Ids, Store!Put(c, t, i)
      PROVE  UNCHANGED PromiseVars
  <2>1. ~Reads(c) /\ store_call' = [store_call EXCEPT ![c] = [op |-> "put", thread |-> t, id |-> i]]
        /\ UNCHANGED <<store_rows, store_writes, store_told>>
    BY <1>1 DEF Store!Put, Store!Opens, Store!Idle, Reads
  <2>2. \A d \in Callers : store_call'[d] = store_call[d] \/ (~Reads(d) /\ ~Reads(d)')
    BY <1>0, <2>1 DEF StoreShape, Reads
  <2> QED BY <1>0, <2>1, <2>2, Stutters
<1>2. ASSUME NEW c \in Callers, NEW t \in Stored, NEW w \in Store!WriteSets, Store!PutWrites(c, t, w)
      PROVE  UNCHANGED PromiseVars
  <2>1. ~Reads(c) /\ store_call' = [store_call EXCEPT ![c] =
             [op |-> "writes", thread |-> t, id |-> Store!Latest(t), left |-> w,
              own |-> store_writes[t][Store!Latest(t)]]]
        /\ UNCHANGED <<store_rows, store_writes, store_told>>
    BY <1>2 DEF Store!PutWrites, Store!Opens, Store!Idle, Reads
  <2>2. \A d \in Callers : store_call'[d] = store_call[d] \/ (~Reads(d) /\ ~Reads(d)')
    BY <1>0, <2>1 DEF StoreShape, Reads
  <2> QED BY <1>0, <2>1, <2>2, Stutters
<1>3. ASSUME NEW c \in Callers, NEW h \in Store!Channels, Store!Insert(c, h)
      PROVE  UNCHANGED PromiseVars
  <2>1. ~Reads(c) /\ store_call' = [store_call EXCEPT ![c] = AfterInsert(store_call[c], h)]
        /\ UNCHANGED <<store_rows, store_writes, store_told>>
    BY <1>0, <1>3, InsertsAs DEF Store!Insert, Reads
  <2>2. \A d \in Callers : store_call'[d] = store_call[d] \/ (~Reads(d) /\ ~Reads(d)')
    BY <1>0, <2>1 DEF StoreShape, Reads, AfterInsert
  <2> QED BY <1>0, <2>1, <2>2, Stutters
<1>4. ASSUME NEW c \in Callers, Store!ReadRow(c) PROVE UNCHANGED PromiseVars
  <2> DEFINE x == store_call[c]
  <2>1. /\ Reads(c) /\ store_call' = [store_call EXCEPT ![c].row = Store!Latest(x.thread)]
        /\ UNCHANGED <<store_rows, store_writes, store_told>>
    BY <1>4 DEF Store!ReadRow, Store!Unread, Store!Idle, Reads
  <2>2. x \in [op : {"get"}, thread : Stored, row : 0..MaxIds]
    BY <1>0, <2>1, CallTypes
  <2>3. store_call'[c].op = "get" /\ store_call'[c].thread = x.thread
    BY <1>0, <2>1, <2>2 DEF StoreShape
  <2>4. store_call'[c] # None
    <3>1. store_call'[c] = [x EXCEPT !.row = Store!Latest(x.thread)]
      BY <1>0, <2>1 DEF StoreShape
    <3>2. Store!Latest(x.thread) \in 0..MaxIds
      BY <1>0, <2>2, LatestType DEF Store!Ids
    <3>3. store_call'[c] \in Store!Calls
      BY <2>2, <3>1, <3>2 DEF Store!Calls
    <3> QED BY <3>3
  <2>5. \A d \in Callers : \/ store_call'[d] = store_call[d]
                           \/ Reads(d) /\ Reads(d)' /\ store_call'[d].thread = store_call[d].thread
    BY <1>0, <2>1, <2>3, <2>4 DEF StoreShape, Reads
  <2> QED BY <1>0, <2>1, <2>5, Stutters
<1>5. ASSUME NEW c \in Callers, Store!CommitPut(c) PROVE Store!Abstract!Next
  <2> DEFINE x == store_call[c]
  <2>1. /\ Writer(c) /\ x.op = "put" /\ store_writes' = store_writes /\ store_told' = store_told
        /\ store_rows' = [store_rows EXCEPT ![x.thread][x.id] = Whole]
        /\ store_call' = [store_call EXCEPT ![c] = None]
    BY <1>5 DEF Store!CommitPut, Store!Closes, Store!Idle, Writer
  <2>2. x.thread \in Stored /\ x.id \in Store!Ids
    BY <1>0, <2>1, CallTypes
  <2>3. ReadsNow' = ReadsNow /\ Store!Abstract!Watched
    BY <1>0, <2>1, ReadersStay DEF Reads, Writer
  <2>4. Store!Abstract!Put(x.thread, x.id, Whole)
    BY <2>1, <2>3 DEF Store!Abstract!Put, Store!Abstract!Changes, ReadsNow, Reads
  <2> QED BY <2>2, <2>4 DEF Store!Abstract!Next
<1>6. ASSUME NEW c \in Callers, Store!CommitWrites(c) PROVE Store!Abstract!Next
  BY <1>6, CommittedAs DEF Store!Abstract!Next
<1>7. ASSUME NEW c \in Callers, NEW t \in Stored, Store!Get(c, t) PROVE Store!Abstract!Next
  BY <1>7, ReadBegins DEF Store!Abstract!Next
<1>8. ASSUME NEW c \in Callers, Store!ReadNone(c) PROVE Store!Abstract!Next
  <2>1. Reads(c) /\ Store!Tells(c, Now(store_call[c].thread)) /\ UNCHANGED <<store_rows, store_writes>>
    BY <1>8 DEF Store!ReadNone, Store!Unread, Store!Idle, Reads, Now
  <2>2. Now(store_call[c].thread) \in store_seen[c]
    BY <2>1 DEF StoreInv, StoreReaderOK
  <2> QED BY <1>0, <2>1, <2>2, ReadEnds DEF Store!Abstract!Next
<1>9. ASSUME NEW c \in Callers, Store!ReadWrites(c) PROVE Store!Abstract!Next
  <2> DEFINE a == [is |-> "tuple", id |-> store_call[c].row,
                   writes |-> store_writes[store_call[c].thread][store_call[c].row]]
  <2>1. Reads(c) /\ Store!Tells(c, a) /\ UNCHANGED <<store_rows, store_writes>> /\ store_call[c].row # 0
    BY <1>9 DEF Store!ReadWrites, Store!Idle, Store!RowId, Reads
  <2>2. a \in store_seen[c]
    BY <2>1 DEF StoreInv, StoreReaderOK
  <2> QED BY <1>0, <2>1, <2>2, ReadEnds DEF Store!Abstract!Next
<1>10. ASSUME NEW c \in Callers, Store!Break(c) PROVE Store!Abstract!Next \/ UNCHANGED PromiseVars
  <2>1. CASE Reads(c)
    <3>1. Store!Tells(c, [is |-> "error"]) /\ UNCHANGED <<store_rows, store_writes>>
      BY <1>10, <2>1 DEF Store!Break, Reads
    <3> QED BY <1>0, <2>1, <3>1, ReadEnds DEF Store!Abstract!Next
  <2>2. CASE ~Reads(c)
    <3>1. store_call' = [store_call EXCEPT ![c] = None]
          /\ UNCHANGED <<store_rows, store_writes, store_told>>
      BY <1>10, <2>2 DEF Store!Break, Store!Idle, Store!Closes, Reads
    <3>2. \A d \in Callers : store_call'[d] = store_call[d] \/ (~Reads(d) /\ ~Reads(d)')
      BY <1>0, <2>2, <3>1 DEF StoreShape, Reads
    <3> QED BY <1>0, <3>1, <3>2, Stutters
  <2> QED BY <2>1, <2>2
<1>11. ASSUME NEW t \in Stored, Store!DeleteThread(t) PROVE Store!Abstract!Next
  <2>1. /\ store_rows' = [store_rows EXCEPT ![t] = [i \in Store!Ids |-> None]]
        /\ store_writes' = [store_writes EXCEPT ![t] = [i \in Store!Ids |-> Store!Abstract!NoWrites]]
        /\ store_call' = store_call /\ store_told' = store_told
    BY <1>11 DEF Store!DeleteThread
  <2>2. ReadsNow' = ReadsNow /\ Store!Abstract!Watched
    BY <1>0, <2>1, ReadersOnly DEF Reads
  <2>3. Store!Abstract!Delete(t)
    BY <2>1, <2>2 DEF Store!Abstract!Delete, Store!Abstract!Changes, ReadsNow, Reads
  <2> QED BY <2>3 DEF Store!Abstract!Next
<1>12. ASSUME NEW t \in Stored, Store!Damage(t) PROVE Store!Abstract!Next
  <2> DEFINE i == Store!Latest(t)
  <2>1. /\ store_rows' = [store_rows EXCEPT ![t][i] = Corrupt] /\ store_writes' = store_writes
        /\ store_call' = store_call /\ store_told' = store_told /\ i # 0
    BY <1>12 DEF Store!Damage
  <2>2. i \in Store!Ids
    BY <1>0, <2>1, LatestType
  <2>3. ReadsNow' = ReadsNow /\ Store!Abstract!Watched
    BY <1>0, <2>1, ReadersOnly DEF Reads
  <2>4. Store!Abstract!Put(t, i, Corrupt)
    BY <2>1, <2>3 DEF Store!Abstract!Put, Store!Abstract!Changes, ReadsNow, Reads
  <2> QED BY <2>2, <2>4 DEF Store!Abstract!Next
<1> QED BY <1>1, <1>2, <1>3, <1>4, <1>5, <1>6, <1>7, <1>8, <1>9, <1>10, <1>11, <1>12 DEF Store!Next

-----------------------------------------------------------------------------

\* The store starts as the memory does.
LEMMA StoreBegins ==
  ASSUME Store!Init
  PROVE  StoreInv /\ Store!Abstract!Init
<1> USE StoreConstants DEF Store!Init
<1>1. Store!Abstract!NoWrites \in Store!WriteSets
  BY DEF Store!Abstract!NoWrites, Store!Abstract!Channels, Store!WriteSets, Store!Channels
<1>2. StoreShape
  BY <1>1 DEF StoreShape
<1>3. \A c \in Callers : ~Reads(c) /\ ~Writer(c)
  BY DEF Reads, Writer
<1>4. StoreWriterOK /\ StoreReaderOK
  BY <1>3 DEF StoreWriterOK, StoreReaderOK
<1>5. Store!Abstract!Init
  BY <1>3 DEF Store!Abstract!Init, Reads
<1> QED BY <1>2, <1>4, <1>5 DEF StoreInv

\* Every step keeps the invariant and is one of the memory's, or none.
LEMMA StoreKeeps ==
  ASSUME StoreInv, [CheckpointingNext]_<<part, vars, storing>>
  PROVE  StoreInv' /\ (Store!Abstract!Next \/ UNCHANGED PromiseVars)
<1>1. CASE Store!Next
  BY <1>1, StoreShapeKept, WritersKept, ReadersKept, StoreStep DEF StoreInv
<1>2. CASE UNCHANGED storing
  <2>1. UNCHANGED PromiseVars
    BY <1>2 DEF storing, PromiseVars, ReadsNow, Reads
  <2>2. StoreShape' /\ StoreWriterOK' /\ StoreReaderOK'
    BY <1>2 DEF storing, StoreInv, StoreShape, StoreWriterOK, StoreReaderOK, Reads, Writer, Now,
                Store!Latest
  <2> QED BY <2>1, <2>2 DEF StoreInv
<1> QED BY <1>1, <1>2 DEF CheckpointingNext

\* The inductive invariant of the store (agent/workflow_checkpointer.py): one
\* writer for a thread, no plain write replaced, and every reader shown what it may be told.
THEOREM StoreStaysSound == CheckpointingSpec => []StoreInv
<1>1. CheckpointingInit => StoreInv
  BY StoreBegins DEF CheckpointingInit
<1>2. StoreInv /\ [CheckpointingNext]_<<part, vars, storing>> => StoreInv'
  BY StoreKeeps
<1> QED BY <1>1, <1>2, PTL DEF CheckpointingSpec

\* PostgresWorkflowCheckpointer behaves as the MemorySaver it is a port of: its
\* transactions, of several statements each and broken at any of them, are calls that take
\* effect whole or not at all, and a get_tuple tells what was there at one moment of it.
THEOREM StoreIsMemorySaver == CheckpointingSpec => IsMemorySaver
<1>1. CheckpointingInit => Store!Abstract!Init
  BY StoreBegins DEF CheckpointingInit
<1>2. StoreInv /\ [CheckpointingNext]_<<part, vars, storing>>
        => [Store!Abstract!Next]_(Store!Abstract!vars)
  BY StoreKeeps DEF Store!Abstract!vars, PromiseVars, ReadsNow, Reads
<1> QED BY <1>1, <1>2, StoreStaysSound, PTL
  DEF CheckpointingSpec, IsMemorySaver, Store!IsMemorySaver, Store!Abstract!Spec
=============================================================================
