------------------------------- MODULE MCLive -------------------------------
(***************************************************************************)
(* What the runs of the workbench must do in the end.  The parts share no  *)
(* state here (Delivery and AgentRun each have the run slot, seen from     *)
(* their side), so each is checked by itself: `part` says which one moves, *)
(* and fairness is assumed of that part alone.                             *)
(***************************************************************************)
EXTENDS Sequences, FiniteSets, Integers

CONSTANTS Parts, None
VARIABLE part

-----------------------------------------------------------------------------
CONSTANTS Workflows, Bindings, Free, PushConfigured, DiskSurvives, LogMayFail,
          MaxRequests, MaxCrashes
VARIABLES lock, phase, answer, out, ckpt, pend, ws, remote, commits, inbox, decisions,
          requests, crashes
workflow == <<lock, phase, answer, out, ckpt, pend, ws, remote, commits, inbox, decisions,
              requests, crashes>>

Workflow == INSTANCE WorkflowProperties

-----------------------------------------------------------------------------
CONSTANTS Trainers, Resets, Agents, Promotions, Values, Baseline, MaxCandidates
VARIABLES slot, cooling, place, want, since, found, verdict, ended, moved, deploys, live,
          verified, candidates, entry, promoted
delivery == <<slot, cooling, place, want, since, found, verdict, ended, moved, deploys, live,
              verified, candidates, entry, promoted>>

Deliver == INSTANCE MCDelivery WITH log <- ended

-----------------------------------------------------------------------------
CONSTANTS Runs, Paths, Contents, Original, Edits, MaxToolCalls, MaxBlocks
VARIABLES agent_slot, agent_prompt, agent_at, agent_calls, agent_blocks, agent_asking,
          agent_edits, agent_offered, agent_answer, agent_file
agent == <<agent_slot, agent_prompt, agent_at, agent_calls, agent_blocks, agent_asking,
           agent_edits, agent_offered, agent_answer, agent_file>>

Agent == INSTANCE AgentRun WITH
  slot <- agent_slot, prompt <- agent_prompt, at <- agent_at, calls <- agent_calls,
  blocks <- agent_blocks, asking <- agent_asking, edits <- agent_edits,
  offered <- agent_offered, answer <- agent_answer, file <- agent_file

-----------------------------------------------------------------------------
ASSUME LiveAssumption == Agent!AgentAssumption

vars == <<part, workflow, delivery, agent>>

Init == /\ part \in Parts
        /\ Workflow!Init /\ Deliver!Init /\ Agent!Init

Next ==
  \/ part = "workflow" /\ Workflow!Next /\ UNCHANGED <<part, delivery, agent>>
  \/ part = "delivery" /\ Deliver!Next  /\ UNCHANGED <<part, workflow, agent>>
  \/ part = "agent"    /\ Agent!Next    /\ UNCHANGED <<part, workflow, delivery>>

\* The fairness of each module's FairSpec, for the part that moves.
WorkflowFair ==
  /\ WF_workflow(part = "workflow" /\ Workflow!GraphStep)
  /\ \A w \in Workflows : WF_workflow(part = "workflow" /\ Workflow!Continue(w))
DeliveryFair ==
  \A j \in Trainers \cup Resets : WF_delivery(part = "delivery" /\ Deliver!RunStep(j))
AgentFair ==
  /\ \A r \in Runs : WF_agent(part = "agent" /\ Agent!Step(r))
  /\ \A r \in Runs : WF_agent(part = "agent" /\ Agent!Finish(r))
  /\ \A e \in Edits : WF_agent(part = "agent" /\ Agent!Answered(e))

FairSpec == Init /\ [][Next]_vars /\ WorkflowFair /\ DeliveryFair /\ AgentFair

-----------------------------------------------------------------------------
\* Every workflow past its input checkpoint ends or waits for a human
\* (durable_workflow.build_graph, web_server._workflow_guarded), and an approved
\* one ends (durable_workflow.continue_workflow).
WorkflowsEnd == Workflow!Settles /\ Workflow!ApprovedEnds
\* A trainer run or a reset gives the slot back (web_server._run_trainer_thread),
\* and so does an agent run whose edits are answered (_run_agent_thread).
SlotsComeFree == Deliver!SlotComesFree /\ Agent!AgentEnds
=============================================================================
