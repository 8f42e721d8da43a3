------------------------------ MODULE AgentRun ------------------------------
(***************************************************************************)
(* An agent run of the workbench: a thread that asks the model again and   *)
(* again (agent/agent_loop.py), executes the tools it asks for             *)
(* (agent/execution_tools.py), has every proposed edit decided by a person *)
(* (agent/web_server.py) and writes the approved ones                      *)
(* (agent/write_tools.py).                                                 *)
(***************************************************************************)
EXTENDS Integers

CONSTANTS Runs,          \* agent runs
          Paths, Contents, Original,
          Edits,         \* edit ids (uuid4)
          None,
          MaxToolCalls,  \* MAX_TOOL_CALLS
          MaxBlocks      \* bound: tool_use blocks in one response

Edit == [by : Runs, path : Paths, content : Contents, approved : BOOLEAN, applied : BOOLEAN]

AgentAssumption ==
  /\ None \notin Runs \cup Contents \cup Edits \cup Edit /\ None \notin {"approve", "reject"}
  /\ Original \notin Contents /\ MaxBlocks > 0
  /\ MaxToolCalls \in Nat /\ MaxBlocks \in Nat

VARIABLES
  slot,     \* _CURRENT_RUN_ID
  prompt,   \* _approval_prompt_fn: the run it belongs to, None for the default
  at,       \* where the thread of each run is
  calls,    \* tool_call_count
  blocks,   \* how many blocks of the current response are still to be answered
  asking,   \* the edit whose decision a thread waits for
  edits,    \* _pending_edits; None for an id that is not there
  offered,  \* pending_approvals: the run through which an edit was shown
  answer,   \* the first decision in the queue of an edit
  file      \* the files under the write scope

tools   == <<calls, blocks, asking>>
review  == <<edits, offered, answer, file>>
vars    == <<slot, prompt, at, tools, review>>

Init ==
  /\ slot = None /\ prompt = None
  /\ at = [r \in Runs |-> "idle"]
  /\ calls = [r \in Runs |-> 0] /\ blocks = [r \in Runs |-> 0]
  /\ asking = [r \in Runs |-> None]
  /\ edits = [e \in Edits |-> None] /\ offered = [e \in Edits |-> None]
  /\ answer = [e \in Edits |-> None] /\ file = [p \in Paths |-> Original]

Go(r, from, to) == at[r] = from /\ at' = [at EXCEPT ![r] = to]

-----------------------------------------------------------------------------
(* Start and end of a thread *)

\* start_run: the slot is taken in the handler.
Start(r) ==
  /\ slot = None /\ slot' = r
  /\ Go(r, "idle", "started")
  /\ UNCHANGED <<prompt, tools, review>>

\* _run_agent_thread up to run_agent_loop.
Begin(r) ==
  /\ Go(r, "started", "asks model")
  /\ prompt' = r /\ slot' = r
  /\ UNCHANGED <<tools, review>>

-----------------------------------------------------------------------------
(* run_agent_loop *)

\* The plan is there, or an exception was raised.
LeaveLoop(r, from) ==
  /\ Go(r, from, "ending")
  /\ calls' = [calls EXCEPT ![r] = 0] /\ blocks' = [blocks EXCEPT ![r] = 0]
  /\ UNCHANGED <<slot, prompt, asking, review>>

\* Mutant: tools stay on offer when the budget is spent.
AlwaysEnabled(r) == TRUE
ToolsEnabled(r) == calls[r] < MaxToolCalls

\* messages.create returns: no tool asked for, or
\* none allowed, ends the loop.
AskModel(r) ==
  /\ at[r] = "asks model"
  /\ \/ LeaveLoop(r, "asks model")
     \/ /\ ToolsEnabled(r)
        /\ \E n \in 1..MaxBlocks : blocks' = [blocks EXCEPT ![r] = n]
        /\ Go(r, "asks model", "executes")
        /\ UNCHANGED <<slot, prompt, calls, asking, review>>

\* An exception from the model call or out of a tool.
Raise(r) == \E from \in {"asks model", "executes"} :
              LeaveLoop(r, from)

\* Every block is answered: the results go to the model.
SendResults(r) ==
  /\ blocks[r] = 0 /\ Go(r, "executes", "asks model")
  /\ UNCHANGED <<slot, prompt, tools, review>>

WithinCap(r) == calls[r] < MaxToolCalls

\* The next block is within the cap and is executed; the actions below say what
\* it asks for.
Execute(r) ==
  /\ at[r] = "executes" /\ blocks[r] > 0
  /\ WithinCap(r)
  /\ calls' = [calls EXCEPT ![r] = @ + 1]
  /\ blocks' = [blocks EXCEPT ![r] = @ - 1]
  /\ UNCHANGED <<slot, prompt>>

\* Beyond the cap a block is answered without being executed.
Skip(r) ==
  /\ at[r] = "executes" /\ blocks[r] > 0 /\ ~WithinCap(r)
  /\ blocks' = [blocks EXCEPT ![r] = @ - 1]
  /\ UNCHANGED <<slot, prompt, at, calls, asking, review>>

\* Read-only tools, Maven, and a proposal outside the write scope, which
\* propose_edit refuses.
Look(r) == Execute(r) /\ UNCHANGED <<at, asking, review>>

\* propose_edit, and then the approval prompt that is installed now: the one of
\* a run shows the edit there and waits; the default one finds no terminal and
\* rejects, so the edit is dropped at once.
Propose(r, p, c) ==
  /\ Execute(r)
  /\ IF prompt = None
       THEN UNCHANGED <<at, asking, review>>
       ELSE \E e \in Edits :
              /\ edits[e] = None /\ offered[e] = None
              /\ edits' = [edits EXCEPT ![e] = [by |-> r, path |-> p, content |-> c,
                                                approved |-> FALSE, applied |-> FALSE]]
              /\ offered' = [offered EXCEPT ![e] = prompt]
              /\ asking' = [asking EXCEPT ![r] = e]
              /\ Go(r, "executes", "waits for human")
              /\ UNCHANGED <<answer, file>>

FirstClick(e, d) == IF answer[e] = None THEN d ELSE answer[e]

\* decide: pending_approvals is never cleared, so a decision may be posted
\* again; only the first one in the queue is ever read.
Decide(e, d) ==
  /\ offered[e] # None
  /\ answer' = [answer EXCEPT ![e] = FirstClick(e, d)]
  /\ UNCHANGED <<slot, prompt, at, tools, edits, offered, file>>

\* Mutant: any decision will do.
Decides(d) == d # None
Approves(d) == d = "approve"

\* decision_queue.get() returns: approve_edit or reject_edit.
Decided(r) ==
  LET e == asking[r] IN
  /\ at[r] = "waits for human" /\ answer[e] # None
  /\ edits' = IF Approves(answer[e])
                THEN [edits EXCEPT ![e].approved = TRUE]
                ELSE [edits EXCEPT ![e] = None]
  /\ asking' = [asking EXCEPT ![r] = None]
  /\ Go(r, "waits for human", "executes")
  /\ UNCHANGED <<slot, prompt, calls, blocks, offered, answer, file>>

MayApply(e) == edits[e] # None /\ edits[e].approved /\ ~edits[e].applied

\* apply_edit, for whatever id the model gives; the binding of path and content
\* is that of the record, which nothing changes.
Apply(r, e) ==
  /\ Execute(r)
  /\ IF MayApply(e)
       THEN /\ file' = [file EXCEPT ![edits[e].path] = edits[e].content]
            /\ edits' = [edits EXCEPT ![e].applied = TRUE]
       ELSE UNCHANGED <<file, edits>>
  /\ UNCHANGED <<at, asking, offered, answer>>

-----------------------------------------------------------------------------
(* The `finally` of the thread: prompt, slot, record *)

RestorePrompt(r) ==
  /\ Go(r, "ending", "restored")
  /\ prompt' = None
  /\ UNCHANGED <<slot, tools, review>>

ReleaseSlot(r) ==
  /\ Go(r, "restored", "released")
  /\ slot' = None
  /\ UNCHANGED <<prompt, tools, review>>

\* _persist_run_history, after the slot is free.
Persist(r) ==
  /\ Go(r, "released", "done")
  /\ UNCHANGED <<slot, prompt, tools, review>>

Step(r) ==
  \/ Begin(r) \/ AskModel(r) \/ Raise(r) \/ SendResults(r) \/ Skip(r) \/ Look(r)
  \/ \E p \in Paths, c \in Contents : Propose(r, p, c)
  \/ \E e \in Edits : Apply(r, e)
  \/ Decided(r) \/ RestorePrompt(r)

Finish(r) == ReleaseSlot(r) \/ Persist(r)

Next ==
  \/ \E r \in Runs : Start(r) \/ Step(r) \/ Finish(r)
  \/ \E e \in Edits, d \in {"approve", "reject"} : Decide(e, d)

Spec == Init /\ [][Next]_vars

\* Threads run on, and a person answers every edit that is shown.
Answered(e) == /\ answer[e] = None
               /\ Decide(e, "approve") \/ Decide(e, "reject")
FairSpec ==
  /\ Spec
  /\ \A r \in Runs : WF_vars(Step(r)) /\ WF_vars(Finish(r))
  /\ \A e \in Edits : WF_vars(Answered(e))

-----------------------------------------------------------------------------
(* Properties *)

Places == {"idle", "started", "asks model", "executes", "waits for human",
           "ending", "restored", "released", "done"}

TypeOK ==
  /\ slot \in Runs \cup {None} /\ prompt \in Runs \cup {None}
  /\ at \in [Runs -> Places]
  /\ calls \in [Runs -> 0..MaxToolCalls] /\ blocks \in [Runs -> 0..MaxBlocks]
  /\ asking \in [Runs -> Edits \cup {None}]
  /\ edits \in [Edits -> Edit \cup {None}]
  /\ offered \in [Edits -> Runs \cup {None}]
  /\ answer \in [Edits -> {"approve", "reject", None}]
  /\ file \in [Paths -> Contents \cup {Original}]

\* Whatever stands in the write scope was approved by the first click of a
\* person who was shown exactly this path and content by the run that proposed
\* it, in whatever order runs, clicks and applies come (execution_tools.py, the
\* critical invariant).
WrittenWasApproved ==
  \A p \in Paths : file[p] # Original =>
    \E e \in Edits : /\ edits[e] # None /\ edits[e].applied
                      /\ edits[e].path = p /\ edits[e].content = file[p]
                      /\ answer[e] = "approve" /\ offered[e] = edits[e].by

\* While a run is in its loop, the approval prompt of the process is its own: no
\* edit is shown by another run or rejected by the default prompt
\* (_run_agent_thread: the prompt is put back before the slot is free).
InLoop(r) == at[r] \in {"asks model", "executes", "waits for human"}
PromptIsOwn == \A r \in Runs : InLoop(r) => prompt = r

\* An agent run ends and gives the slot back when people answer: the cap on tool
\* calls bounds the loop.
AgentEnds == \A r \in Runs : at[r] = "started" ~> at[r] = "done"
=============================================================================
