---------------------------- MODULE MCWorkbench -----------------------------
(***************************************************************************)
(* The parts of the workbench that share no state with one another (Delivery*)
(* and AgentRun each have the run slot, seen from their side).  Each is    *)
(* checked by itself: `part` says which one moves.                         *)
(***************************************************************************)
EXTENDS Integers, Sequences, FiniteSets

CONSTANTS Parts, None
VARIABLE part

-----------------------------------------------------------------------------
(* the run slot and what is deployed *)

CONSTANTS Trainers, Resets, Agents, Promotions, Values, Baseline, MaxCandidates
VARIABLES delivery_slot, delivery_cooling, delivery_place, delivery_want,
          delivery_since, delivery_found, delivery_verdict, delivery_log,
          delivery_moved, delivery_deploys, delivery_live, delivery_verified,
          delivery_candidates, delivery_entry, delivery_promoted
delivery == <<delivery_slot, delivery_cooling, delivery_place, delivery_want,
              delivery_since, delivery_found, delivery_verdict, delivery_log,
              delivery_moved, delivery_deploys, delivery_live, delivery_verified,
              delivery_candidates, delivery_entry, delivery_promoted>>

Deliver == INSTANCE MCDelivery WITH
  slot <- delivery_slot, cooling <- delivery_cooling, place <- delivery_place,
  want <- delivery_want, since <- delivery_since, found <- delivery_found,
  verdict <- delivery_verdict, log <- delivery_log, moved <- delivery_moved,
  deploys <- delivery_deploys, live <- delivery_live, verified <- delivery_verified,
  candidates <- delivery_candidates, entry <- delivery_entry,
  promoted <- delivery_promoted

-----------------------------------------------------------------------------
(* agent runs *)

CONSTANTS Runs, Paths, Contents, Original, Edits, MaxToolCalls, MaxBlocks
VARIABLES agent_slot, agent_prompt, agent_at, agent_calls, agent_blocks, agent_asking,
          agent_edits, agent_offered, agent_answer, agent_file
agent == <<agent_slot, agent_prompt, agent_at, agent_calls, agent_blocks, agent_asking,
           agent_edits, agent_offered, agent_answer, agent_file>>

Agent == INSTANCE AgentRun WITH
  slot <- agent_slot, prompt <- agent_prompt, at <- agent_at, calls <- agent_calls,
  blocks <- agent_blocks, asking <- agent_asking, edits <- agent_edits,
  offered <- agent_offered, answer <- agent_answer, file <- agent_file

-----------------------------------------------------------------------------
(* the page of a run *)

CONSTANTS Kinds, MaxWork, MaxReconnects
VARIABLES stream_kind, stream_outcome, stream_todo, stream_status, stream_log,
          stream_gen, stream_sent, stream_fresh, stream_wire, stream_silent,
          stream_again, stream_poll, stream_shown, stream_finished, stream_closed
stream == <<stream_kind, stream_outcome, stream_todo, stream_status, stream_log,
            stream_gen, stream_sent, stream_fresh, stream_wire, stream_silent,
            stream_again, stream_poll, stream_shown, stream_finished, stream_closed>>

Stream == INSTANCE RunStream WITH
  kind <- stream_kind, outcome <- stream_outcome, todo <- stream_todo,
  status <- stream_status, log <- stream_log, gen <- stream_gen, sent <- stream_sent,
  fresh <- stream_fresh, wire <- stream_wire, silent <- stream_silent,
  again <- stream_again, poll <- stream_poll, shown <- stream_shown,
  finished <- stream_finished, closed <- stream_closed

-----------------------------------------------------------------------------
(* the interview *)

CONSTANTS Asks, Visitors, Operator, DailyMax, VisitorMax, MaxDays
VARIABLES si_at, si_who, si_text, si_outcome, si_answers, si_count, si_recent, si_days,
          si_reached, si_overlapped
interview == <<si_at, si_who, si_text, si_outcome, si_answers, si_count, si_recent,
               si_days, si_reached, si_overlapped>>

SI == INSTANCE Interview WITH
  at <- si_at, who <- si_who, text <- si_text, outcome <- si_outcome,
  answers <- si_answers, count <- si_count, recent <- si_recent, days <- si_days,
  reached <- si_reached, overlapped <- si_overlapped

-----------------------------------------------------------------------------
(* the model steps of the Triage Lab *)

CONSTANTS Clicks, Scenarios
VARIABLES lab_at, lab_request, lab_verdict, lab_status, lab_total, lab_used,
          lab_recent, lab_days, lab_calls, lab_candidates
lab == <<lab_at, lab_request, lab_verdict, lab_status, lab_total, lab_used, lab_recent,
         lab_days, lab_calls, lab_candidates>>

Lab == INSTANCE TriageRepair WITH
  Owner <- Operator, at <- lab_at, request <- lab_request, verdict <- lab_verdict,
  status <- lab_status, total <- lab_total, used <- lab_used, recent <- lab_recent,
  days <- lab_days, calls <- lab_calls, candidates <- lab_candidates

-----------------------------------------------------------------------------
(* the scenarios of the Triage Lab *)

CONSTANTS Visits, Offers, MaxResets, MaxExpiries
VARIABLES scene_redis, scene_lock, scene_plans, scene_events, scene_customer,
          scene_fixed, scene_at, scene_question, scene_on, scene_turn, scene_read,
          scene_own, scene_before, scene_ran, scene_result, scene_overlapped,
          scene_expiries
scene == <<scene_redis, scene_lock, scene_plans, scene_events, scene_customer,
           scene_fixed, scene_at, scene_question, scene_on, scene_turn, scene_read,
           scene_own, scene_before, scene_ran, scene_result, scene_overlapped,
           scene_expiries>>

Scene == INSTANCE TriageScenario WITH
  Requests <- Visits, Terms <- Offers, redis <- scene_redis, lock <- scene_lock,
  plans <- scene_plans, events <- scene_events, customer <- scene_customer,
  fixed <- scene_fixed, at <- scene_at, question <- scene_question, on <- scene_on,
  turn <- scene_turn, read <- scene_read, own <- scene_own, before <- scene_before,
  ran <- scene_ran, result <- scene_result, overlapped <- scene_overlapped,
  expiries <- scene_expiries

-----------------------------------------------------------------------------
(* One reset by the clocks of the platform and of this machine *)

CONSTANTS MaxTime, MaxDrift, MaxPolls, MaxChecks, MaxOthers
VARIABLES reset_now, reset_step, reset_slot, reset_workspace, reset_trigger,
          reset_records, reset_own, reset_live, reset_polls, reset_checks,
          reset_found, reset_verdict, reset_shown
resetting == <<reset_now, reset_step, reset_slot, reset_workspace, reset_trigger,
               reset_records, reset_own, reset_live, reset_polls, reset_checks,
               reset_found, reset_verdict, reset_shown>>

Reset == INSTANCE DemoReset WITH
  now <- reset_now, step <- reset_step, slot <- reset_slot,
  workspace <- reset_workspace, trigger <- reset_trigger, records <- reset_records,
  own <- reset_own, live <- reset_live, polls <- reset_polls, checks <- reset_checks,
  found <- reset_found, verdict <- reset_verdict, shown <- reset_shown

-----------------------------------------------------------------------------
(* Advice about the code from the curated index *)

CONSTANTS Chunks, Sources, Invented, TopK
VARIABLES advice_source, advice_score, advice_health, advice_text, advice_step,
          advice_route, advice_found, advice_context, advice_prompt, advice_analysis,
          advice_grounded, advice_told
advising == <<advice_source, advice_score, advice_health, advice_text, advice_step,
              advice_route, advice_found, advice_context, advice_prompt,
              advice_analysis, advice_grounded, advice_told>>

Adviser == INSTANCE Advice WITH
  source <- advice_source, score <- advice_score, health <- advice_health,
  text <- advice_text, step <- advice_step, route <- advice_route,
  found <- advice_found, context <- advice_context, prompt <- advice_prompt,
  analysis <- advice_analysis, grounded <- advice_grounded, told <- advice_told

-----------------------------------------------------------------------------
ASSUME WorkbenchAssumption ==
  /\ Deliver!DeliveryAssumption
  /\ Agent!AgentAssumption
  /\ Stream!StreamAssumption
  /\ SI!InterviewAssumption
  /\ Lab!TriageAssumption
  /\ Scene!ScenarioAssumption
  /\ Reset!ResetAssumption
  /\ Adviser!AdviceAssumption

vars == <<part, delivery, agent, stream, interview, lab, scene, resetting,
          advising>>

Init ==
  /\ part \in Parts
  /\ Deliver!Init
  /\ Agent!Init
  /\ Stream!Init
  /\ SI!Init
  /\ Lab!Init
  /\ Scene!Init
  /\ Reset!Init
  /\ Adviser!Init
  /\ part # "stream" => stream_kind = "trainer"
  /\ part # "scene" => scene_redis
  /\ part # "reset" => reset_live = "baseline" /\ reset_records[1].status = "SUCCESS"
  /\ part # "advice" =>
       /\ advice_source = [c \in Chunks |-> CHOOSE f \in Sources : TRUE]
       /\ advice_health = "good"
       /\ advice_text = [blocked |-> FALSE, static |-> FALSE, backend |-> TRUE]

Next ==
  \/ /\ part = "delivery" /\ Deliver!Next
     /\ UNCHANGED <<part, agent, stream, interview, lab, scene, resetting,
                    advising>>
  \/ /\ part = "agent" /\ Agent!Next
     /\ UNCHANGED <<part, delivery, stream, interview, lab, scene, resetting,
                    advising>>
  \/ /\ part = "stream" /\ Stream!Next
     /\ UNCHANGED <<part, delivery, agent, interview, lab, scene, resetting,
                    advising>>
  \/ /\ part = "interview" /\ SI!Next
     /\ UNCHANGED <<part, delivery, agent, stream, lab, scene, resetting,
                    advising>>
  \/ /\ part = "lab" /\ Lab!Next
     /\ UNCHANGED <<part, delivery, agent, stream, interview, scene,
                    resetting, advising>>
  \/ /\ part = "scene" /\ Scene!Next
     /\ UNCHANGED <<part, delivery, agent, stream, interview, lab, resetting,
                    advising>>
  \/ /\ part = "reset" /\ Reset!Next
     /\ UNCHANGED <<part, delivery, agent, stream, interview, lab, scene,
                    advising>>
  \/ /\ part = "advice" /\ Adviser!Next
     /\ UNCHANGED <<part, delivery, agent, stream, interview, lab, scene,
                    resetting>>

Spec == Init /\ [][Next]_vars

-----------------------------------------------------------------------------
\* Two runs never work on production at once (web_server._RUN_LOCK).
SlotIsTheRunning == part = "delivery" => Deliver!SlotIsTheRunning
\* A run reports on its own deployment (demo_execution.wait_for_new_deployment).
VerdictIsOwn == part = "delivery" => Deliver!VerdictIsOwn
\* Production shows what the last run was asked for (web_server._run_trainer_thread).
LastCompletedIsLive == part = "delivery" => Deliver!LastCompletedIsLive
\* A file is only ever what a human was shown in the run that asked, and approved
\* (write_tools.apply_edit), and no run's edits are shown by another run or rejected
\* by the prompt of the command line (_run_agent_thread).
WrittenWasApproved ==
  part = "agent" => Agent!WrittenWasApproved /\ Agent!PromptIsOwn
\* A page applies the events of its run once each and in order
\* (workbench.js, applyEventIfNew; web_server._generate_run_events).
ShownInOrder == part = "stream" => Stream!ShownInOrder
\* A page that stops listening to a failed trainer run shows why
\* (workbench.js, pollOnce and finishRun; web_server._run_trainer_thread).
ReasonIsShown == part = "stream" => Stream!ReasonIsShown
\* The budget of the interview bounds the answers of a day (si_budget.check), and
\* what is shown has passed the scan (standing_interview.answer); the budget of the
\* Triage Lab bounds the calls (triage_budget.check_and_reserve), and what is kept for
\* promotion has passed its tests (web_server.triage_generate_candidate).
BudgetsAndGatesHold ==
  /\ part = "interview" => SI!BudgetHolds /\ SI!ShownIsClean
  /\ part = "lab" => Lab!CallsWithinCap /\ Lab!KeptPassed
\* Each change of a plan makes one event, however often it is asked for
\* (ContractPlanService.enroll).
NoEventTwice == part = "scene" => Scene!NoEventTwice
\* With its lock, enrollments never run into the index
\* (ContractPlanService.registerLockReleaseAfterTransaction).
LoserIsToldToRetry == part = "scene" => Scene!LoserIsToldToRetry
\* A reproduction shows what this run of it did (TriageScenarioAService.reproduce).
VerdictIsOfThisRun == part = "scene" => Scene!VerdictIsOfThisRun
\* A reset reports the deployment that it triggered
\* (demo_execution.wait_for_new_deployment, web_server._run_reset_thread).
WaitTellsTruth == part = "reset" => Reset!WaitTellsTruth
\* What is said about the code names files the index holds
\* (backend_planning.analyze_with_llm, ask_codebase.ask).
AdviceIsGrounded == part = "advice" => Adviser!AdviceIsGrounded
=============================================================================
