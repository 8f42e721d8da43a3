----------------------------- MODULE MCPlatform -----------------------------
(***************************************************************************)
(* The parts around the workbench.  They share no state with one another,  *)
(* so each is checked by itself: `part` says which one moves.              *)
(***************************************************************************)
EXTENDS Integers, Sequences, FiniteSets, SequencesExt, TLC

CONSTANTS Parts, None
VARIABLE part

\* Every text of up to two characters, and two of three.
Characters == {"letter", "space", "control", "separator", "&", "amp;", "quot;", "<", "quote"}
ShortWords == SeqOf(Characters, 2)
              \cup {<<"letter", "letter", "letter">>, <<"letter", "separator", "letter">>}

-----------------------------------------------------------------------------
(* the list of sessions *)

CONSTANTS KnownSessions, Mocks, Limit, MaxClock, MaxEvents, MaxLate
VARIABLES history_clock, history_ledger, history_spool, history_late, history_cursor,
          history_listed, history_known
history == <<history_clock, history_ledger, history_spool, history_late,
             history_cursor, history_listed, history_known>>

History == INSTANCE SessionHistory WITH
  Runs <- KnownSessions, clock <- history_clock, ledger <- history_ledger,
  spool <- history_spool, late <- history_late, cursor <- history_cursor,
  listed <- history_listed, known <- history_known

-----------------------------------------------------------------------------
(* the verification of a change *)

CONSTANTS Files, MaxFiles, Skippable
VARIABLES gate_change, gate_todo, gate_executed, gate_failed, gate_passed,
          gate_skipped, gate_verdict
gate == <<gate_change, gate_todo, gate_executed, gate_failed, gate_passed,
          gate_skipped, gate_verdict>>

Gate == INSTANCE DeliveryGate WITH
  change <- gate_change, todo <- gate_todo, executed <- gate_executed,
  failed <- gate_failed, passed <- gate_passed, skipped <- gate_skipped,
  verdict <- gate_verdict

-----------------------------------------------------------------------------
(* the demonstration catalogues *)

CONSTANTS Fields, MaxLength, Words
VARIABLES text_surface, text_request, text_before, text_anchors, text_decision,
          text_after
catalogue == <<text_surface, text_request, text_before, text_anchors, text_decision,
               text_after>>

Texts == INSTANCE Catalogue WITH
  surface <- text_surface, request <- text_request, before <- text_before,
  anchors <- text_anchors, decision <- text_decision, after <- text_after

-----------------------------------------------------------------------------
(* the backend change *)

CONSTANTS Baseline, Probe, Foreign, MaxForeign
VARIABLES backend_at, backend_cycle, backend_passed, backend_advice, backend_source,
          backend_deploys, backend_live, backend_since, backend_found, backend_foreign
backend == <<backend_at, backend_cycle, backend_passed, backend_advice, backend_source,
             backend_deploys, backend_live, backend_since, backend_found,
             backend_foreign>>

Backend == INSTANCE BackendChange WITH
  Other <- Foreign,
  at <- backend_at, cycle <- backend_cycle, passed <- backend_passed,
  advice <- backend_advice, source <- backend_source, deploys <- backend_deploys,
  live <- backend_live, since <- backend_since, found <- backend_found,
  foreign <- backend_foreign

-----------------------------------------------------------------------------
(* the search index *)

CONSTANTS Docs, Models, Chunkings, MaxVersion, MaxBuilds
VARIABLES index_repo, index_setup, index_disk, index_step, index_old, index_build,
          index_left, index_builds, index_loaded, index_answer
index == <<index_repo, index_setup, index_disk, index_step, index_old, index_build,
           index_left, index_builds, index_loaded, index_answer>>

Index == INSTANCE CodeIndex WITH
  repo <- index_repo, setup <- index_setup, disk <- index_disk, step <- index_step,
  old <- index_old, build <- index_build, left <- index_left, builds <- index_builds,
  loaded <- index_loaded, answer <- index_answer

-----------------------------------------------------------------------------
(* the parts of a document *)

CONSTANTS MaxLines, Size, Overlap, Large
VARIABLE chunks_lines
chunks == <<chunks_lines>>

Chunks == INSTANCE TextChunks WITH
  lines <- chunks_lines

-----------------------------------------------------------------------------
(* the match with a job description *)

CONSTANTS Matches, Requirements, Capabilities, ShortlistSize, DailyCap, MaxDays
VARIABLES match_at, match_reqs, match_short, match_rows, match_status, match_count,
          match_recent, match_days, match_calls
match == <<match_at, match_reqs, match_short, match_rows, match_status, match_count,
           match_recent, match_days, match_calls>>

LevelOf == [c \in Capabilities |-> IF c = CHOOSE x \in Capabilities : TRUE THEN 2 ELSE 1]

Match == INSTANCE JdMatch WITH
  Level <- LevelOf, at <- match_at, reqs <- match_reqs, short <- match_short,
  rows <- match_rows, status <- match_status, count <- match_count,
  recent <- match_recent, days <- match_days, calls <- match_calls

-----------------------------------------------------------------------------
(* the applications *)

CONSTANTS Packs, Appliers, MaxTaps
VARIABLES queue_file, queue_taps, queue_tapped, queue_work, queue_sent, queue_trouble
queue == <<queue_file, queue_taps, queue_tapped, queue_work, queue_sent, queue_trouble>>

Queue == INSTANCE ApplyQueue WITH
  Workers <- Appliers,
  file <- queue_file, taps <- queue_taps, tapped <- queue_tapped, work <- queue_work,
  sent <- queue_sent, trouble <- queue_trouble

-----------------------------------------------------------------------------
(* the outbox and its consumers *)

CONSTANTS Events, Relays, NotificationListeners, BillingSyncListeners, BatchSize,
          MaxAttempts, MaxFaults
VARIABLES outbox_created, outbox_committed, outbox_published, outbox_batch,
          outbox_acked, outbox_failed, outbox_topic, outbox_offset, outbox_owner,
          outbox_position, outbox_tries, outbox_job, outbox_overlapped,
          outbox_processed, outbox_effects, outbox_dead, outbox_faults
outbox == <<outbox_created, outbox_committed, outbox_published, outbox_batch,
            outbox_acked, outbox_failed, outbox_topic, outbox_offset, outbox_owner,
            outbox_position, outbox_tries, outbox_job, outbox_overlapped,
            outbox_processed, outbox_effects, outbox_dead, outbox_faults>>

Outboxes == INSTANCE MCOutbox WITH
  created <- outbox_created, committed <- outbox_committed,
  published <- outbox_published, batch <- outbox_batch, acked <- outbox_acked,
  failed <- outbox_failed, topic <- outbox_topic, offset <- outbox_offset,
  owner <- outbox_owner, position <- outbox_position, tries <- outbox_tries,
  job <- outbox_job, overlapped <- outbox_overlapped, processed <- outbox_processed,
  effects <- outbox_effects, dead <- outbox_dead, faults <- outbox_faults

-----------------------------------------------------------------------------
(* the accounts of usage *)

CONSTANTS HookSessions, Subagents, Reported, Priced, Unpriced, Label, MaxTurns, MaxEnds,
          MaxWork
VARIABLES usage_open, usage_transcript, usage_work, usage_ends, usage_read, usage_past,
          usage_imported, usage_ledger, usage_spool
usage == <<usage_open, usage_transcript, usage_work, usage_ends, usage_read, usage_past,
           usage_imported, usage_ledger, usage_spool>>

Accounts == INSTANCE UsageAccounts WITH
  Sessions <- HookSessions, Runs <- Reported, MaxLines <- MaxTurns,
  open <- usage_open, transcript <- usage_transcript, work <- usage_work,
  ends <- usage_ends, read <- usage_read, past <- usage_past,
  imported <- usage_imported, ledger <- usage_ledger, spool <- usage_spool

-----------------------------------------------------------------------------
(* the evidence of a run *)

CONSTANTS MaxTrainerRuns, MaxCalls
VARIABLES run_way, run_said, run_clock, run_ledger, run_spool, run_late, run_calls,
          run_heard, run_reading
evidence == <<run_way, run_said, run_clock, run_ledger, run_spool, run_late, run_calls,
              run_heard, run_reading>>

Shown == INSTANCE RunEvidence WITH
  MaxRuns <- MaxTrainerRuns, way <- run_way, said <- run_said, clock <- run_clock,
  ledger <- run_ledger, spool <- run_spool, late <- run_late, calls <- run_calls,
  heard <- run_heard, reading <- run_reading

-----------------------------------------------------------------------------
(* the windows of the usage page *)

CONSTANTS Hours, WeekDays, MonthDays, LastHour, Winter, Spring, Autumn, MaxSummaries
VARIABLES window_now, window_runs
window == <<window_now, window_runs>>

Windows == INSTANCE UsageWindows WITH
  MaxRuns <- MaxSummaries, now <- window_now, runs <- window_runs

-----------------------------------------------------------------------------
(* the published numbers *)

CONSTANTS MaxChangedInputs
VARIABLES publish_reports, publish_file, publish_unhashed, publish_snap, publish_page,
          publish_run, publish_disturbed, publish_edits
publishing == <<publish_reports, publish_file, publish_unhashed, publish_snap,
                publish_page, publish_run, publish_disturbed, publish_edits>>

\* Contents 1 together are at the thresholds; with content 2, hashed or not, one score is
\* below and one has no case.
Enough == [recall_at_3 |-> 2, security_case_accuracy |-> 3]
TooLow == [recall_at_3 |-> 1, security_case_accuracy |-> None]
Publishers == INSTANCE Publishing WITH
  Kinds <- {"eval", "triage"}, Contents <- {1, 2},
  Scores <- <<<<Enough, TooLow>>, <<TooLow, TooLow>>>>,
  Threshold <- Enough, Verbatim <- {1}, MaxEdits <- MaxChangedInputs,
  reports <- publish_reports, file <- publish_file, unhashed <- publish_unhashed,
  snap <- publish_snap, page <- publish_page, run <- publish_run, disturbed <- publish_disturbed,
  edits <- publish_edits

-----------------------------------------------------------------------------
(* What the interview puts before its model *)

CONSTANTS TopK, MaxChunks, MaxEmployers
VARIABLES ground_question, ground_ranked, ground_hits, ground_line, ground_outcome
grounding == <<ground_question, ground_ranked, ground_hits, ground_line,
               ground_outcome>>

Grounds == INSTANCE Grounding WITH
  question <- ground_question, ranked <- ground_ranked, hits <- ground_hits,
  line <- ground_line, outcome <- ground_outcome

-----------------------------------------------------------------------------
(* Real usage of models, and whom it is charged to *)

CONSTANTS Agents, Trainers, Visitors, MaxSwitches, MaxRecorded
VARIABLES charge_slot, charge_at, charge_start, charge_events, charge_rows,
          charge_phase, charge_asked, charge_enabled, charge_switches,
          charge_streamed, charge_history, charge_since
charging == <<charge_slot, charge_at, charge_start, charge_events, charge_rows,
              charge_phase, charge_asked, charge_enabled, charge_switches,
              charge_streamed, charge_history, charge_since>>

Charges == INSTANCE ModelUsage WITH
  MaxEvents <- MaxRecorded, slot <- charge_slot, at <- charge_at,
  start <- charge_start, events <- charge_events, rows <- charge_rows,
  phase <- charge_phase, asked <- charge_asked, enabled <- charge_enabled,
  switches <- charge_switches, streamed <- charge_streamed,
  history <- charge_history, since <- charge_since

-----------------------------------------------------------------------------
ASSUME PlatformAssumption ==
  /\ History!HistoryAssumption
  /\ Gate!GateAssumption
  /\ Texts!CatalogueAssumption
  /\ Backend!BackendAssumption
  /\ Index!IndexAssumption
  /\ Chunks!ChunksAssumption
  /\ Match!JdAssumption
  /\ Queue!QueueAssumption
  /\ Outboxes!OutboxAssumption
  /\ Accounts!UsageAssumption
  /\ Shown!EvidenceAssumption
  /\ Windows!WindowsAssumption
  /\ Publishers!PublishingAssumption
  /\ Grounds!GroundingAssumption
  /\ Charges!UsageAssumption

\* Owners start anywhere, so relays, events and listeners are alike.
Alike == Outboxes!Alike

vars == <<part, history, gate, catalogue, backend, index, chunks, match, queue,
          outbox, usage, evidence, window, publishing, grounding, charging>>

Init ==
  /\ part \in Parts
  /\ History!Init
  /\ Gate!Init
  /\ Texts!Init
  /\ Backend!Init
  /\ Index!Init
  /\ Chunks!Init
  /\ Match!Init
  /\ Queue!Init
  /\ Outboxes!Init
  /\ Accounts!Init
  /\ Shown!Init
  /\ Windows!Init
  /\ Publishers!Init
  /\ Grounds!Init
  /\ Charges!Init
  /\ part # "gate" => gate_change = {"docs"}
  /\ part # "publish" => /\ \A f \in DOMAIN publish_file : publish_file[f] = 1
                         /\ publish_unhashed = 1

Next ==
  \/ /\ part = "history" /\ History!Next
     /\ UNCHANGED <<part, gate, catalogue, backend, index, chunks, match, queue,
                    outbox, usage, evidence, window, publishing, grounding,
                    charging>>
  \/ /\ part = "gate" /\ Gate!Next
     /\ UNCHANGED <<part, history, catalogue, backend, index, chunks, match, queue,
                    outbox, usage, evidence, window, publishing, grounding,
                    charging>>
  \/ /\ part = "text" /\ Texts!Next
     /\ UNCHANGED <<part, history, gate, backend, index, chunks, match, queue,
                    outbox, usage, evidence, window, publishing, grounding,
                    charging>>
  \/ /\ part = "backend" /\ Backend!Next
     /\ UNCHANGED <<part, history, gate, catalogue, index, chunks, match, queue,
                    outbox, usage, evidence, window, publishing, grounding,
                    charging>>
  \/ /\ part = "index" /\ Index!Next
     /\ UNCHANGED <<part, history, gate, catalogue, backend, chunks, match, queue,
                    outbox, usage, evidence, window, publishing, grounding,
                    charging>>
  \/ /\ part = "chunks" /\ Chunks!Next
     /\ UNCHANGED <<part, history, gate, catalogue, backend, index, match, queue,
                    outbox, usage, evidence, window, publishing, grounding,
                    charging>>
  \/ /\ part = "match" /\ Match!Next
     /\ UNCHANGED <<part, history, gate, catalogue, backend, index, chunks, queue,
                    outbox, usage, evidence, window, publishing, grounding,
                    charging>>
  \/ /\ part = "queue" /\ Queue!Next
     /\ UNCHANGED <<part, history, gate, catalogue, backend, index, chunks, match,
                    outbox, usage, evidence, window, publishing, grounding,
                    charging>>
  \/ /\ part = "outbox" /\ Outboxes!Next
     /\ UNCHANGED <<part, history, gate, catalogue, backend, index, chunks, match,
                    queue, usage, evidence, window, publishing, grounding, charging>>
  \/ /\ part = "usage" /\ Accounts!Next
     /\ UNCHANGED <<part, history, gate, catalogue, backend, index, chunks, match,
                    queue, outbox, evidence, window, publishing, grounding,
                    charging>>
  \/ /\ part = "evidence" /\ Shown!Next
     /\ UNCHANGED <<part, history, gate, catalogue, backend, index, chunks, match,
                    queue, outbox, usage, window, publishing, grounding, charging>>
  \/ /\ part = "window" /\ Windows!Next
     /\ UNCHANGED <<part, history, gate, catalogue, backend, index, chunks, match,
                    queue, outbox, usage, evidence, publishing, grounding, charging>>
  \/ /\ part = "publish" /\ Publishers!Next
     /\ UNCHANGED <<part, history, gate, catalogue, backend, index, chunks, match,
                    queue, outbox, usage, evidence, window, grounding, charging>>
  \/ /\ part = "ground" /\ Grounds!Next
     /\ UNCHANGED <<part, history, gate, catalogue, backend, index, chunks, match,
                    queue, outbox, usage, evidence, window, publishing, charging>>
  \/ /\ part = "charge" /\ Charges!Next
     /\ UNCHANGED <<part, history, gate, catalogue, backend, index, chunks, match,
                    queue, outbox, usage, evidence, window, publishing, grounding>>

Spec == Init /\ [][Next]_vars

-----------------------------------------------------------------------------
\* A reader who follows next_cursor to the end has seen every session that was there
\* (session_history.list_sessions).
PagesComplete == History!PagesComplete
\* When a change without an unrecognized file is PASSED, every test it calls for was
\* run or was skipped, and none was skipped with a file of high risk
\* (verify_change.execute).
PassedIsVerified == Gate!PassedIsVerified
\* What is committed differs from the file by the requested text alone, on the page
\* the owner's (demo_catalogue.apply_operation, backend_catalogue.apply_operation).
EditIsExact == Texts!EditIsExact
\* After a verdict of success production shows the baseline again
\* (backend_acceptance.main).
ProbeIsGone == Backend!ProbeIsGone
\* Every line of a document, as far as it was read, is in one of its parts
\* (backend_rag_index.chunk_document),
\* and an index of parts that was built in steps is the one a full build would
\* give (rag_index.build_index).
CorpusIsFull == Chunks!NoLineIsLost /\ Index!IncrementalIsFull
\* A shown row claims no more than the registry records (jd_match.validate_assessments).
RowsAreEarned == Match!RowsAreEarned
\* An application is submitted once, unless the file was misread or lost, two workers
\* took it, or it was set back (applications_apply_queue.update_item).
AppliedOnce == Queue!AppliedOnce
\* What happened once is counted once (claude_code_hook.main, event_ledger.backfill_*).
CountedOnce == Accounts!CountedOnce
\* The run behind "See a verified run" changed production
\* (session_history.get_latest_verified_workbench_run_id).
VerifiedIsReal == Shown!VerifiedIsReal
\* Today, this week and this month are those of the local calendar
\* (event_ledger.compute_display_windows).
WindowsAreLocal == Windows!WindowsAreLocal
\* The relay marks only what it has sent and keeps the order of the events it could
\* send (OutboxPublisher), no
\* consumer moves past an event it has not handled (ContractPlanBillingSyncConsumer),
\* and a plan is billed once, unless its delivery was handed over (ProcessedEvent).
BillsAreRight == /\ Outboxes!PublishedIsOnTopic
                 /\ Outboxes!InOrderUnlessFailed
                 /\ Outboxes!NothingSkipped
                 /\ Outboxes!BilledOnceUnlessOverlapped
\* Green tests of CI mean that the published numbers are of the hashed inputs in the
\* tree, with the verdict of CI's gate unless something changed that no hash covers
\* (publish_eval_results.py, publish_recruiters_page.py).
GreenIsTrue == part = "publish" => Publishers!GreenIsTrue
\* The excerpts of an answer are shared fairly (standing_interview.retrieve).
ExcerptsAreFair == part = "ground" => Grounds!ExcerptsAreFair
\* The record of a run keeps its own calls and none from before it was let in, and the
\* ledger's rows of agent runs name the run that made the call; the record may hold the
\* calls of others beside (web_server._on_model_usage, _persist_run_history, metrics.py).
OwnCallsAreCharged == part = "charge" => Charges!OwnCallsAreCharged
=============================================================================
