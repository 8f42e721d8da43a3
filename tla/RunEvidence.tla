---------------------------- MODULE RunEvidence ----------------------------
(***************************************************************************)
(* What the public pages say of a trainer run, from the ledger alone       *)
(* (agent/session_history.py): the link to the latest verified run, the    *)
(* evidence beside it, and how far its figures are captured.  Runs go on   *)
(* and events arrive late while the pages are read.                        *)
(***************************************************************************)
EXTENDS Integers, Sequences, FiniteSets

CONSTANTS MaxRuns,  \* bound: trainer runs, one after the other (the run slot)
          MaxLate,  \* bound: events that go through the spool
          MaxCalls, \* bound: model calls beside the runs
          None

EvidenceAssumption == MaxRuns \in Nat \ {0} /\ {MaxLate, MaxCalls} \subseteq Nat

\* The ways through _run_trainer_thread.
Ways == {"clone failed", "no change", "commit failed", "deploy failed", "unknown",
         "wrong content", "changed", "redeployed"}
Changes(way) == way \notin {"clone failed", "no change", "redeployed"}
Commits(way) == way \notin {"clone failed", "no change", "commit failed"}
Deploys(way) == Commits(way) /\ way # "deploy failed"

Outcome(way) ==
  CASE way \in {"changed", "redeployed"} -> "COMPLETED"
    [] way = "no change"                 -> "NO_CHANGE_NEEDED"
    [] way = "unknown"                   -> "DEPLOYMENT_STATUS_UNKNOWN"
    [] OTHER                             -> "FAILED"

\* _canonical_event_type, for the events of a run in the order of the thread.
If(b, s) == IF b THEN s ELSE <<>>
Working(way) ==
  <<"run_started", "risk_assessment">>
  \o If(Changes(way), <<"diff">>)
  \o If(Changes(way) \/ way = "redeployed", <<"testing">>)
  \o If(Commits(way), <<"commit_created", "push">>)
  \o If(Deploys(way),
        <<IF Outcome(way) = "COMPLETED" THEN "deployment_completed" ELSE "deployment_status">>)
Ending(way) ==
  (CASE Outcome(way) = "COMPLETED"        -> <<"stage_completed", "run_completed">>
     [] Outcome(way) = "NO_CHANGE_NEEDED" -> <<"run_no_change", "run_completed">>
     [] Outcome(way) = "FAILED"           -> <<"error", "run_failed">>
     [] OTHER                             -> <<"error", "deployment_status_unknown">>)
  \o <<"run_usage_summary">>

VARIABLES
  way,     \* of every run so far; the last one is in the slot until it has ended
  said,    \* how many of its events the last run has emitted
  clock,   \* the time: one event at an instant
  ledger,  \* delivery_events of the runs
  spool,   \* events on their way through the spool
  late,    \* how many have gone that way
  calls,   \* model calls beside the runs
  heard,   \* whether there was one since the last run began
  reading  \* the run a call was noted for, before its envelope has a time

vars == <<way, said, clock, ledger, spool, late, calls, heard, reading>>

Init == /\ way = <<>> /\ said = 0 /\ clock = 0 /\ ledger = {} /\ spool = {}
        /\ late = 0 /\ calls = 0 /\ heard = FALSE /\ reading = None

Run == Len(way)
Course == IF Run = 0 THEN <<>> ELSE Working(way[Run]) \o Ending(way[Run])
Over == said = Len(Course)
\* The slot is released before the usage summary is emitted.
Slot == IF Run > 0 /\ said < Len(Course) - 1 THEN Run ELSE None

Record(row) ==
  \/ ledger' = ledger \cup {row} /\ UNCHANGED <<spool, late>>
  \/ /\ late < MaxLate /\ late' = late + 1
     /\ spool' = spool \cup {row} /\ UNCHANGED ledger

\* start_trainer_run
Begin(w) ==
  /\ Over /\ Run < MaxRuns
  /\ way' = Append(way, w) /\ said' = 0 /\ heard' = FALSE
  /\ UNCHANGED <<clock, ledger, spool, late, calls, reading>>

\* Run.emit with the status of that moment, and _record_ledger_event.  The usage
\* summary is captured when the process has called a model since the run began.
Emit ==
  /\ ~Over /\ said' = said + 1 /\ clock' = clock + 1
  /\ Record([run |-> Run, at |-> clock', type |-> Course[said'],
             status |-> IF said < Len(Working(way[Run])) \/ Course[said'] = "error"
                        THEN "working" ELSE Outcome(way[Run]),
             captured |-> Course[said'] = "run_usage_summary" /\ heard])
  /\ UNCHANGED <<way, calls, heard, reading>>

\* _on_model_usage of a call outside the run: the slot is read ...
Call ==
  /\ calls < MaxCalls /\ calls' = calls + 1 /\ reading = None
  /\ reading' = Slot /\ heard' = TRUE
  /\ UNCHANGED <<way, said, clock, ledger, spool, late>>

\* ... and the row is written, without a status.
CallRow ==
  /\ reading # None /\ reading' = None /\ clock' = clock + 1
  /\ Record([run |-> reading, at |-> clock', type |-> "model_usage", status |-> None,
             captured |-> TRUE])
  /\ UNCHANGED <<way, said, calls, heard>>

\* sync_spool, one line.
Sync(row) ==
  /\ spool' = spool \ {row} /\ ledger' = ledger \cup {row}
  /\ UNCHANGED <<way, said, clock, late, calls, heard, reading>>

Next == \/ \E w \in Ways : Begin(w)
        \/ Emit \/ Call \/ CallRow
        \/ \E row \in spool : Sync(row)

Spec == Init /\ [][Next]_vars

-----------------------------------------------------------------------------
(* The pages *)

Rows(r) == {row \in ledger : row.run = r}
Has(r, type) == \E row \in Rows(r) : row.type = type

\* (ARRAY_AGG(status ORDER BY timestamp_utc DESC))[1]
LastStatus(r) ==
  (CHOOSE row \in Rows(r) : \A other \in Rows(r) : other.at <= row.at).status

\* Mutant: the newest run that ended, whatever came of it.
Ended(r) == Has(r, "run_completed")
\* The evidence contract of get_latest_verified_workbench_run_id.
Verified(r) ==
  /\ Rows(r) # {} /\ LastStatus(r) = "COMPLETED"
  /\ \A type \in {"run_completed", "commit_created", "deployment_completed"} : Has(r, type)

\* ORDER BY MIN(timestamp_utc) DESC LIMIT 1; runs do not overlap.
Latest == LET verified == {r \in 1..Run : Verified(r)}
          IN IF verified = {} THEN None
             ELSE CHOOSE r \in verified : \A other \in verified : other <= r

\* _workbench_engineering_evidence: a field is filled by the event that carries it,
\* and UNAVAILABLE without one.
Evidence(r) ==
  [diff |-> Has(r, "diff"), testing |-> Has(r, "testing"),
   commit |-> Has(r, "commit_created"), push |-> Has(r, "push"),
   deployment |-> Has(r, "deployment_completed"), result |-> Has(r, "run_completed")]

\* _usage_for_workbench and _render_session_summary.
TokensStatus(r) ==
  IF \E row \in Rows(r) : row.type = "run_usage_summary" /\ row.captured
  THEN "EXACT" ELSE "NOT_CAPTURED"
\* A captured summary of a priced model has a cost.  A trainer run makes no tool
\* call, so its AI active time is not known.
Dimensions(r) == [active |-> Has(r, "tool_call_completed"),
                  tokens |-> TokensStatus(r) = "EXACT", cost |-> TokensStatus(r) = "EXACT"]
\* evidence_coverage_pct and overall_confidence: 75 and 40 per cent of three.
Known(r) == Cardinality({d \in {"active", "tokens", "cost"} : Dimensions(r)[d]})
Confidence(r) == CASE Known(r) * 100 >= 75 * 3 -> "HIGH_CONFIDENCE"
                   [] Known(r) * 100 >= 40 * 3 -> "PARTIAL"
                   [] OTHER                    -> "LOW_COVERAGE"

-----------------------------------------------------------------------------
(* Properties *)

\* The run behind the link "See a verified run" changed production and was seen to;
\* a newer one that did as well is passed over only while some of its events are
\* missing, or when a call beside the run wrote the last row of it.  The evidence
\* shown with it names its deployment and its result, and no figure of it is said to
\* be of high confidence, since nothing measured the run's active time
\* (session_history.get_latest_verified_workbench_run_id, get_session_detail).
VerifiedIsReal ==
  LET latest == Latest IN
  /\ latest # None =>
       /\ Outcome(way[latest]) = "COMPLETED"
       /\ Evidence(latest).deployment /\ Evidence(latest).result
       /\ Confidence(latest) # "HIGH_CONFIDENCE"
  /\ \A r \in 1..Run :
       (Outcome(way[r]) = "COMPLETED" /\ (r < Run \/ Over) /\ (latest = None \/ latest < r))
         => \/ \E row \in spool : row.run = r
            \/ LastStatus(r) = None
=============================================================================
