----------------------------- MODULE DemoReset -----------------------------
(***************************************************************************)
(* One reset of the public demo in detail (agent/web_server.py,            *)
(* _run_reset_thread, over agent/demo_execution.py): an isolated clone, a  *)
(* commit on a branch of its own, a deployment, and the wait for it by the *)
(* platform's records.  Delivery models what such runs do to one another;  *)
(* here it is the clocks: records bear the platform's time, and the time   *)
(* the deployment was triggered is read from the Date header of the page   *)
(* or, when that fails, from a local clock that drifts.                    *)
(*                                                                         *)
(* A tick is half a second: the header has whole seconds, the records have *)
(* milliseconds.                                                           *)
(***************************************************************************)
EXTENDS Integers, Sequences, FiniteSets

CONSTANTS MaxTime,   \* bound: ticks
          MaxDrift,  \* how far the local clock may be ahead or behind
          MaxPolls,  \* max_wait_s \div poll_interval_s
          MaxChecks, \* content_max_wait_s \div 10
          MaxOthers, \* bound: deployments by others, who push to master or promote
          None

ResetAssumption ==
  /\ MaxTime \in Nat /\ MaxDrift \in Nat /\ MaxPolls \in Nat \ {0}
  /\ MaxChecks \in Nat /\ MaxOthers \in Nat
  /\ None \notin [id : Nat, status : {"SUCCESS", "FAILED"}]

VARIABLES
  now,
  step,      \* of the run
  slot,      \* it holds the run slot
  workspace, \* "none", "there", "gone"
  trigger,   \* deploy_triggered_after, and whose clock it is
  records,   \* the platform's deployments, oldest first
  own,       \* which of them is this run's, 0 when there is none
  live,      \* what production serves
  polls, checks,
  found,     \* new_deployment_id and deploy_status
  verdict,   \* _reset_state
  shown      \* history: a poll was answered with this run's record, at its end

resetVars == <<now, step, slot, workspace, trigger, records, own, live,
               polls, checks, found, verdict, shown>>
site == <<records, live>>
look == <<polls, checks, found, shown>>

Pages == {"baseline", "changed"}
Record(s, v) == [created |-> now, status |-> s, listed |-> FALSE, page |-> v]

Init ==
  /\ now = 1 /\ step = "look" /\ slot = TRUE /\ workspace = "none"
  /\ trigger = None /\ live \in Pages
  /\ records \in {<<[created |-> 0, status |-> s, listed |-> TRUE, page |-> live]>> :
                    s \in {"SUCCESS", "FAILED"}}
  /\ own = 0 /\ polls = 0 /\ checks = 0 /\ found = None /\ verdict = "running"
  /\ shown = FALSE

-----------------------------------------------------------------------------
(* _run_reset_thread *)

Goes(there) == step' = there /\ UNCHANGED verdict
Ends(as) == step' = "finally" /\ verdict' = as

\* Without the snapshot file nothing is done; what counts is the deployed page.
Look ==
  /\ step = "look"
  /\ Ends("failed") \/ (live = "baseline" /\ Ends("completed")) \/ Goes("clone")
  /\ UNCHANGED <<now, slot, workspace, trigger, own, site, look>>

\* The clone, the baseline written into it, the commit and the push.  The directory is
\* there even when the clone fails; a clone that already is the baseline has nothing to
\* commit and is deployed too, and push_change, done or not, stops no run.
Prepare ==
  /\ step = "clone" /\ workspace' = "there"
  /\ Ends("failed") \/ Goes("clock")
  /\ UNCHANGED <<now, slot, trigger, own, site, look>>

Local(d) == [at |-> now + d, by |-> "local"]
\* Mutant: the code before the incident of 2026-09-14, which asked no server.
OwnMachine  == [at |-> now + MaxDrift, by |-> "server"]
ServerClock == [at |-> 2 * (now \div 2), by |-> "server"]

\* server_verified_now_iso: the header, or the local clock when it cannot be had.
\* `railway link` comes before the upload and takes its time, whether it fails or not.
ReadClock ==
  /\ step = "clock" /\ Goes("up") /\ trigger' \in {ServerClock} \cup {Local(d) : d \in {-MaxDrift, MaxDrift}}
  /\ now < MaxTime /\ now' = now + 1
  /\ UNCHANGED <<slot, workspace, own, site, look>>

\* trigger_deploy: `railway up` may be reported as failed (60 seconds) and have arrived.
Up ==
  /\ step = "up"
  /\ \/ /\ records' = Append(records, Record("BUILDING", "baseline"))
        /\ own' = Len(records')
        /\ Goes("wait") \/ Ends("failed")
     \/ Ends("failed") /\ UNCHANGED <<records, own>>
  /\ UNCHANGED <<now, slot, workspace, trigger, live, look>>

\* SUCCESS, or a status with FAIL or CRASH in it; REMOVED is neither.
Terminal(d) == d.status \in {"SUCCESS", "FAILED"}
Listed == {i \in 1..Len(records) : records[i].listed}
Candidates == {i \in Listed : records[i].created > trigger.at}
Ended == {i \in Candidates : Terminal(records[i])}

\* The list has the newest first, so the newest that has ended is the answer.
Poll ==
  /\ step = "wait" /\ polls' = polls + 1
  /\ \/ /\ shown' = (shown \/ (own \in Listed /\ Terminal(records[own])))
        /\ \/ /\ Ended # {} /\ Goes("check")
              /\ \E i \in Ended :
                   /\ \A k \in Ended : k <= i
                   /\ found' = [id |-> i, status |-> records[i].status]
           \/ /\ Ended = {} /\ UNCHANGED found
              /\ Goes(IF polls' < MaxPolls THEN "wait" ELSE "check")
     \* The command failed, or what it printed was no JSON.
     \/ /\ UNCHANGED <<shown, found>>
        /\ Goes(IF polls' < MaxPolls THEN "wait" ELSE "check")
  /\ UNCHANGED <<now, slot, workspace, trigger, own, site, checks>>

Confirmed == found # None /\ found.status = "SUCCESS"
Outcome(verified) ==
  IF Confirmed /\ verified THEN "completed"
  ELSE IF found # None THEN "failed" ELSE "unknown"

\* The page is asked again for a while, but only after a confirmed deployment.
Check ==
  /\ step = "check"
  /\ \/ live = "baseline" /\ Ends(Outcome(TRUE)) /\ UNCHANGED checks
     \* Another page, or none.
     \/ /\ Confirmed /\ checks < MaxChecks
        /\ Goes("check") /\ checks' = checks + 1
     \/ /\ ~Confirmed \/ checks = MaxChecks
        /\ Ends(Outcome(FALSE)) /\ UNCHANGED checks
  /\ UNCHANGED <<now, slot, workspace, trigger, own, site, polls, found,
                 shown>>

\* Any step may raise instead.
Raise ==
  /\ step \in {"look", "clone", "clock", "up", "wait", "check"}
  /\ Ends("failed")
  /\ UNCHANGED <<now, slot, workspace, trigger, own, site, look>>

Finally ==
  /\ step = "finally" /\ Goes("over") /\ slot' = FALSE
  /\ workspace' = IF workspace = "none" THEN "none" ELSE "gone"
  /\ UNCHANGED <<now, trigger, own, site, look>>

-----------------------------------------------------------------------------
(* The platform, other people and time *)

during == step \notin {"finally", "over"}  \* what comes later nobody looks at
platform == <<step, slot, workspace, trigger, own, look, verdict>>

\* A deployment shows up in the list some time after it was created.
Shows == \E i \in 1..Len(records) :
  /\ during
  /\ ~records[i].listed /\ records' = [records EXCEPT ![i].listed = TRUE]
  /\ UNCHANGED <<now, live, platform>>

Builds == \E i \in 1..Len(records), s \in {"SUCCESS", "FAILED"} :
  /\ during
  /\ records[i].status = "BUILDING" /\ records' = [records EXCEPT ![i].status = s]
  /\ UNCHANGED <<now, live, platform>>

\* Traffic moves later than the record says so, and what it leaves is removed.
CutsOver == \E i \in 1..Len(records) :
  /\ during
  /\ records[i].status = "SUCCESS" /\ live' = records[i].page
  /\ records' = [k \in 1..Len(records) |->
       IF k < i /\ records[k].status = "SUCCESS"
       THEN [records[k] EXCEPT !.status = "REMOVED"] ELSE records[k]]
  /\ UNCHANGED <<now, platform>>

Others ==
  /\ during
  /\ Cardinality({i \in 2..Len(records) : i # own}) < MaxOthers
  /\ records' = Append(records, Record("BUILDING", "changed"))
  /\ UNCHANGED <<now, live, platform>>

Tick == during /\ now < MaxTime /\ now' = now + 1 /\ UNCHANGED <<live, records, platform>>

Next ==
  \/ Look \/ Prepare \/ ReadClock \/ Up \/ Poll \/ Check \/ Raise
  \/ Finally \/ Shows \/ Builds \/ CutsOver \/ Others \/ Tick

Spec == Init /\ [][Next]_resetVars

-----------------------------------------------------------------------------
\* What a run says of its deployment: with the server's clock it may give up only when
\* no poll showed the end of its own deployment, however late the list is and however
\* the machine's clock runs; and it takes another's deployment for its own only when
\* that one was created since the second of the trigger.  The clone and the slot are
\* given back whatever happens
\* (demo_execution.wait_for_new_deployment, server_verified_now_iso).
WaitTellsTruth ==
  /\ trigger # None /\ trigger.by = "server" =>
       /\ found = None /\ polls = MaxPolls => ~shown
       /\ found # None /\ found.id # own =>
            found.id # 1 /\ records[found.id].created \div 2 >= trigger.at \div 2
  /\ step = "over" => ~slot /\ workspace \in {"none", "gone"}
=============================================================================
