--------------------------- MODULE BackendChange ---------------------------
(***************************************************************************)
(* The acceptance of the backend pipeline (agent/backend_acceptance.py):   *)
(* change one message of the production service to a probe value and back, *)
(* each by a full cycle of clone, edit, build, commit, deploy and verify   *)
(* (agent/backend_execution.py), after an analysis whose outcome changes   *)
(* nothing (agent/backend_planning.py).                                    *)
(*                                                                         *)
(* Others deploy the same service from the same master; the platform       *)
(* builds and switches traffic in its own time.                            *)
(***************************************************************************)
EXTENDS Naturals, Sequences, FiniteSets

CONSTANTS Baseline, Probe, Other, \* values of the message
          MaxForeign,             \* bound: deployments by others
          None

BackendAssumption ==
  Cardinality({Baseline, Probe, Other, None}) = 4 /\ MaxForeign \in Nat

VARIABLES
  at,      \* the step of the acceptance
  cycle,   \* "probe", then "restore"
  passed,  \* how each cycle ended, None before
  advice,  \* what the analysis reported
  source,  \* the value master's source has, None when its anchor matches no line
  deploys, \* deployments of the service, in order
  live,    \* the one that serves production, 0 for the one before
  since,   \* deployments that existed when this cycle was about to deploy
  found,   \* the deployment this cycle identified, 0 for none
  foreign  \* deployments by others so far

platform == <<deploys, live, foreign>>
vars == <<at, cycle, passed, advice, source, platform, since, found>>

Target == [probe |-> Probe, restore |-> Baseline]
Steps == {"start", "analysis", "clone", "build", "commit", "trigger", "wait", "verify"}
Live == IF live = 0 THEN Baseline ELSE deploys[live].text

Init ==
  /\ at = "start" /\ cycle = "probe" /\ passed = [c \in {"probe", "restore"} |-> None]
  /\ advice = None /\ source = Baseline
  /\ deploys = <<>> /\ live = 0 /\ foreign = 0 /\ since = 0 /\ found = 0

Go(from, to) == at = from /\ at' = to

\* An exception nobody catches ends the program: production's answer to the request
\* for a token is no JSON or ends early, the model or the index cannot be reached,
\* the anchor of the edit is gone.  The clone is removed (`finally`), no more.
Raise == /\ at \in {"start", "analysis", "clone", "verify"} /\ at' = "aborted"
         /\ UNCHANGED <<cycle, passed, advice, source, platform, since, found>>

-----------------------------------------------------------------------------
(* main: the baseline, the advice, two cycles, a verdict *)

\* Production must show the expected baseline; anything else ends here.
CheckBaseline ==
  /\ Go("start", IF Live = Baseline THEN "analysis" ELSE "failed")
  /\ UNCHANGED <<cycle, passed, advice, source, platform, since, found>>

\* analyze_backend_requirement: the requirement needs context of the backend; what
\* is retrieved may score too low, the model may be out of reach, answer no JSON,
\* or name files that were not retrieved.
Advise ==
  /\ Go("analysis", "clone")
  /\ \E usable, called, parsed, claimsMore \in BOOLEAN :
       advice' = IF ~usable THEN "INSUFFICIENT_RETRIEVED_CONTEXT"
                 ELSE IF called /\ parsed /\ claimsMore THEN "violations" ELSE "grounded"
  /\ UNCHANGED <<cycle, passed, source, platform, since, found>>

\* The end of a cycle, from any step; after the first the second is run however
\* the first one ended.  Mutant: the verdict looks at the second cycle only.
RestoreDecides(p) == p["restore"]
Verdict(p) == p["probe"] /\ p["restore"]

End(from, ok) ==
  /\ at = from
  /\ passed' = [passed EXCEPT ![cycle] = ok]
  /\ IF cycle = "probe" THEN cycle' = "restore" /\ at' = "clone"
     ELSE UNCHANGED cycle /\ at' = IF Verdict(passed') THEN "PASS" ELSE "failed"
  /\ UNCHANGED <<advice, source, platform>> /\ since' = 0 /\ found' = 0

-----------------------------------------------------------------------------
(* run_one_cycle *)

\* A clone of master, and the edit of one line: nothing to edit when the source
\* has the target value already; an anchor that matches no line is an exception.
Clone ==
  \/ End("clone", FALSE)
  \/ /\ source # None /\ Go("clone", "build")
     /\ UNCHANGED <<cycle, passed, advice, source, platform, since, found>>

\* mvnw compile, then the targeted tests.
Build ==
  \/ End("build", FALSE)
  \/ /\ Go("build", "commit")
     /\ UNCHANGED <<cycle, passed, advice, source, platform, since, found>>

\* The commit may fail unless there is nothing to commit; the push to the branch of
\* the cycle may fail and is only reported.  Then the time of the trigger is taken.
Commit ==
  \/ source # Target[cycle] /\ End("commit", FALSE)
  \/ /\ Go("commit", "trigger") /\ since' = Len(deploys)
     /\ UNCHANGED <<cycle, passed, advice, source, platform, found>>

\* A trigger that is reported as failed may have arrived.
Deployment == [text |-> Target[cycle], status |-> "BUILDING", by |-> cycle]
Trigger ==
  \/ /\ Go("trigger", "wait") /\ deploys' = Append(deploys, Deployment)
     /\ UNCHANGED <<cycle, passed, advice, source, live, foreign, since, found>>
  \/ /\ at = "trigger" /\ passed' = [passed EXCEPT ![cycle] = FALSE]
     /\ deploys' \in {deploys, Append(deploys, Deployment)}
     /\ IF cycle = "probe" THEN cycle' = "restore" /\ at' = "clone"
        ELSE UNCHANGED cycle /\ at' = "failed"
     /\ UNCHANGED <<advice, source, live, foreign>> /\ since' = 0 /\ found' = 0

\* A deployment created after the trigger that has ended; only a successful one
\* lets the cycle go on.
Wait ==
  \/ /\ Go("wait", "verify")
     /\ \E i \in DOMAIN deploys : i > since /\ deploys[i].status = "SUCCESS" /\ found' = i
     /\ UNCHANGED <<cycle, passed, advice, source, platform, since>>
  \/ End("wait", FALSE)

\* assert_production_field_with_retry: the message production gives, asked for
\* until it is the target or the window is over.
Verify ==
  \/ Live = Target[cycle] /\ End("verify", TRUE)
  \/ End("verify", FALSE)

-----------------------------------------------------------------------------
(* The platform and the others *)

Built == /\ \E i \in DOMAIN deploys : \E s \in {"SUCCESS", "FAILED"} :
              deploys[i].status = "BUILDING" /\ deploys' = [deploys EXCEPT ![i].status = s]
         /\ UNCHANGED <<at, cycle, passed, advice, source, live, foreign, since, found>>

Cutover == /\ \E i \in DOMAIN deploys : i > live /\ deploys[i].status = "SUCCESS" /\ live' = i
           /\ UNCHANGED <<at, cycle, passed, advice, source, deploys, foreign, since, found>>

\* Another run deploys master, of which the message keeps its value there.
ForeignDeploy ==
  /\ foreign < MaxForeign /\ source # None /\ foreign' = foreign + 1
  /\ deploys' = Append(deploys, [text |-> source, status |-> "BUILDING", by |-> None])
  /\ UNCHANGED <<at, cycle, passed, advice, source, live, since, found>>

\* Someone merges another text of the message, or moves it elsewhere.
MasterMoves == /\ source = Baseline /\ source' \in {Other, None}
               /\ UNCHANGED <<at, cycle, passed, advice, platform, since, found>>

Next == \/ CheckBaseline \/ Advise \/ Clone \/ Build \/ Commit \/ Trigger \/ Wait
        \/ Verify \/ Raise \/ Built \/ Cutover \/ ForeignDeploy \/ MasterMoves
Spec == Init /\ [][Next]_vars

-----------------------------------------------------------------------------
(* Properties *)

TypeOK ==
  /\ at \in Steps \cup {"aborted", "failed", "PASS"} /\ cycle \in {"probe", "restore"}
  /\ passed \in [{"probe", "restore"} -> BOOLEAN \cup {None}]
  /\ advice \in {None, "INSUFFICIENT_RETRIEVED_CONTEXT", "violations", "grounded"}
  /\ source \in {Baseline, Other, None}
  /\ deploys \in Seq([text : {Baseline, Probe, Other}, by : {"probe", "restore", None},
                      status : {"BUILDING", "SUCCESS", "FAILED"}])
  /\ live \in 0..Len(deploys) /\ foreign \in 0..MaxForeign
  /\ since \in 0..Len(deploys) /\ found \in 0..Len(deploys)

\* After a PASS the probe is gone for good: production does not show it, and no
\* deployment of it waits for its turn, whatever else was deployed meanwhile and
\* however late the platform switched (main, the final verdict).
ProbeIsGone ==
  at = "PASS" => Live # Probe /\ \A i \in DOMAIN deploys :
                                   i > live => deploys[i].text # Probe
=============================================================================
