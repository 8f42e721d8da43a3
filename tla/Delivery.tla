------------------------------ MODULE Delivery ------------------------------
(***************************************************************************)
(* Everything that deploys the one Customer App in production: the trainer *)
(* runs, the demo reset and the owner's agent runs of agent/web_server.py, *)
(* which share one run slot, and the promotions of                         *)
(* agent/triage_promotion.py, which do not take it.  Each deploys from a   *)
(* clone of its own (agent/demo_execution.py) and recognises its           *)
(* deployment by the time it was created.                                  *)
(*                                                                         *)
(* Runs are threads of one process; the hosting platform builds, fails or  *)
(* puts live what was deployed in its own time.                            *)
(***************************************************************************)
EXTENDS Naturals, Sequences, FiniteSets

CONSTANTS Trainers, Resets, Agents,  \* runs that need the slot
          Promotions,                \* promotion requests
          Values, Baseline,          \* values of the demo text; the canonical one
          None,
          MaxCandidates              \* bound: verified candidate patches

Jobs == Trainers \cup Resets \cup Agents

DeliveryAssumption ==
  /\ None \notin Jobs \cup Values
  /\ Baseline \in Values
  /\ MaxCandidates \in Nat
  /\ Trainers \cap Resets = {} /\ Trainers \cap Agents = {} /\ Resets \cap Agents = {}
  /\ Jobs \cap Promotions = {}

VARIABLES
  slot,       \* _CURRENT_RUN_ID
  cooling,    \* less than TRAINER_COOLDOWN_SECONDS since a trainer run finished
  place,      \* how far each job or promotion is
  want,       \* the value a job was asked for
  since,      \* deployments that existed when it was about to deploy
  found,      \* the deployment wait_for_new_deployment returned, 0 for none
  verdict,    \* how each job or promotion ended
  log,        \* history: trainer runs and resets in the order they ended
  moved,      \* has master left the baseline of the candidates?
  deploys,    \* the platform's deployments, in the order they were created
  live,       \* the deployment that serves production, 0 for the one before
  verified,   \* _LAST_VERIFIED_CANDIDATE: a candidate number, 0 for none
  candidates, \* candidates verified so far (bounded)
  entry,      \* the candidate each promotion has read
  promoted    \* candidate_promoted events in the ledger

web     == <<slot, cooling>>
local   == <<since, found>>
ended   == <<verdict, log>>
world   == <<deploys, live>>
triage  == <<verified, candidates, entry, promoted>>
vars    == <<web, place, want, local, ended, moved, world, triage>>

Actors == Jobs \cup Promotions
Verdicts == {"COMPLETED", "NO_CHANGE_NEEDED", "FAILED", "DEPLOYMENT_STATUS_UNKNOWN"}

Init ==
  /\ slot = None /\ cooling = FALSE
  /\ place = [a \in Actors |-> "idle"]
  /\ want = [j \in Jobs |-> Baseline]
  /\ moved = FALSE
  /\ since = [a \in Actors |-> 0] /\ found = [a \in Actors |-> 0]
  /\ verdict = [a \in Actors |-> None] /\ log = <<>>
  /\ deploys = <<>> /\ live = 0
  /\ verified = 0 /\ candidates = 0
  /\ entry = [p \in Promotions |-> 0] /\ promoted = {}

\* The demo text production shows.  The master branch holds the baseline's text:
\* runs never push to it.
Live == IF live = 0 THEN Baseline ELSE deploys[live].text

Go(a, from, to) == place[a] = from /\ place' = [place EXCEPT ![a] = to]

\* A verdict is reached; the `finally` of the thread is next.
Conclude(a, from, v) == /\ Go(a, from, "ending")
                        /\ since' = [since EXCEPT ![a] = 0]
                        /\ found' = [found EXCEPT ![a] = 0]
                        /\ verdict' = [verdict EXCEPT ![a] = v]
                        /\ log' = IF a \in Trainers \cup Resets THEN Append(log, a) ELSE log

-----------------------------------------------------------------------------
(* The run slot *)

\* start_trainer_run: the cooldown is looked at first, the slot taken after.
CheckCooldown(t) ==
  /\ t \in Trainers /\ Go(t, "idle", "admitted") /\ ~cooling
  /\ want' \in {[want EXCEPT ![t] = v] : v \in Values}
  /\ UNCHANGED <<web, local, ended, moved, world, triage>>

\* Mutant: the answer "busy" goes through the `finally` that frees the slot.
FreedWhenBusy == None
SlotWhenBusy == slot

\* _reserve_run_slot, by every kind of run.
Reserve(j) ==
  /\ IF j \in Trainers THEN place[j] = "admitted" ELSE place[j] = "idle"
  /\ IF slot = None
       THEN slot' = j /\ place' = [place EXCEPT ![j] = "running"]
       ELSE slot' = SlotWhenBusy /\ place' = [place EXCEPT ![j] = "idle"]
  /\ UNCHANGED <<cooling, want, local, ended, moved, world, triage>>

\* _release_run_slot in the `finally` of the thread ...
ReleaseSlot(j) ==
  /\ Go(j, "ending", IF j \in Trainers THEN "released" ELSE "done")
  /\ slot' = None
  /\ UNCHANGED <<cooling, want, local, ended, moved, world, triage>>

\* ... and only then _LAST_TRAINER_RUN_FINISHED_AT.
SetCooldown(t) ==
  /\ Go(t, "released", "done")
  /\ cooling' = TRUE
  /\ UNCHANGED <<slot, want, local, ended, moved, world, triage>>

CooldownOver == /\ cooling /\ cooling' = FALSE
                /\ UNCHANGED <<slot, place, want, local, ended, moved, world, triage>>

-----------------------------------------------------------------------------
(* A trainer run or a reset: look, prepare, deploy, wait, verify *)

Wanted(j) == IF j \in Resets THEN Baseline ELSE want[j]

\* Clone master and ask production what it shows; either may fail.
Look(j) ==
  /\ j \in Trainers \cup Resets
  /\ \/ Conclude(j, "running", "FAILED")
     \/ Live = Wanted(j) /\ Conclude(j, "running", "NO_CHANGE_NEEDED")
     \/ Go(j, "running", "cloned") /\ UNCHANGED <<local, ended>>
  /\ UNCHANGED <<web, want, moved, world, triage>>

\* Write, commit on demo/<run_id>, push that branch (never master), and take
\* the time of the trigger (server_verified_now_iso).
Prepare(a) ==
  /\ \/ Conclude(a, "cloned", "FAILED")
     \/ /\ Go(a, "cloned", "triggered")
        /\ since' = [since EXCEPT ![a] = Len(deploys)]
        /\ UNCHANGED <<found, ended>>
  /\ UNCHANGED <<web, want, moved, world, triage>>

\* The clone with the one change of the run in it.
Deployed(a) == [by |-> a, status |-> "BUILDING",
                text |-> IF a \in Promotions THEN Baseline ELSE Wanted(a)]

\* trigger_deploy: `railway up --detach`; a timeout is reported as a failure
\* even when the upload arrived.
TriggerDeploy(a) ==
  /\ \/ /\ Go(a, "triggered", "waiting")
        /\ deploys' = Append(deploys, Deployed(a))
        /\ UNCHANGED <<local, ended>>
     \/ /\ Conclude(a, "triggered", "FAILED")
        /\ deploys' \in {deploys, Append(deploys, Deployed(a))}
  /\ UNCHANGED <<web, want, moved, live, triage>>

\* Deployments that reached a terminal status.
Terminal == {i \in DOMAIN deploys : deploys[i].status # "BUILDING"}

\* wait_for_new_deployment: whatever was created after the trigger.
\* Mutant: whatever is not the deployment that was newest before.
NotTheLastOne(a) == {i \in Terminal : i # since[a]}
Candidates(a) == {i \in Terminal : i > since[a]}

Wait(a) ==
  /\ Go(a, "waiting", "verifying")
  /\ \/ \E i \in Candidates(a) : found' = [found EXCEPT ![a] = i]
     \/ found' = [found EXCEPT ![a] = 0]
  /\ UNCHANGED <<web, want, since, ended, moved, world, triage>>

\* Is the deployment that was found a success ("identity confirmed")?
Confirmed(a) == found[a] # 0 /\ deploys[found[a]].status = "SUCCESS"

\* Mutant: the platform's word is enough.
IdentityIsEnough(j) == TRUE
ShowsWanted(j) == Live = Wanted(j)

\* Content is asked for again for a while once the identity is confirmed, and
\* once otherwise; the end of that window is a negative answer.
Verify(j) ==
  /\ j \in Trainers \cup Resets
  /\ \/ Confirmed(j) /\ ShowsWanted(j) /\ Conclude(j, "verifying", "COMPLETED")
     \/ found[j] # 0 /\ Conclude(j, "verifying", "FAILED")
     \/ found[j] = 0 /\ Conclude(j, "verifying", "DEPLOYMENT_STATUS_UNKNOWN")
  /\ UNCHANGED <<web, want, moved, world, triage>>

\* An owner's agent run works on the server's own checkout and deploys nothing.
AgentEnds(j) ==
  /\ j \in Agents
  /\ \E v \in {"COMPLETED", "FAILED"} : Conclude(j, "running", v)
  /\ UNCHANGED <<web, want, moved, world, triage>>

-----------------------------------------------------------------------------
(* Promotion of a verified candidate patch *)

\* record_verified_candidate: the newest verified candidate replaces the last.
RecordCandidate ==
  /\ candidates < MaxCandidates
  /\ candidates' = candidates + 1 /\ verified' = candidates + 1
  /\ UNCHANGED <<web, place, want, local, ended, moved, world, entry, promoted>>

HasEntry == verified # 0

\* promote_verified_candidate reads the entry ...
ReadEntry(p) ==
  /\ Go(p, "idle", "running")
  /\ HasEntry
  /\ entry' = [entry EXCEPT ![p] = verified]
  /\ UNCHANGED <<web, want, local, ended, moved, world, verified, candidates, promoted>>

\* ... logs in, clones, and refuses when master is no longer the baseline.
CloneBaseline(p) ==
  /\ \/ Conclude(p, "running", "FAILED")
     \/ ~moved /\ Go(p, "running", "cloned") /\ UNCHANGED <<local, ended>>
  /\ UNCHANGED <<web, want, moved, world, triage>>

\* The rerun may fail with an exception: no event then, and the entry stays.
RecordPromotion(p) ==
  /\ \/ /\ Go(p, "verifying", "popping")
        /\ promoted' = promoted \cup {[by |-> p, candidate |-> entry[p]]}
        /\ UNCHANGED <<local, ended>>
     \/ Conclude(p, "verifying", "FAILED") /\ UNCHANGED promoted
  /\ UNCHANGED <<web, want, moved, world, verified, candidates, entry>>

\* _LAST_VERIFIED_CANDIDATE.pop(scenario): whatever is there now.
PopEntry(p) ==
  /\ Conclude(p, "popping", "COMPLETED")
  /\ verified' = 0
  /\ UNCHANGED <<web, want, moved, world, candidates, entry, promoted>>

-----------------------------------------------------------------------------
(* The platform, and the people who merge to master *)

Built(i, s) ==
  /\ deploys[i].status = "BUILDING"
  /\ deploys' = [deploys EXCEPT ![i].status = s]
  /\ UNCHANGED <<web, place, want, local, ended, moved, live, triage>>

\* Traffic follows a successful deployment later, and never goes back.
Cutover(i) ==
  /\ deploys[i].status = "SUCCESS" /\ i > live
  /\ live' = i
  /\ UNCHANGED <<web, place, want, local, ended, moved, deploys, triage>>

\* The defect is fixed on master by hand.
MasterMoves == /\ ~moved /\ moved' = TRUE
               /\ UNCHANGED <<web, place, want, local, ended, world, triage>>

RunStep(j) == \/ Look(j) \/ Prepare(j) \/ TriggerDeploy(j) \/ Wait(j) \/ Verify(j)
              \/ AgentEnds(j) \/ ReleaseSlot(j) \/ SetCooldown(j)

PromotionStep(p) == \/ CloneBaseline(p) \/ Prepare(p) \/ TriggerDeploy(p) \/ Wait(p)
                    \/ RecordPromotion(p) \/ PopEntry(p)

Next ==
  \/ \E j \in Jobs : CheckCooldown(j) \/ Reserve(j) \/ RunStep(j)
  \/ \E p \in Promotions : ReadEntry(p) \/ PromotionStep(p)
  \/ \E i \in DOMAIN deploys :
       Built(i, "SUCCESS") \/ Built(i, "FAILED") \/ Cutover(i)
  \/ CooldownOver \/ RecordCandidate \/ MasterMoves

Spec == Init /\ [][Next]_vars

\* The thread of a trainer run or a reset keeps running.  Nothing is assumed of
\* the platform, nor of an agent run, which may wait for its human for ever.
FairSpec == Spec /\ \A j \in Trainers \cup Resets : WF_vars(RunStep(j))
=============================================================================
