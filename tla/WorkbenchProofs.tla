--------------------------- MODULE WorkbenchProofs ---------------------------
(***************************************************************************)
(* Proofs about five parts of the workbench, for every value of their      *)
(* constants: everything that deploys the Customer App (who has the slot,  *)
(* whose deployment a verdict is about and what production shows, for      *)
(* every set of runs, resets, agent runs and promotions), the agent runs   *)
(* (for every set of runs, files, contents and edits), the reset of the    *)
(* demo with its clocks (for any drift of the local clock, and any number  *)
(* of polls and deployments), the page of a run (for any number of events  *)
(* and reconnects) and the advice on a change (for every index).  Deliver  *)
(* is MCDelivery, Agent is AgentRun, Reset is DemoReset, Stream is         *)
(* RunStream and Adviser is Advice, as MCWorkbench has them.               *)
(***************************************************************************)
EXTENDS MCWorkbench, SequenceTheorems, FiniteSetTheorems, WellFoundedInduction, TLAPS

-----------------------------------------------------------------------------
(* The deliveries *)

Runners == Trainers \cup Resets   \* they deploy while they hold the slot

\* Where a thread is.
Places == {"idle", "admitted", "running", "cloned", "triggered", "waiting", "verifying",
           "popping", "ending", "released", "done"}
Before   == {"idle", "admitted", "running", "cloned", "triggered"}
Watching == {"waiting", "verifying"}
Over     == {"ending", "released", "done"}

\* Deployments of j that were created after it noted the time.
Since(j) == {i \in DOMAIN delivery_deploys : i > delivery_since[j]}
DeployedBy(j) == {i \in DOMAIN delivery_deploys : delivery_deploys[i].by = j}

\* The shape of what the deployments, the runs and the promotions keep.
Shape ==
  /\ delivery_slot \in Deliver!Jobs \cup {None}
  /\ delivery_place \in [Deliver!Actors -> Places]
  /\ delivery_want \in [Deliver!Jobs -> Values]
  /\ delivery_since \in [Deliver!Actors -> Nat]
  /\ delivery_found \in [Deliver!Actors -> {0} \cup DOMAIN delivery_deploys]
  /\ delivery_verdict \in [Deliver!Actors -> Deliver!Verdicts \cup {None}]
  /\ delivery_log \in Seq(Deliver!Jobs)
  /\ delivery_deploys \in Seq(Deliver!Deployment)
  /\ delivery_live \in 0..Len(delivery_deploys)

\* What a thread at its place has: an agent run never deploys, a runner has deployed
\* only once it waits, and found a deployment only when it verifies.
PlacesOK ==
  /\ \A j \in Agents : delivery_place[j] \in {"idle", "running"} \cup Over
  /\ \A j \in Runners : delivery_found[j] # 0 =>
       delivery_place[j] = "verifying" /\ delivery_found[j] > delivery_since[j]
  /\ \A j \in Runners : delivery_place[j] \in Before => DeployedBy(j) = {}

\* While a runner waits, only promotions deploy beside it.
OwnOK ==
  \A j \in Runners : Deliver!NoPromotionSince(j) =>
    /\ delivery_place[j] = "triggered" => Since(j) = {}
    /\ delivery_place[j] \in Watching => \A i \in Since(j) : delivery_deploys[i].by = j

\* The runs that ended, each once and for good.
LogOK ==
  \A k \in DOMAIN delivery_log :
    delivery_log[k] \in Runners /\ delivery_place[delivery_log[k]] \in Over

\* Every run so far ended well, and no promotion deployed.
AllWell ==
  /\ \A k \in DOMAIN delivery_log :
       delivery_verdict[delivery_log[k]] \in {"COMPLETED", "NO_CHANGE_NEEDED"}
  /\ \A i \in DOMAIN delivery_deploys : delivery_deploys[i].by \notin Promotions

\* A runner that is watching has made the newest deployment and no other, of what
\* it was asked for.
NewestIsOwn ==
  \A j \in Runners :
    /\ delivery_place[j] = "triggered" => delivery_since[j] = Len(delivery_deploys)
    /\ delivery_place[j] \in Watching =>
         /\ Len(delivery_deploys) = delivery_since[j] + 1
         /\ DeployedBy(j) = {Len(delivery_deploys)}
         /\ delivery_deploys[Len(delivery_deploys)].text = Deliver!Wanted(j)

\* What may still go live shows what production shows, but for the deployment of
\* the run that is under way.
Settled(i) == \A j \in Runners : Deliver!Delivering(j) => delivery_deploys[i].by # j
LiveOK ==
  /\ \A i \in DOMAIN delivery_deploys :
       i > delivery_live /\ Settled(i) => delivery_deploys[i].text = Deliver!Live
  /\ delivery_log # <<>> /\ (\A j \in Runners : ~Deliver!Delivering(j)) =>
       Deliver!Live = Deliver!Wanted(delivery_log[Len(delivery_log)])

\* The inductive invariant.
DeliveryInv ==
  /\ Shape /\ Deliver!SlotIsTheRunning
  /\ PlacesOK /\ OwnOK /\ LogOK
  /\ AllWell => NewestIsOwn /\ LiveOK

-----------------------------------------------------------------------------
\* The constants are as MCWorkbench assumes.
LEMMA Sets ==
  /\ None \notin Deliver!Jobs \cup Values /\ Baseline \in Values /\ MaxCandidates \in Nat
  /\ Trainers \cap Resets = {} /\ Trainers \cap Agents = {} /\ Resets \cap Agents = {}
  /\ Deliver!Jobs \cap Promotions = {}
  /\ Deliver!Jobs = Runners \cup Agents /\ Deliver!Actors = Deliver!Jobs \cup Promotions
BY WorkbenchAssumption
   DEF WorkbenchAssumption, Deliver!DeliveryAssumption, Deliver!Jobs, Deliver!Actors, Runners

-----------------------------------------------------------------------------
(* The steps, by what they do to slot, places, findings, verdicts and platform *)

Goes(a, from, to) == /\ a \in Deliver!Actors /\ delivery_place[a] = from
                     /\ delivery_place' = [delivery_place EXCEPT ![a] = to]

Nothing == UNCHANGED <<delivery_slot, delivery_place, delivery_want, delivery_since,
                       delivery_found, delivery_verdict, delivery_log, delivery_deploys,
                       delivery_live>>

Admitted(t) ==
  /\ t \in Trainers /\ Goes(t, "idle", "admitted")
  /\ \E v \in Values : delivery_want' = [delivery_want EXCEPT ![t] = v]
  /\ UNCHANGED <<delivery_slot, delivery_since, delivery_found, delivery_verdict,
                 delivery_log, delivery_deploys, delivery_live>>

\* Reserve, with the slot free and with it taken.
Starts(j, from) ==
  /\ j \in Deliver!Jobs /\ from \in {"idle", "admitted"} /\ Goes(j, from, "running")
  /\ delivery_slot = None /\ delivery_slot' = j
  /\ UNCHANGED <<delivery_want, delivery_since, delivery_found, delivery_verdict,
                 delivery_log, delivery_deploys, delivery_live>>
TurnedAway(j, from) ==
  /\ j \in Deliver!Jobs /\ from \in {"idle", "admitted"} /\ Goes(j, from, "idle")
  /\ UNCHANGED <<delivery_slot, delivery_want, delivery_since, delivery_found,
                 delivery_verdict, delivery_log, delivery_deploys, delivery_live>>

Leaves(j, to) ==
  /\ j \in Deliver!Jobs /\ to \in {"released", "done"} /\ Goes(j, "ending", to)
  /\ delivery_slot' = None
  /\ UNCHANGED <<delivery_want, delivery_since, delivery_found, delivery_verdict,
                 delivery_log, delivery_deploys, delivery_live>>

\* On to the next place, with nothing else that matters here.
Walks(a, from, to) ==
  /\ Goes(a, from, to)
  /\ \/ a \in Trainers \cup Resets \cup Promotions /\ from = "running" /\ to = "cloned"
     \/ a \in Promotions /\ <<from, to>> \in {<<"idle", "running">>, <<"verifying", "popping">>}
     \/ a \in Deliver!Jobs /\ from = "released" /\ to = "done"
  /\ UNCHANGED <<delivery_slot, delivery_want, delivery_since, delivery_found,
                 delivery_verdict, delivery_log, delivery_deploys, delivery_live>>

Notes(a) ==
  /\ Goes(a, "cloned", "triggered")
  /\ delivery_since' = [delivery_since EXCEPT ![a] = Len(delivery_deploys)]
  /\ UNCHANGED <<delivery_slot, delivery_want, delivery_found, delivery_verdict,
                 delivery_log, delivery_deploys, delivery_live>>

Deploys(a) ==
  /\ Goes(a, "triggered", "waiting")
  /\ delivery_deploys' = Append(delivery_deploys, Deliver!Deployed(a))
  /\ UNCHANGED <<delivery_slot, delivery_want, delivery_since, delivery_found,
                 delivery_verdict, delivery_log, delivery_live>>

Finds(a) ==
  /\ Goes(a, "waiting", "verifying")
  /\ \E i \in {0} \cup {k \in DOMAIN delivery_deploys : k > delivery_since[a]} :
       delivery_found' = [delivery_found EXCEPT ![a] = i]
  /\ UNCHANGED <<delivery_slot, delivery_want, delivery_since, delivery_verdict,
                 delivery_log, delivery_deploys, delivery_live>>

\* A verdict, with or without a deployment that arrived after all.  A run ends well only
\* when production shows what it was asked for.
Ends(a, from, v) ==
  /\ Goes(a, from, "ending") /\ v \in Deliver!Verdicts
  /\ from \in {"running", "cloned", "triggered", "verifying", "popping"}
  /\ (a \in Agents => from = "running") /\ (from = "popping" => a \in Promotions)
  /\ a \in Runners /\ v \in {"COMPLETED", "NO_CHANGE_NEEDED"} =>
       /\ Deliver!Live = Deliver!Wanted(a)
       /\ \/ from = "running"
          \/ from = "verifying" /\ delivery_found[a] # 0
  /\ delivery_since' = [delivery_since EXCEPT ![a] = 0]
  /\ delivery_found' = [delivery_found EXCEPT ![a] = 0]
  /\ delivery_verdict' = [delivery_verdict EXCEPT ![a] = v]
  /\ delivery_log' = IF a \in Runners THEN Append(delivery_log, a) ELSE delivery_log
  /\ \/ delivery_deploys' = delivery_deploys
     \/ /\ from = "triggered" /\ v = "FAILED"
        /\ delivery_deploys' = Append(delivery_deploys, Deliver!Deployed(a))
  /\ UNCHANGED <<delivery_slot, delivery_want, delivery_live>>

Built(i, s) ==
  /\ i \in DOMAIN delivery_deploys /\ s \in {"SUCCESS", "FAILED"}
  /\ delivery_deploys' = [delivery_deploys EXCEPT ![i].status = s]
  /\ UNCHANGED <<delivery_slot, delivery_place, delivery_want, delivery_since,
                 delivery_found, delivery_verdict, delivery_log, delivery_live>>

GoesLive(i) ==
  /\ i \in DOMAIN delivery_deploys /\ i > delivery_live /\ delivery_live' = i
  /\ UNCHANGED <<delivery_slot, delivery_place, delivery_want, delivery_since,
                 delivery_found, delivery_verdict, delivery_log, delivery_deploys>>

JobSteps(j) ==
  \/ Admitted(j)
  \/ \E from \in {"idle", "admitted"} : Starts(j, from) \/ TurnedAway(j, from)
  \/ \E to \in {"released", "done"} : Leaves(j, to)
ActorSteps(a) ==
  \/ \E from, to \in Places : Walks(a, from, to)
  \/ Notes(a) \/ Deploys(a) \/ Finds(a)
  \/ \E from \in Places, v \in Deliver!Verdicts : Ends(a, from, v)
PlatformSteps == \E i \in DOMAIN delivery_deploys :
                   GoesLive(i) \/ \E s \in {"SUCCESS", "FAILED"} : Built(i, s)
Steps == \/ Nothing \/ PlatformSteps
         \/ \E j \in Deliver!Jobs : JobSteps(j)
         \/ \E a \in Deliver!Actors : ActorSteps(a)

\* A conclusion is one of these steps.
LEMMA Concluding ==
  ASSUME NEW a \in Deliver!Actors, NEW from \in Places, NEW v \in Deliver!Verdicts,
         from \in {"running", "cloned", "verifying", "popping"},
         a \in Agents => from = "running", from = "popping" => a \in Promotions,
         a \in Runners /\ v \in {"COMPLETED", "NO_CHANGE_NEEDED"} =>
           /\ Deliver!Live = Deliver!Wanted(a)
           /\ from = "running" \/ (from = "verifying" /\ delivery_found[a] # 0),
         Deliver!Conclude(a, from, v),
         UNCHANGED <<Deliver!web, delivery_want, Deliver!world>>
  PROVE  Steps
<1>1. Ends(a, from, v)
  BY DEF Ends, Goes, Deliver!Conclude, Deliver!Go, Deliver!web, Deliver!world, Runners
<1> QED BY <1>1 DEF Steps, ActorSteps

\* Every step of the deliveries is one of these.
LEMMA StepKinds ==
  ASSUME Shape, PlacesOK, Deliver!Next
  PROVE  Steps
<1> USE Sets DEF Runners
<1>1. ASSUME NEW j \in Deliver!Jobs, Deliver!CheckCooldown(j) PROVE Steps
  <2>1. Admitted(j)
    BY <1>1 DEF Deliver!CheckCooldown, Admitted, Goes, Deliver!Go, Deliver!web, Deliver!local,
                Deliver!ended, Deliver!world
  <2> QED BY <2>1 DEF Steps, JobSteps
<1>2. ASSUME NEW j \in Deliver!Jobs, Deliver!Reserve(j) PROVE Steps
  <2>1. \E from \in {"idle", "admitted"} : Starts(j, from) \/ TurnedAway(j, from)
    BY <1>2 DEF Deliver!Reserve, Deliver!SlotWhenBusy, Starts, TurnedAway, Goes,
                Deliver!local, Deliver!ended, Deliver!world
  <2> QED BY <2>1 DEF Steps, JobSteps
<1>3. ASSUME NEW j \in Deliver!Jobs, Deliver!ReleaseSlot(j) PROVE Steps
  <2>1. \E to \in {"released", "done"} : Leaves(j, to)
    BY <1>3 DEF Deliver!ReleaseSlot, Leaves, Goes, Deliver!Go, Deliver!local, Deliver!ended,
                Deliver!world
  <2> QED BY <2>1 DEF Steps, JobSteps
<1>4. ASSUME NEW a \in Deliver!Actors, NEW from \in Places, NEW to \in Places,
             Walks(a, from, to)
      PROVE  Steps
  BY <1>4 DEF Steps, ActorSteps
<1>5. ASSUME NEW j \in Deliver!Jobs, Deliver!SetCooldown(j) PROVE Steps
  <2>1. Walks(j, "released", "done")
    BY <1>5 DEF Deliver!SetCooldown, Walks, Goes, Deliver!Go, Deliver!local, Deliver!ended,
                Deliver!world
  <2> QED BY <1>4, <2>1 DEF Places
<1>6. ASSUME NEW j \in Deliver!Jobs, Deliver!Look(j) PROVE Steps
  <2>1. CASE Deliver!Conclude(j, "running", "FAILED")
    BY <1>6, <2>1, Concluding DEF Deliver!Look, Places, Deliver!Verdicts
  <2>2. CASE Deliver!Live = Deliver!Wanted(j) /\ Deliver!Conclude(j, "running", "NO_CHANGE_NEEDED")
    <3>1. Ends(j, "running", "NO_CHANGE_NEEDED")
      BY <1>6, <2>2 DEF Deliver!Look, Deliver!Verdicts, Ends, Goes, Deliver!Conclude,
         Deliver!Go, Deliver!web, Deliver!world
    <3> QED BY <3>1 DEF Steps, ActorSteps, Places, Deliver!Verdicts
  <2>3. CASE Deliver!Go(j, "running", "cloned") /\ UNCHANGED <<Deliver!local, Deliver!ended>>
    <3>1. Walks(j, "running", "cloned")
      BY <1>6, <2>3 DEF Deliver!Look, Walks, Goes, Deliver!Go, Deliver!web, Deliver!local,
                        Deliver!ended, Deliver!world
    <3> QED BY <1>4, <3>1 DEF Places
  <2> QED BY <1>6, <2>1, <2>2, <2>3 DEF Deliver!Look
<1>7. ASSUME NEW a \in Deliver!Actors, Deliver!Prepare(a) PROVE Steps
  <2>0. a \notin Agents
    BY <1>7 DEF PlacesOK, Deliver!Prepare, Deliver!Conclude, Deliver!Go, Over
  <2>1. CASE Deliver!Conclude(a, "cloned", "FAILED")
    BY <1>7, <2>0, <2>1, Concluding DEF Deliver!Prepare, Places, Deliver!Verdicts
  <2>2. CASE ~Deliver!Conclude(a, "cloned", "FAILED")
    <3>1. Notes(a)
      BY <1>7, <2>2 DEF Deliver!Prepare, Notes, Goes, Deliver!Go, Deliver!web,
                        Deliver!ended, Deliver!world
    <3> QED BY <3>1 DEF Steps, ActorSteps
  <2> QED BY <2>1, <2>2
<1>8. ASSUME NEW a \in Deliver!Actors, Deliver!TriggerDeploy(a) PROVE Steps
  <2>0. a \notin Agents
    BY <1>8 DEF PlacesOK, Deliver!TriggerDeploy, Deliver!Conclude, Deliver!Go, Over
  <2>1. CASE Deliver!Conclude(a, "triggered", "FAILED")
             /\ delivery_deploys' \in {delivery_deploys, Append(delivery_deploys, Deliver!Deployed(a))}
    <3>1. Ends(a, "triggered", "FAILED")
      BY <1>8, <2>0, <2>1 DEF Deliver!TriggerDeploy, Ends, Goes, Deliver!Conclude,
         Deliver!Go, Deliver!web, Deliver!Verdicts
    <3> QED BY <3>1 DEF Steps, ActorSteps, Places, Deliver!Verdicts
  <2>2. CASE ~Deliver!Conclude(a, "triggered", "FAILED")
    <3>1. Deploys(a)
      BY <1>8, <2>2 DEF Deliver!TriggerDeploy, Deploys, Goes, Deliver!Go, Deliver!web,
                        Deliver!local, Deliver!ended
    <3> QED BY <3>1 DEF Steps, ActorSteps
  <2> QED BY <1>8, <2>1, <2>2 DEF Deliver!TriggerDeploy
<1>9. ASSUME NEW a \in Deliver!Actors, Deliver!Wait(a) PROVE Steps
  <2>1. Finds(a)
    BY <1>9 DEF Deliver!Wait, Deliver!Candidates, Deliver!Terminal, Finds, Goes, Deliver!Go,
                Deliver!web, Deliver!ended, Deliver!world
  <2> QED BY <2>1 DEF Steps, ActorSteps
<1>10. ASSUME NEW j \in Deliver!Jobs, Deliver!Verify(j) PROVE Steps
  <2>1. \E v \in {"COMPLETED", "FAILED", "DEPLOYMENT_STATUS_UNKNOWN"} :
          /\ Deliver!Conclude(j, "verifying", v)
          /\ v = "COMPLETED" => Deliver!Live = Deliver!Wanted(j) /\ delivery_found[j] # 0
    BY <1>10 DEF Deliver!Verify, Deliver!Confirmed, Deliver!ShowsWanted
  <2> QED BY <1>10, <2>1, Concluding DEF Deliver!Verify, Places, Deliver!Verdicts
<1>11. ASSUME NEW j \in Deliver!Jobs, Deliver!AgentEnds(j) PROVE Steps
  BY <1>11, Concluding DEF Deliver!AgentEnds, Places, Deliver!Verdicts
<1>12. ASSUME NEW p \in Promotions, Deliver!ReadEntry(p) PROVE Steps
  <2>1. Walks(p, "idle", "running")
    BY <1>12 DEF Deliver!ReadEntry, Walks, Goes, Deliver!Go, Deliver!web, Deliver!local,
                 Deliver!ended, Deliver!world
  <2> QED BY <1>4, <2>1 DEF Places
<1>13. ASSUME NEW p \in Promotions, Deliver!CloneBaseline(p) PROVE Steps
  <2>1. CASE Deliver!Conclude(p, "running", "FAILED")
    BY <1>13, <2>1, Concluding DEF Deliver!CloneBaseline, Places, Deliver!Verdicts
  <2>2. CASE ~Deliver!Conclude(p, "running", "FAILED")
    <3>1. Walks(p, "running", "cloned")
      BY <1>13, <2>2 DEF Deliver!CloneBaseline, Walks, Goes, Deliver!Go, Deliver!web,
                         Deliver!local, Deliver!ended, Deliver!world
    <3> QED BY <1>4, <3>1 DEF Places
  <2> QED BY <2>1, <2>2
<1>14. ASSUME NEW p \in Promotions, Deliver!RecordPromotion(p) PROVE Steps
  <2>1. CASE Deliver!Conclude(p, "verifying", "FAILED")
    BY <1>14, <2>1, Concluding DEF Deliver!RecordPromotion, Places, Deliver!Verdicts
  <2>2. CASE ~Deliver!Conclude(p, "verifying", "FAILED")
    <3>1. Walks(p, "verifying", "popping")
      BY <1>14, <2>2 DEF Deliver!RecordPromotion, Walks, Goes, Deliver!Go, Deliver!web,
                         Deliver!local, Deliver!ended, Deliver!world
    <3> QED BY <1>4, <3>1 DEF Places
  <2> QED BY <2>1, <2>2
<1>15. ASSUME NEW p \in Promotions, Deliver!PopEntry(p) PROVE Steps
  BY <1>15, Concluding DEF Deliver!PopEntry, Places, Deliver!Verdicts
<1>16. ASSUME NEW i \in DOMAIN delivery_deploys,
              \/ Deliver!Built(i, "SUCCESS") \/ Deliver!Built(i, "FAILED")
              \/ Deliver!Cutover(i)
       PROVE  Steps
  BY <1>16 DEF Deliver!Built, Deliver!Cutover, Built, GoesLive, Steps, PlatformSteps,
               Deliver!web, Deliver!local, Deliver!ended
<1>17. CASE Deliver!CooldownOver \/ Deliver!RecordCandidate \/ Deliver!MasterMoves
  <2>1. Nothing
    BY <1>17 DEF Deliver!CooldownOver, Deliver!RecordCandidate, Deliver!MasterMoves, Nothing,
                 Deliver!web, Deliver!local, Deliver!ended, Deliver!world
  <2> QED BY <2>1 DEF Steps
<1> QED BY <1>1, <1>2, <1>3, <1>5, <1>6, <1>7, <1>8, <1>9, <1>10, <1>11, <1>12, <1>13,
           <1>14, <1>15, <1>16, <1>17
        DEF Deliver!Next, Deliver!RunStep, Deliver!PromotionStep

\* Where an actor goes is a place.
LEMMA GoesIsPlace ==
  ASSUME Shape, NEW a \in Deliver!Actors, NEW from, NEW to \in Places, Goes(a, from, to)
  PROVE  delivery_place' \in [Deliver!Actors -> Places]
BY DEF Shape, Goes


\* A deployment is added behind the ones there are.
LEMMA Appended ==
  ASSUME Shape, NEW a \in Deliver!Actors,
         delivery_deploys' = Append(delivery_deploys, Deliver!Deployed(a))
  PROVE  /\ delivery_deploys' \in Seq(Deliver!Deployment)
         /\ Len(delivery_deploys') = Len(delivery_deploys) + 1
         /\ DOMAIN delivery_deploys' = DOMAIN delivery_deploys \cup {Len(delivery_deploys) + 1}
         /\ \A i \in DOMAIN delivery_deploys : delivery_deploys'[i] = delivery_deploys[i]
         /\ delivery_deploys'[Len(delivery_deploys) + 1] = Deliver!Deployed(a)
         /\ Deliver!Deployed(a).by = a
<1>1. Deliver!Deployed(a) \in Deliver!Deployment
  BY Sets DEF Shape, Deliver!Deployed, Deliver!Deployment, Deliver!Wanted
<1>2. Deliver!Deployed(a).by = a
  BY DEF Deliver!Deployed
<1> QED BY <1>1, <1>2 DEF Shape


\* The shape stays.
LEMMA ShapeStep ==
  ASSUME Shape, Steps
  PROVE  Shape'
<1> USE Sets
<1>1. CASE Nothing
  BY <1>1 DEF Nothing, Shape
<1>2. ASSUME NEW i \in DOMAIN delivery_deploys, GoesLive(i) PROVE Shape'
  BY <1>2 DEF GoesLive, Shape
<1>3. ASSUME NEW i \in DOMAIN delivery_deploys, NEW s \in {"SUCCESS", "FAILED"}, Built(i, s)
      PROVE  Shape'
  <2>1. Len(delivery_deploys') = Len(delivery_deploys) /\ DOMAIN delivery_deploys' = DOMAIN delivery_deploys
    BY <1>3 DEF Built, Shape
  <2>2. delivery_deploys' \in Seq(Deliver!Deployment)
    <3>1. [delivery_deploys[i] EXCEPT !.status = s] \in Deliver!Deployment
      <4>1. delivery_deploys[i] \in Deliver!Deployment
        BY <1>3 DEF Shape
      <4> QED BY <1>3, <4>1 DEF Deliver!Deployment
    <3> QED BY <1>3, <3>1 DEF Built, Shape
  <2> QED BY <1>3, <2>1, <2>2 DEF Built, Shape
<1>4. ASSUME NEW j \in Deliver!Jobs, Admitted(j) PROVE Shape'
  <2>1. delivery_place' \in [Deliver!Actors -> Places]
    BY <1>4, GoesIsPlace DEF Admitted, Places
  <2>2. delivery_want' \in [Deliver!Jobs -> Values]
    BY <1>4 DEF Admitted, Shape
  <2> QED BY <1>4, <2>1, <2>2 DEF Admitted, Shape
<1>5. ASSUME NEW j \in Deliver!Jobs, NEW from \in {"idle", "admitted"}, Starts(j, from)
      PROVE  Shape'
  <2>1. delivery_place' \in [Deliver!Actors -> Places]
    BY <1>5, GoesIsPlace DEF Starts, Places
  <2> QED BY <1>5, <2>1 DEF Starts, Shape
<1>6. ASSUME NEW j \in Deliver!Jobs, NEW from \in {"idle", "admitted"}, TurnedAway(j, from)
      PROVE  Shape'
  <2>1. delivery_place' \in [Deliver!Actors -> Places]
    BY <1>6, GoesIsPlace DEF TurnedAway, Places
  <2> QED BY <1>6, <2>1 DEF TurnedAway, Shape
<1>7. ASSUME NEW j \in Deliver!Jobs, NEW to \in {"released", "done"}, Leaves(j, to)
      PROVE  Shape'
  <2>1. delivery_place' \in [Deliver!Actors -> Places]
    BY <1>7, GoesIsPlace DEF Leaves, Places
  <2> QED BY <1>7, <2>1 DEF Leaves, Shape
<1>8. ASSUME NEW a \in Deliver!Actors, NEW from \in Places, NEW to \in Places,
             Walks(a, from, to)
      PROVE  Shape'
  <2>1. delivery_place' \in [Deliver!Actors -> Places]
    BY <1>8, GoesIsPlace DEF Walks
  <2> QED BY <1>8, <2>1 DEF Walks, Shape
<1>9. ASSUME NEW a \in Deliver!Actors, Notes(a) PROVE Shape'
  <2>1. delivery_place' \in [Deliver!Actors -> Places]
    BY <1>9, GoesIsPlace DEF Notes, Places
  <2>2. delivery_since' \in [Deliver!Actors -> Nat]
    BY <1>9 DEF Notes, Shape
  <2> QED BY <1>9, <2>1, <2>2 DEF Notes, Shape
<1>10. ASSUME NEW a \in Deliver!Actors, Deploys(a) PROVE Shape'
  <2>1. delivery_place' \in [Deliver!Actors -> Places]
    BY <1>10, GoesIsPlace DEF Deploys, Places
  <2>2. delivery_deploys' = Append(delivery_deploys, Deliver!Deployed(a))
    BY <1>10 DEF Deploys
  <2>3. /\ delivery_deploys' \in Seq(Deliver!Deployment)
        /\ Len(delivery_deploys') = Len(delivery_deploys) + 1
        /\ DOMAIN delivery_deploys \subseteq DOMAIN delivery_deploys'
    BY <1>10, <2>2, Appended
  <2> QED BY <1>10, <2>1, <2>3 DEF Deploys, Shape
<1>11. ASSUME NEW a \in Deliver!Actors, Finds(a) PROVE Shape'
  <2>1. delivery_place' \in [Deliver!Actors -> Places]
    BY <1>11, GoesIsPlace DEF Finds, Places
  <2>2. delivery_found' \in [Deliver!Actors -> {0} \cup DOMAIN delivery_deploys]
    BY <1>11 DEF Finds, Shape
  <2> QED BY <1>11, <2>1, <2>2 DEF Finds, Shape
<1>12. ASSUME NEW a \in Deliver!Actors, NEW from \in Places, NEW v \in Deliver!Verdicts,
             Ends(a, from, v)
      PROVE  Shape'
  <2>1. delivery_place' \in [Deliver!Actors -> Places]
    BY <1>12, GoesIsPlace DEF Ends, Places
  <2>2. /\ delivery_deploys' \in Seq(Deliver!Deployment)
        /\ Len(delivery_deploys) <= Len(delivery_deploys')
        /\ DOMAIN delivery_deploys \subseteq DOMAIN delivery_deploys'
    <3>1. CASE delivery_deploys' = delivery_deploys
      BY <3>1 DEF Shape
    <3>2. CASE delivery_deploys' = Append(delivery_deploys, Deliver!Deployed(a))
      BY <3>2, Appended DEF Shape
    <3> QED BY <1>12, <3>1, <3>2 DEF Ends
  <2>3. delivery_since' \in [Deliver!Actors -> Nat]
    BY <1>12 DEF Ends, Shape
  <2>4. delivery_found' \in [Deliver!Actors -> {0} \cup DOMAIN delivery_deploys']
    BY <1>12, <2>2 DEF Ends, Shape
  <2>5. delivery_verdict' \in [Deliver!Actors -> Deliver!Verdicts \cup {None}]
    BY <1>12 DEF Ends, Shape
  <2>6. delivery_log' \in Seq(Deliver!Jobs)
    BY <1>12 DEF Ends, Shape, Runners
  <2>7. delivery_live' \in 0..Len(delivery_deploys')
    BY <1>12, <2>2 DEF Ends, Shape
  <2> QED BY <1>12, <2>1, <2>2, <2>3, <2>4, <2>5, <2>6, <2>7 DEF Ends, Shape
<1> QED BY <1>1, <1>2, <1>3, <1>4, <1>5, <1>6, <1>7,
           <1>8, <1>9, <1>10, <1>11, <1>12
        DEF Steps, JobSteps, ActorSteps, PlatformSteps

\* What a deployment changes, point by point.
Grown(a) ==
  /\ \A i \in DOMAIN delivery_deploys :
       i \in DOMAIN delivery_deploys' /\ delivery_deploys'[i] = delivery_deploys[i]
  /\ \A i \in DOMAIN delivery_deploys' : i \notin DOMAIN delivery_deploys =>
       i = Len(delivery_deploys) + 1 /\ delivery_deploys'[i] = Deliver!Deployed(a)
  /\ Deliver!Deployed(a).by = a

\* A deployment is one more at the end.
LEMMA DeploysFacts ==
  ASSUME Shape, NEW a \in Deliver!Actors, Deploys(a)
  PROVE  Grown(a) /\ Len(delivery_deploys') = Len(delivery_deploys) + 1
<1>1. delivery_deploys' = Append(delivery_deploys, Deliver!Deployed(a))
  BY DEF Deploys
<1> QED BY <1>1, Appended DEF Grown

\* What a conclusion changes, point by point.
LEMMA EndsFacts ==
  ASSUME Shape, NEW a \in Deliver!Actors, NEW from \in Places, NEW v \in Deliver!Verdicts,
         Ends(a, from, v)
  PROVE  /\ delivery_place[a] = from /\ from \notin Over
         /\ \A b \in Deliver!Actors : b # a =>
              /\ delivery_place'[b] = delivery_place[b] /\ delivery_since'[b] = delivery_since[b]
              /\ delivery_found'[b] = delivery_found[b] /\ delivery_verdict'[b] = delivery_verdict[b]
         /\ delivery_place'[a] = "ending" /\ delivery_since'[a] = 0
         /\ delivery_found'[a] = 0 /\ delivery_verdict'[a] = v
         /\ Grown(a)
         /\ delivery_deploys' # delivery_deploys => from = "triggered" /\ v = "FAILED"
<1>1. CASE delivery_deploys' = delivery_deploys
  BY <1>1, Appended DEF Shape, Ends, Goes, Over, Grown, Deliver!Deployed
<1>2. CASE delivery_deploys' = Append(delivery_deploys, Deliver!Deployed(a))
  <2>1. Grown(a)
    BY <1>2, Appended DEF Grown
  <2> QED BY <1>2, <2>1 DEF Shape, Ends, Goes, Over
<1> QED BY <1>1, <1>2 DEF Ends


\* The slot follows the runs.
LEMMA SlotStep ==
  ASSUME Shape, PlacesOK, Deliver!SlotIsTheRunning, Steps
  PROVE  Deliver!SlotIsTheRunning'
<1> USE Sets
<1>1. CASE Nothing
  BY <1>1 DEF Nothing, Shape, Places, Over, PlacesOK, Deliver!SlotIsTheRunning,
              Deliver!InPipeline
<1>2. ASSUME NEW i \in DOMAIN delivery_deploys, GoesLive(i) PROVE Deliver!SlotIsTheRunning'
  BY <1>2 DEF GoesLive, Shape, Places, Over, PlacesOK, Deliver!SlotIsTheRunning,
              Deliver!InPipeline
<1>3. ASSUME NEW i \in DOMAIN delivery_deploys, NEW s \in {"SUCCESS", "FAILED"}, Built(i, s)
      PROVE  Deliver!SlotIsTheRunning'
  BY <1>3 DEF Built, Shape, Places, Over, PlacesOK, Deliver!SlotIsTheRunning,
              Deliver!InPipeline
<1>4. ASSUME NEW j \in Deliver!Jobs, Admitted(j) PROVE Deliver!SlotIsTheRunning'
  BY <1>4 DEF Admitted, Goes, Shape, Places, Over, PlacesOK, Deliver!SlotIsTheRunning,
              Deliver!InPipeline
<1>5. ASSUME NEW j \in Deliver!Jobs, NEW from \in {"idle", "admitted"}, Starts(j, from)
      PROVE  Deliver!SlotIsTheRunning'
  BY <1>5 DEF Starts, Goes, Shape, Places, Over, PlacesOK, Deliver!SlotIsTheRunning,
              Deliver!InPipeline
<1>6. ASSUME NEW j \in Deliver!Jobs, NEW from \in {"idle", "admitted"}, TurnedAway(j, from)
      PROVE  Deliver!SlotIsTheRunning'
  BY <1>6 DEF TurnedAway, Goes, Shape, Places, Over, PlacesOK, Deliver!SlotIsTheRunning,
              Deliver!InPipeline
<1>7. ASSUME NEW j \in Deliver!Jobs, NEW to \in {"released", "done"}, Leaves(j, to)
      PROVE  Deliver!SlotIsTheRunning'
  BY <1>7 DEF Leaves, Goes, Shape, Places, Over, PlacesOK, Deliver!SlotIsTheRunning,
              Deliver!InPipeline
<1>8. ASSUME NEW a \in Deliver!Actors, NEW from \in Places, NEW to \in Places,
             Walks(a, from, to)
      PROVE  Deliver!SlotIsTheRunning'
  BY <1>8 DEF Walks, Goes, Shape, Places, Over, PlacesOK, Deliver!SlotIsTheRunning,
              Deliver!InPipeline
<1>9. ASSUME NEW a \in Deliver!Actors, Notes(a) PROVE Deliver!SlotIsTheRunning'
  BY <1>9 DEF Notes, Goes, Shape, Places, Over, PlacesOK, Deliver!SlotIsTheRunning,
              Deliver!InPipeline
<1>10. ASSUME NEW a \in Deliver!Actors, Deploys(a) PROVE Deliver!SlotIsTheRunning'
  BY <1>10 DEF Deploys, Goes, Shape, Places, Over, PlacesOK, Deliver!SlotIsTheRunning,
               Deliver!InPipeline
<1>11. ASSUME NEW a \in Deliver!Actors, Finds(a) PROVE Deliver!SlotIsTheRunning'
  BY <1>11 DEF Finds, Goes, Shape, Places, Over, PlacesOK, Deliver!SlotIsTheRunning,
               Deliver!InPipeline
<1>12. ASSUME NEW a \in Deliver!Actors, NEW from \in Places, NEW v \in Deliver!Verdicts,
             Ends(a, from, v)
      PROVE  Deliver!SlotIsTheRunning'
  <2>1. delivery_slot' = delivery_slot /\ delivery_place[a] # "released" /\ delivery_place[a] # "done"
    BY <1>12 DEF Ends, Goes
  <2>2. a \in Deliver!Jobs => Deliver!InPipeline(a)
    BY <1>12 DEF Ends, Goes, Deliver!InPipeline, PlacesOK, Over
  <2> QED BY <1>12, <2>1, <2>2, EndsFacts DEF Deliver!SlotIsTheRunning, Deliver!InPipeline
<1> QED BY <1>1, <1>2, <1>3, <1>4, <1>5, <1>6, <1>7,
           <1>8, <1>9, <1>10, <1>11, <1>12
        DEF Steps, JobSteps, ActorSteps, PlatformSteps

\* Threads stay where they may be.
LEMMA PlacesStep ==
  ASSUME Shape, PlacesOK, Steps
  PROVE  PlacesOK'
<1> USE Sets
<1>1. CASE Nothing
  BY <1>1 DEF Nothing, Shape, Places, Before, Over, DeployedBy, PlacesOK
<1>2. ASSUME NEW i \in DOMAIN delivery_deploys, GoesLive(i) PROVE PlacesOK'
  BY <1>2 DEF GoesLive, Shape, Places, Before, Over, DeployedBy, PlacesOK
<1>3. ASSUME NEW i \in DOMAIN delivery_deploys, NEW s \in {"SUCCESS", "FAILED"}, Built(i, s)
      PROVE  PlacesOK'
  BY <1>3 DEF Built, Shape, Places, Before, Over, DeployedBy, PlacesOK
<1>4. ASSUME NEW j \in Deliver!Jobs, Admitted(j) PROVE PlacesOK'
  BY <1>4 DEF Admitted, Goes, Shape, Places, Before, Over, DeployedBy, PlacesOK
<1>5. ASSUME NEW j \in Deliver!Jobs, NEW from \in {"idle", "admitted"}, Starts(j, from)
      PROVE  PlacesOK'
  BY <1>5 DEF Starts, Goes, Shape, Places, Before, Over, DeployedBy, PlacesOK
<1>6. ASSUME NEW j \in Deliver!Jobs, NEW from \in {"idle", "admitted"}, TurnedAway(j, from)
      PROVE  PlacesOK'
  BY <1>6 DEF TurnedAway, Goes, Shape, Places, Before, Over, DeployedBy, PlacesOK
<1>7. ASSUME NEW j \in Deliver!Jobs, NEW to \in {"released", "done"}, Leaves(j, to)
      PROVE  PlacesOK'
  BY <1>7 DEF Leaves, Goes, Shape, Places, Before, Over, DeployedBy, PlacesOK
<1>8. ASSUME NEW a \in Deliver!Actors, NEW from \in Places, NEW to \in Places,
             Walks(a, from, to)
      PROVE  PlacesOK'
  BY <1>8 DEF Walks, Goes, Shape, Places, Before, Over, DeployedBy, PlacesOK
<1>9. ASSUME NEW a \in Deliver!Actors, Notes(a) PROVE PlacesOK'
  BY <1>9 DEF Notes, Goes, Shape, Places, Before, Over, DeployedBy, PlacesOK
<1>10. ASSUME NEW a \in Deliver!Actors, Deploys(a) PROVE PlacesOK'
  <2>1. Grown(a)
    BY <1>10, DeploysFacts
  <2>2. a \notin Agents
    BY <1>10 DEF Deploys, Goes, PlacesOK, Over
  <2>3. \A j \in Runners : delivery_place'[j] \in Before =>
          delivery_place[j] \in Before /\ j # a
    BY <1>10 DEF Deploys, Goes, Shape, Before, Runners
  <2>4. \A j \in Runners : delivery_place'[j] \in Before => (DeployedBy(j) = {})'
    BY <2>1, <2>3 DEF PlacesOK, DeployedBy, Grown
  <2>5. \A j \in Runners : (delivery_found[j] # 0 =>
          delivery_place[j] = "verifying" /\ delivery_found[j] > delivery_since[j])'
    BY <1>10 DEF Deploys, Goes, PlacesOK, Shape, Runners
  <2>6. \A j \in Agents : delivery_place'[j] \in {"idle", "running"} \cup Over
    BY <1>10, <2>2 DEF Deploys, Goes, PlacesOK, Shape
  <2> QED BY <2>4, <2>5, <2>6 DEF PlacesOK
<1>11. ASSUME NEW a \in Deliver!Actors, Finds(a) PROVE PlacesOK'
  BY <1>11 DEF Finds, Goes, Shape, Places, Before, Over, DeployedBy, PlacesOK
<1>12. ASSUME NEW a \in Deliver!Actors, NEW from \in Places, NEW v \in Deliver!Verdicts,
             Ends(a, from, v)
      PROVE  PlacesOK'
  <2>1. Grown(a)
    BY <1>12, EndsFacts
  <2>2. \A j \in Runners : delivery_place'[j] \in Before =>
          delivery_place[j] \in Before /\ j # a
    BY <1>12, EndsFacts DEF Before, Runners
  <2>3. \A j \in Runners : delivery_place'[j] \in Before => (DeployedBy(j) = {})'
    BY <2>1, <2>2 DEF PlacesOK, DeployedBy, Grown
  <2>4. \A j \in Runners : (delivery_found[j] # 0 =>
          delivery_place[j] = "verifying" /\ delivery_found[j] > delivery_since[j])'
    BY <1>12, EndsFacts DEF PlacesOK, Runners
  <2>5. \A j \in Agents : delivery_place'[j] \in {"idle", "running"} \cup Over
    BY <1>12, EndsFacts DEF PlacesOK, Over
  <2> QED BY <2>3, <2>4, <2>5 DEF PlacesOK
<1> QED BY <1>1, <1>2, <1>3, <1>4, <1>5, <1>6, <1>7,
           <1>8, <1>9, <1>10, <1>11, <1>12
        DEF Steps, JobSteps, ActorSteps, PlatformSteps

\* Of the runners only one has the slot, and only it can be on its way.
LEMMA OnlyOne ==
  ASSUME Deliver!SlotIsTheRunning, NEW j \in Runners, NEW k \in Runners,
         Deliver!InPipeline(j), Deliver!InPipeline(k)
  PROVE  j = k
BY Sets DEF Deliver!SlotIsTheRunning


\* Beside a runner that waits only promotions deploy.
LEMMA OwnStep ==
  ASSUME Shape, PlacesOK, Deliver!SlotIsTheRunning, OwnOK, Steps
  PROVE  OwnOK'
<1> USE Sets
<1>1. CASE Nothing
  BY <1>1 DEF Nothing, Shape, Places, Watching, Before, Since, PlacesOK, OwnOK,
              Deliver!SlotIsTheRunning, Deliver!InPipeline, Deliver!NoPromotionSince
<1>2. ASSUME NEW i \in DOMAIN delivery_deploys, GoesLive(i) PROVE OwnOK'
  BY <1>2 DEF GoesLive, Shape, Places, Watching, Before, Since, PlacesOK, OwnOK,
              Deliver!SlotIsTheRunning, Deliver!InPipeline, Deliver!NoPromotionSince
<1>3. ASSUME NEW i \in DOMAIN delivery_deploys, NEW s \in {"SUCCESS", "FAILED"}, Built(i, s)
      PROVE  OwnOK'
  BY <1>3 DEF Built, Shape, Places, Watching, Before, Since, PlacesOK, OwnOK,
              Deliver!SlotIsTheRunning, Deliver!InPipeline, Deliver!NoPromotionSince
<1>4. ASSUME NEW j \in Deliver!Jobs, Admitted(j) PROVE OwnOK'
  BY <1>4 DEF Admitted, Goes, Shape, Places, Watching, Before, Since, PlacesOK, OwnOK,
              Deliver!SlotIsTheRunning, Deliver!InPipeline, Deliver!NoPromotionSince
<1>5. ASSUME NEW j \in Deliver!Jobs, NEW from \in {"idle", "admitted"}, Starts(j, from)
      PROVE  OwnOK'
  BY <1>5 DEF Starts, Goes, Shape, Places, Watching, Before, Since, PlacesOK, OwnOK,
              Deliver!SlotIsTheRunning, Deliver!InPipeline, Deliver!NoPromotionSince
<1>6. ASSUME NEW j \in Deliver!Jobs, NEW from \in {"idle", "admitted"}, TurnedAway(j, from)
      PROVE  OwnOK'
  BY <1>6 DEF TurnedAway, Goes, Shape, Places, Watching, Before, Since, PlacesOK, OwnOK,
              Deliver!SlotIsTheRunning, Deliver!InPipeline, Deliver!NoPromotionSince
<1>7. ASSUME NEW j \in Deliver!Jobs, NEW to \in {"released", "done"}, Leaves(j, to)
      PROVE  OwnOK'
  BY <1>7 DEF Leaves, Goes, Shape, Places, Watching, Before, Since, PlacesOK, OwnOK,
              Deliver!SlotIsTheRunning, Deliver!InPipeline, Deliver!NoPromotionSince
<1>8. ASSUME NEW a \in Deliver!Actors, NEW from \in Places, NEW to \in Places,
             Walks(a, from, to)
      PROVE  OwnOK'
  BY <1>8 DEF Walks, Goes, Shape, Places, Watching, Before, Since, PlacesOK, OwnOK,
              Deliver!SlotIsTheRunning, Deliver!InPipeline, Deliver!NoPromotionSince
<1>9. ASSUME NEW a \in Deliver!Actors, Notes(a) PROVE OwnOK'
  BY <1>9 DEF Notes, Goes, Shape, Places, Watching, Before, Since, PlacesOK, OwnOK,
              Deliver!SlotIsTheRunning, Deliver!InPipeline, Deliver!NoPromotionSince
<1>10. ASSUME NEW a \in Deliver!Actors, Deploys(a) PROVE OwnOK'
  <2>1. Grown(a)
    BY <1>10, DeploysFacts
  <2>2. SUFFICES ASSUME NEW j \in Runners, Deliver!NoPromotionSince(j)'
                 PROVE  /\ (delivery_place[j] = "triggered" => Since(j) = {})'
                        /\ (delivery_place[j] \in Watching =>
                              \A i \in Since(j) : delivery_deploys[i].by = j)'
    BY DEF OwnOK
  <2>3. a \notin Agents /\ delivery_place[a] = "triggered" /\ delivery_place'[a] = "waiting"
    BY <1>10 DEF Deploys, Goes, PlacesOK, Over, Shape
  <2>4. delivery_since' = delivery_since
    BY <1>10 DEF Deploys
  <2>5. Deliver!NoPromotionSince(j)
    BY <2>1, <2>2, <2>4 DEF Deliver!NoPromotionSince, Grown
  <2>6. CASE j = a
    <3>1. \A i \in Since(j)' : delivery_deploys'[i].by = j
      BY <2>1, <2>3, <2>4, <2>5, <2>6 DEF OwnOK, Since, Grown
    <3> QED BY <2>3, <2>6, <3>1 DEF Watching
  <2>7. CASE j # a
    <3>1. delivery_place'[j] = delivery_place[j]
      BY <1>10, <2>7 DEF Deploys, Goes, Shape, Runners
    <3>2. ASSUME Deliver!InPipeline(j) PROVE Since(j)' = Since(j)
      <4>1. a \in Promotions
        BY <2>3, <2>7, <3>2, OnlyOne DEF Deliver!InPipeline, Runners
      <4> QED BY <2>1, <2>2, <2>4, <4>1 DEF Since, Deliver!NoPromotionSince, Grown
    <3> QED BY <2>1, <2>5, <3>1, <3>2 DEF OwnOK, Since, Grown, Watching, Deliver!InPipeline
  <2> QED BY <2>6, <2>7
<1>11. ASSUME NEW a \in Deliver!Actors, Finds(a) PROVE OwnOK'
  BY <1>11 DEF Finds, Goes, Shape, Places, Watching, Before, Since, PlacesOK, OwnOK,
               Deliver!SlotIsTheRunning, Deliver!InPipeline, Deliver!NoPromotionSince
<1>12. ASSUME NEW a \in Deliver!Actors, NEW from \in Places, NEW v \in Deliver!Verdicts,
             Ends(a, from, v)
      PROVE  OwnOK'
  <2>1. Grown(a)
    BY <1>12, EndsFacts
  <2>2. SUFFICES ASSUME NEW j \in Runners, Deliver!NoPromotionSince(j)'
                 PROVE  /\ (delivery_place[j] = "triggered" => Since(j) = {})'
                        /\ (delivery_place[j] \in Watching =>
                              \A i \in Since(j) : delivery_deploys[i].by = j)'
    BY DEF OwnOK
  <2>3. j # a \/ delivery_place'[j] = "ending"
    BY <1>12, EndsFacts
  <2>4. CASE j # a
    <3>1. delivery_place'[j] = delivery_place[j] /\ delivery_since'[j] = delivery_since[j]
      BY <1>12, <2>4, EndsFacts DEF Runners
    <3>2. Deliver!NoPromotionSince(j)
      BY <2>1, <2>2, <3>1 DEF Deliver!NoPromotionSince, Grown
    <3>3. ASSUME Deliver!InPipeline(j) PROVE Since(j)' = Since(j)
      <4>1. a \in Promotions \/ delivery_deploys' = delivery_deploys
        <5>1. ASSUME delivery_deploys' # delivery_deploys, a \in Runners PROVE FALSE
          <6>1. Deliver!InPipeline(a)
            BY <1>12, <5>1, EndsFacts DEF Deliver!InPipeline
          <6> QED BY <2>4, <3>3, <5>1, <6>1, OnlyOne
        <5>2. a \in Agents => delivery_deploys' = delivery_deploys
          BY <1>12 DEF Ends
        <5> QED BY <5>1, <5>2 DEF Runners
      <4> QED BY <2>1, <2>2, <3>1, <4>1 DEF Since, Deliver!NoPromotionSince, Grown
    <3> QED BY <2>1, <3>1, <3>2, <3>3 DEF OwnOK, Since, Grown, Watching, Deliver!InPipeline
  <2> QED BY <2>3, <2>4 DEF Watching
<1> QED BY <1>1, <1>2, <1>3, <1>4, <1>5, <1>6, <1>7,
           <1>8, <1>9, <1>10, <1>11, <1>12
        DEF Steps, JobSteps, ActorSteps, PlatformSteps

\* Who has ended stays so.
LEMMA LogStep ==
  ASSUME Shape, LogOK, Steps
  PROVE  LogOK'
<1> USE Sets
<1>1. CASE Nothing
  BY <1>1 DEF Nothing, Shape, Places, Over, LogOK
<1>2. ASSUME NEW i \in DOMAIN delivery_deploys, GoesLive(i) PROVE LogOK'
  BY <1>2 DEF GoesLive, Shape, Places, Over, LogOK
<1>3. ASSUME NEW i \in DOMAIN delivery_deploys, NEW s \in {"SUCCESS", "FAILED"}, Built(i, s)
      PROVE  LogOK'
  BY <1>3 DEF Built, Shape, Places, Over, LogOK
<1>4. ASSUME NEW j \in Deliver!Jobs, Admitted(j) PROVE LogOK'
  BY <1>4 DEF Admitted, Goes, Shape, Places, Over, LogOK
<1>5. ASSUME NEW j \in Deliver!Jobs, NEW from \in {"idle", "admitted"}, Starts(j, from)
      PROVE  LogOK'
  BY <1>5 DEF Starts, Goes, Shape, Places, Over, LogOK
<1>6. ASSUME NEW j \in Deliver!Jobs, NEW from \in {"idle", "admitted"}, TurnedAway(j, from)
      PROVE  LogOK'
  BY <1>6 DEF TurnedAway, Goes, Shape, Places, Over, LogOK
<1>7. ASSUME NEW j \in Deliver!Jobs, NEW to \in {"released", "done"}, Leaves(j, to)
      PROVE  LogOK'
  BY <1>7 DEF Leaves, Goes, Shape, Places, Over, LogOK
<1>8. ASSUME NEW a \in Deliver!Actors, NEW from \in Places, NEW to \in Places,
             Walks(a, from, to)
      PROVE  LogOK'
  BY <1>8 DEF Walks, Goes, Shape, Places, Over, LogOK
<1>9. ASSUME NEW a \in Deliver!Actors, Notes(a) PROVE LogOK'
  BY <1>9 DEF Notes, Goes, Shape, Places, Over, LogOK
<1>10. ASSUME NEW a \in Deliver!Actors, Deploys(a) PROVE LogOK'
  BY <1>10 DEF Deploys, Goes, Shape, Places, Over, LogOK
<1>11. ASSUME NEW a \in Deliver!Actors, Finds(a) PROVE LogOK'
  BY <1>11 DEF Finds, Goes, Shape, Places, Over, LogOK
<1>12. ASSUME NEW a \in Deliver!Actors, NEW from \in Places, NEW v \in Deliver!Verdicts,
             Ends(a, from, v)
      PROVE  LogOK'
  BY <1>12 DEF Ends, Goes, Shape, Places, Over, LogOK
<1> QED BY <1>1, <1>2, <1>3, <1>4, <1>5, <1>6, <1>7,
           <1>8, <1>9, <1>10, <1>11, <1>12
        DEF Steps, JobSteps, ActorSteps, PlatformSteps

\* What production shows changes only with the deployment that serves it.
LEMMA LiveStays ==
  ASSUME Shape, delivery_live' = delivery_live,
         \A i \in DOMAIN delivery_deploys : delivery_deploys'[i].text = delivery_deploys[i].text
  PROVE  Deliver!Live' = Deliver!Live
BY DEF Shape, Deliver!Live


\* When all went well so far, all had gone well before, and a conclusion that is not
\* a good one, or a deployment that is not a runner's, is not the next step.
LEMMA WellBefore ==
  ASSUME Shape, LogOK, Steps, AllWell'
  PROVE  AllWell
<1> USE Sets
<1>1. ASSUME NEW a \in Deliver!Actors, Deploys(a) PROVE AllWell
  <2>1. Grown(a)
    BY <1>1, DeploysFacts
  <2> QED BY <1>1, <2>1 DEF Deploys, AllWell, Grown
<1>2. ASSUME NEW a \in Deliver!Actors, NEW from \in Places, NEW v \in Deliver!Verdicts,
             Ends(a, from, v)
      PROVE  AllWell
  <2>1. Grown(a)
    BY <1>2, EndsFacts
  <2>2. \A k \in DOMAIN delivery_log :
          /\ k \in DOMAIN delivery_log' /\ delivery_log'[k] = delivery_log[k]
          /\ delivery_log[k] \in Deliver!Actors
    BY <1>2 DEF Ends, Shape
  <2>3. \A k \in DOMAIN delivery_log :
          delivery_verdict'[delivery_log[k]] = delivery_verdict[delivery_log[k]]
    BY <1>2, <2>2, EndsFacts DEF LogOK
  <2> QED BY <2>1, <2>2, <2>3 DEF AllWell, Grown
<1>3. ASSUME NEW i \in DOMAIN delivery_deploys, NEW s \in {"SUCCESS", "FAILED"}, Built(i, s)
      PROVE  AllWell
  BY <1>3 DEF Built, AllWell, Shape, Deliver!Deployment
<1>4. ASSUME UNCHANGED <<delivery_log, delivery_verdict, delivery_deploys>> PROVE AllWell
  BY <1>4 DEF AllWell
<1> QED BY <1>1, <1>2, <1>3, <1>4
        DEF Steps, JobSteps, ActorSteps, PlatformSteps, Nothing, GoesLive, Admitted, Starts,
            TurnedAway, Leaves, Walks, Notes, Finds


\* While all goes well only runners deploy, and a conclusion deploys nothing.
LEMMA WellDeploys ==
  ASSUME Shape, PlacesOK, NEW a \in Deliver!Actors, Deploys(a), AllWell'
  PROVE  a \in Runners
<1>1. Grown(a) /\ Len(delivery_deploys') = Len(delivery_deploys) + 1
  BY DeploysFacts
<1>2. Len(delivery_deploys') \in DOMAIN delivery_deploys'
      /\ Len(delivery_deploys') \notin DOMAIN delivery_deploys
  BY <1>1, ShapeStep DEF Shape, Steps, ActorSteps
<1>3. delivery_deploys'[Len(delivery_deploys')].by = a
  BY <1>1, <1>2 DEF Grown
<1>4. a \notin Promotions
  BY <1>2, <1>3 DEF AllWell
<1> QED BY <1>4, Sets DEF Deploys, Goes, PlacesOK, Over

\* A run that ended well deployed nothing as it ended.
LEMMA WellEnds ==
  ASSUME Shape, PlacesOK, NEW a \in Deliver!Actors, NEW from \in Places,
         NEW v \in Deliver!Verdicts, Ends(a, from, v), AllWell'
  PROVE  /\ a \in Runners => v \in {"COMPLETED", "NO_CHANGE_NEEDED"}
         /\ delivery_deploys' = delivery_deploys
<1> USE Sets
<1>1. a \in Runners => v \in {"COMPLETED", "NO_CHANGE_NEEDED"}
  <2>1. a \in Runners => /\ Len(delivery_log') \in DOMAIN delivery_log'
                         /\ delivery_log'[Len(delivery_log')] = a
    BY DEF Ends, Shape
  <2> QED BY <2>1, EndsFacts DEF AllWell
<1>2. ASSUME delivery_deploys' # delivery_deploys PROVE FALSE
  <2>1. from = "triggered" /\ v = "FAILED"
    BY <1>2, EndsFacts
  <2>2. delivery_deploys' = Append(delivery_deploys, Deliver!Deployed(a))
    BY <1>2 DEF Ends
  <2>3. a \in Promotions
    BY <1>1, <2>1 DEF Ends, Runners
  <2>4. /\ Len(delivery_deploys) + 1 \in DOMAIN delivery_deploys'
        /\ delivery_deploys'[Len(delivery_deploys) + 1].by = a
    BY <2>2, Appended DEF Shape
  <2> QED BY <2>3, <2>4 DEF AllWell
<1> QED BY <1>1, <1>2


\* A runner that watches has made the newest deployment.
LEMMA NewestStep ==
  ASSUME Shape, PlacesOK, Deliver!SlotIsTheRunning, AllWell', NewestIsOwn, Steps
  PROVE  NewestIsOwn'
<1> USE Sets
<1>1. CASE Nothing
  BY <1>1 DEF Nothing, Shape, NewestIsOwn, Watching, DeployedBy, Runners,
              Deliver!Wanted, Places
<1>2. ASSUME NEW i \in DOMAIN delivery_deploys, GoesLive(i) PROVE NewestIsOwn'
  BY <1>2 DEF GoesLive, Shape, NewestIsOwn, Watching, DeployedBy, Runners,
              Deliver!Wanted, Places
<1>3. ASSUME NEW i \in DOMAIN delivery_deploys, NEW s \in {"SUCCESS", "FAILED"}, Built(i, s)
      PROVE  NewestIsOwn'
  <2>1. /\ Len(delivery_deploys') = Len(delivery_deploys)
        /\ \A k \in DOMAIN delivery_deploys : delivery_deploys'[k].by = delivery_deploys[k].by
                                           /\ delivery_deploys'[k].text = delivery_deploys[k].text
    BY <1>3 DEF Built, Shape, Deliver!Deployment
  <2>2. \A j \in Runners : DeployedBy(j)' = DeployedBy(j)
    BY <1>3, <2>1, ShapeStep DEF DeployedBy, Built, Shape
  <2>3. \A j \in Runners : Deliver!Wanted(j)' = Deliver!Wanted(j)
    BY <1>3 DEF Built, Deliver!Wanted
  <2> QED BY <1>3, <2>1, <2>2, <2>3 DEF NewestIsOwn, Watching, Built, DeployedBy, Shape
<1>4. ASSUME NEW j \in Deliver!Jobs, Admitted(j) PROVE NewestIsOwn'
  BY <1>4 DEF Admitted, Goes, Shape, NewestIsOwn, Watching, DeployedBy, Runners,
              Deliver!Wanted, Places
<1>5. ASSUME NEW j \in Deliver!Jobs, NEW from \in {"idle", "admitted"}, Starts(j, from)
      PROVE  NewestIsOwn'
  BY <1>5 DEF Starts, Goes, Shape, NewestIsOwn, Watching, DeployedBy, Runners,
              Deliver!Wanted, Places
<1>6. ASSUME NEW j \in Deliver!Jobs, NEW from \in {"idle", "admitted"}, TurnedAway(j, from)
      PROVE  NewestIsOwn'
  BY <1>6 DEF TurnedAway, Goes, Shape, NewestIsOwn, Watching, DeployedBy, Runners,
              Deliver!Wanted, Places
<1>7. ASSUME NEW j \in Deliver!Jobs, NEW to \in {"released", "done"}, Leaves(j, to)
      PROVE  NewestIsOwn'
  BY <1>7 DEF Leaves, Goes, Shape, NewestIsOwn, Watching, DeployedBy, Runners,
              Deliver!Wanted, Places
<1>8. ASSUME NEW a \in Deliver!Actors, NEW from \in Places, NEW to \in Places,
             Walks(a, from, to)
      PROVE  NewestIsOwn'
  BY <1>8 DEF Walks, Goes, Shape, NewestIsOwn, Watching, DeployedBy, Runners,
              Deliver!Wanted, Places
<1>9. ASSUME NEW a \in Deliver!Actors, Notes(a) PROVE NewestIsOwn'
  <2>1. \A j \in Runners : j # a =>
          delivery_place'[j] = delivery_place[j] /\ delivery_since'[j] = delivery_since[j]
    BY <1>9 DEF Notes, Goes, Shape, Runners
  <2>2. delivery_since'[a] = Len(delivery_deploys) /\ delivery_place'[a] = "triggered"
    BY <1>9 DEF Notes, Goes, Shape
  <2>3. delivery_deploys' = delivery_deploys /\ delivery_want' = delivery_want
    BY <1>9 DEF Notes
  <2> QED BY <2>1, <2>2, <2>3 DEF NewestIsOwn, Watching, DeployedBy, Deliver!Wanted
<1>10. ASSUME NEW a \in Deliver!Actors, Deploys(a) PROVE NewestIsOwn'
  <2>1. Grown(a) /\ Len(delivery_deploys') = Len(delivery_deploys) + 1
    BY <1>10, DeploysFacts
  <2>2. a \in Runners
    BY <1>10, WellDeploys
  <2>3. delivery_place[a] = "triggered" /\ delivery_place'[a] = "waiting"
        /\ delivery_since' = delivery_since /\ delivery_want' = delivery_want
    BY <1>10 DEF Deploys, Goes, Shape
  <2>4. \A j \in Runners : j # a =>
          delivery_place'[j] \notin Watching /\ delivery_place'[j] # "triggered"
    <3>1. Deliver!InPipeline(a)
      BY <2>3 DEF Deliver!InPipeline
    <3>2. \A j \in Runners : j # a => delivery_place'[j] = delivery_place[j]
      BY <1>10 DEF Deploys, Goes, Shape, Runners
    <3> QED BY <2>2, <3>1, <3>2, OnlyOne DEF Deliver!InPipeline, Watching
  <2>5. /\ Len(delivery_deploys') = delivery_since'[a] + 1
        /\ DOMAIN delivery_deploys' = DOMAIN delivery_deploys \cup {Len(delivery_deploys')}
    BY <1>10, <2>1, <2>2, <2>3, Appended DEF Deploys, NewestIsOwn
  <2>6. DeployedBy(a)' = {Len(delivery_deploys')}
    <3>1. DeployedBy(a) = {}
      BY <2>2, <2>3 DEF PlacesOK, Before
    <3> QED BY <1>10, <2>1, <2>5, <3>1, Appended DEF Deploys, DeployedBy, Shape
  <2>7. delivery_deploys'[Len(delivery_deploys')].text = Deliver!Wanted(a)'
    BY <1>10, <2>1, <2>2, <2>3, Appended DEF Deploys, Deliver!Deployed, Deliver!Wanted, Runners
  <2> QED BY <2>3, <2>4, <2>5, <2>6, <2>7 DEF NewestIsOwn
<1>11. ASSUME NEW a \in Deliver!Actors, Finds(a) PROVE NewestIsOwn'
  BY <1>11 DEF Finds, Goes, Shape, NewestIsOwn, Watching, DeployedBy, Runners,
               Deliver!Wanted, Places
<1>12. ASSUME NEW a \in Deliver!Actors, NEW from \in Places, NEW v \in Deliver!Verdicts,
             Ends(a, from, v)
      PROVE  NewestIsOwn'
  <2>1. delivery_deploys' = delivery_deploys /\ delivery_want' = delivery_want
    BY <1>12, WellEnds DEF Ends
  <2>2. \A j \in Runners : j # a =>
          delivery_place'[j] = delivery_place[j] /\ delivery_since'[j] = delivery_since[j]
    BY <1>12, EndsFacts DEF Runners
  <2>3. delivery_place'[a] = "ending"
    BY <1>12, EndsFacts
  <2> QED BY <2>1, <2>2, <2>3 DEF NewestIsOwn, Watching, DeployedBy, Deliver!Wanted
<1> QED BY <1>1, <1>2, <1>3, <1>4, <1>5, <1>6, <1>7,
           <1>8, <1>9, <1>10, <1>11, <1>12
        DEF Steps, JobSteps, ActorSteps, PlatformSteps

\* A step that moves no deployment and ends no delivery.
LEMMA NothingEnds ==
  ASSUME Shape, LogOK, LiveOK,
         UNCHANGED <<delivery_log, delivery_deploys, delivery_live>>,
         \A j \in Runners : Deliver!Delivering(j) => Deliver!Delivering(j)',
         \A j \in Runners : delivery_place[j] \in Over =>
           Deliver!Wanted(j)' = Deliver!Wanted(j)
  PROVE  LiveOK'
<1>1. Deliver!Live' = Deliver!Live
  BY LiveStays
<1>2. \A i \in DOMAIN delivery_deploys : Settled(i)' => Settled(i)
  BY DEF Settled
<1>3. \A i \in (DOMAIN delivery_deploys)' :
        i > delivery_live' /\ Settled(i)' => delivery_deploys'[i].text = Deliver!Live'
  BY <1>1, <1>2 DEF LiveOK
<1>4. delivery_log' # <<>> /\ (\A j \in Runners : ~Deliver!Delivering(j)') =>
        Deliver!Live' = Deliver!Wanted(delivery_log[Len(delivery_log)])'
  <2>1. delivery_log # <<>> => Len(delivery_log) \in DOMAIN delivery_log
    BY DEF Shape
  <2> QED BY <1>1, <2>1 DEF LiveOK, LogOK
<1> QED BY <1>3, <1>4 DEF LiveOK


\* What production shows, and what may still go live.
LEMMA LiveStep ==
  ASSUME Shape, PlacesOK, Deliver!SlotIsTheRunning, LogOK, AllWell', NewestIsOwn, LiveOK, Steps
  PROVE  LiveOK'
<1> USE Sets
<1>1. CASE Nothing
  <2>1. UNCHANGED <<delivery_log, delivery_deploys, delivery_live>>
    BY <1>1 DEF Nothing
  <2>2. \A k \in Runners : Deliver!Delivering(k) => Deliver!Delivering(k)'
    BY <1>1 DEF Nothing, Goes, Shape, Deliver!Delivering, Deliver!InPipeline, Runners
  <2>3. \A k \in Runners : delivery_place[k] \in Over => Deliver!Wanted(k)' = Deliver!Wanted(k)
    BY <1>1 DEF Nothing, Goes, Shape, Over, Deliver!Wanted, Runners
  <2> QED BY <2>1, <2>2, <2>3, NothingEnds
<1>2. ASSUME NEW i \in DOMAIN delivery_deploys, GoesLive(i) PROVE LiveOK'
  <2>1. Deliver!Live' = delivery_deploys[i].text
    BY <1>2 DEF GoesLive, Deliver!Live, Shape
  <2>2. UNCHANGED <<delivery_log, delivery_deploys, delivery_place, delivery_want>>
    BY <1>2 DEF GoesLive
  <2>3. CASE Settled(i)
    <3>1. Deliver!Live' = Deliver!Live
      BY <1>2, <2>1, <2>3 DEF GoesLive, LiveOK
    <3> QED BY <1>2, <2>2, <3>1
            DEF GoesLive, Shape, LiveOK, Settled, Deliver!Delivering, Deliver!InPipeline, Deliver!Wanted
  <2>4. CASE ~Settled(i)
    <3>1. PICK j \in Runners : Deliver!Delivering(j) /\ delivery_deploys[i].by = j
      BY <2>4 DEF Settled
    <3>2. i = Len(delivery_deploys)
      <4>1. delivery_place[j] \notin Before
        BY <1>2, <3>1 DEF PlacesOK, DeployedBy
      <4>2. delivery_place[j] \in Watching
        BY <3>1, <4>1 DEF Deliver!Delivering, Deliver!InPipeline, Before, Watching
      <4> QED BY <1>2, <3>1, <4>2 DEF NewestIsOwn, DeployedBy
    <3>3. Deliver!Delivering(j)'
      BY <2>2, <3>1 DEF Deliver!Delivering, Deliver!InPipeline
    <3> QED BY <1>2, <2>2, <3>2, <3>3 DEF GoesLive, Shape, LiveOK
  <2> QED BY <2>3, <2>4
<1>3. ASSUME NEW i \in DOMAIN delivery_deploys, NEW s \in {"SUCCESS", "FAILED"}, Built(i, s)
      PROVE  LiveOK'
  <2>1. /\ Len(delivery_deploys') = Len(delivery_deploys)
        /\ DOMAIN delivery_deploys' = DOMAIN delivery_deploys
        /\ \A k \in DOMAIN delivery_deploys : delivery_deploys'[k].by = delivery_deploys[k].by
                                           /\ delivery_deploys'[k].text = delivery_deploys[k].text
    BY <1>3 DEF Built, Shape, Deliver!Deployment
  <2>2. Deliver!Live' = Deliver!Live
    BY <1>3, <2>1, LiveStays DEF Built
  <2>3. UNCHANGED <<delivery_log, delivery_place, delivery_want, delivery_live>>
    BY <1>3 DEF Built
  <2> QED BY <2>1, <2>2, <2>3 DEF LiveOK, Settled, Deliver!Delivering, Deliver!InPipeline, Deliver!Wanted
<1>4. ASSUME NEW j \in Deliver!Jobs, Admitted(j) PROVE LiveOK'
  <2>1. UNCHANGED <<delivery_log, delivery_deploys, delivery_live>>
    BY <1>4 DEF Admitted
  <2>2. \A k \in Runners : Deliver!Delivering(k) => Deliver!Delivering(k)'
    BY <1>4 DEF Admitted, Goes, Shape, Deliver!Delivering, Deliver!InPipeline, Runners
  <2>3. \A k \in Runners : delivery_place[k] \in Over => Deliver!Wanted(k)' = Deliver!Wanted(k)
    BY <1>4 DEF Admitted, Goes, Shape, Over, Deliver!Wanted, Runners
  <2> QED BY <2>1, <2>2, <2>3, NothingEnds
<1>5. ASSUME NEW j \in Deliver!Jobs, NEW from \in {"idle", "admitted"}, Starts(j, from)
      PROVE  LiveOK'
  <2>1. UNCHANGED <<delivery_log, delivery_deploys, delivery_live>>
    BY <1>5 DEF Starts
  <2>2. \A k \in Runners : Deliver!Delivering(k) => Deliver!Delivering(k)'
    BY <1>5 DEF Starts, Goes, Shape, Deliver!Delivering, Deliver!InPipeline, Runners
  <2>3. \A k \in Runners : delivery_place[k] \in Over => Deliver!Wanted(k)' = Deliver!Wanted(k)
    BY <1>5 DEF Starts, Goes, Shape, Over, Deliver!Wanted, Runners
  <2> QED BY <2>1, <2>2, <2>3, NothingEnds
<1>6. ASSUME NEW j \in Deliver!Jobs, NEW from \in {"idle", "admitted"}, TurnedAway(j, from)
      PROVE  LiveOK'
  <2>1. UNCHANGED <<delivery_log, delivery_deploys, delivery_live>>
    BY <1>6 DEF TurnedAway
  <2>2. \A k \in Runners : Deliver!Delivering(k) => Deliver!Delivering(k)'
    BY <1>6 DEF TurnedAway, Goes, Shape, Deliver!Delivering, Deliver!InPipeline, Runners
  <2>3. \A k \in Runners : delivery_place[k] \in Over => Deliver!Wanted(k)' = Deliver!Wanted(k)
    BY <1>6 DEF TurnedAway, Goes, Shape, Over, Deliver!Wanted, Runners
  <2> QED BY <2>1, <2>2, <2>3, NothingEnds
<1>7. ASSUME NEW j \in Deliver!Jobs, NEW to \in {"released", "done"}, Leaves(j, to)
      PROVE  LiveOK'
  <2>1. UNCHANGED <<delivery_log, delivery_deploys, delivery_live>>
    BY <1>7 DEF Leaves
  <2>2. \A k \in Runners : Deliver!Delivering(k) => Deliver!Delivering(k)'
    BY <1>7 DEF Leaves, Goes, Shape, Deliver!Delivering, Deliver!InPipeline, Runners
  <2>3. \A k \in Runners : delivery_place[k] \in Over => Deliver!Wanted(k)' = Deliver!Wanted(k)
    BY <1>7 DEF Leaves, Goes, Shape, Over, Deliver!Wanted, Runners
  <2> QED BY <2>1, <2>2, <2>3, NothingEnds
<1>8. ASSUME NEW a \in Deliver!Actors, NEW from \in Places, NEW to \in Places,
             Walks(a, from, to)
      PROVE  LiveOK'
  <2>1. UNCHANGED <<delivery_log, delivery_deploys, delivery_live>>
    BY <1>8 DEF Walks
  <2>2. \A k \in Runners : Deliver!Delivering(k) => Deliver!Delivering(k)'
    BY <1>8 DEF Walks, Goes, Shape, Deliver!Delivering, Deliver!InPipeline, Runners
  <2>3. \A k \in Runners : delivery_place[k] \in Over => Deliver!Wanted(k)' = Deliver!Wanted(k)
    BY <1>8 DEF Walks, Goes, Shape, Over, Deliver!Wanted, Runners
  <2> QED BY <2>1, <2>2, <2>3, NothingEnds
<1>9. ASSUME NEW a \in Deliver!Actors, Notes(a) PROVE LiveOK'
  <2>1. UNCHANGED <<delivery_log, delivery_deploys, delivery_live>>
    BY <1>9 DEF Notes
  <2>2. \A k \in Runners : Deliver!Delivering(k) => Deliver!Delivering(k)'
    BY <1>9 DEF Notes, Goes, Shape, Deliver!Delivering, Deliver!InPipeline, Runners
  <2>3. \A k \in Runners : delivery_place[k] \in Over => Deliver!Wanted(k)' = Deliver!Wanted(k)
    BY <1>9 DEF Notes, Goes, Shape, Over, Deliver!Wanted, Runners
  <2> QED BY <2>1, <2>2, <2>3, NothingEnds
<1>10. ASSUME NEW a \in Deliver!Actors, Deploys(a) PROVE LiveOK'
  <2>1. Grown(a) /\ a \in Runners
    BY <1>10, DeploysFacts, WellDeploys
  <2>2. Deliver!Live' = Deliver!Live
    BY <1>10, <2>1, LiveStays DEF Deploys, Grown
  <2>3. Deliver!Delivering(a)' /\ \A j \in Runners : Deliver!Delivering(j) => Deliver!Delivering(j)'
    BY <1>10, <2>1 DEF Deploys, Goes, Shape, Deliver!Delivering, Deliver!InPipeline, Runners
  <2>4. ASSUME NEW i \in (DOMAIN delivery_deploys)', i > delivery_live', Settled(i)'
        PROVE  delivery_deploys'[i].text = Deliver!Live'
    <3>1. i \in DOMAIN delivery_deploys
      BY <2>1, <2>3, <2>4 DEF Settled, Grown
    <3>2. Settled(i)
      BY <2>1, <2>3, <2>4, <3>1 DEF Settled, Grown
    <3> QED BY <1>10, <2>1, <2>2, <2>4, <3>1, <3>2 DEF LiveOK, Grown, Deploys
  <2> QED BY <2>1, <2>3, <2>4 DEF LiveOK
<1>11. ASSUME NEW a \in Deliver!Actors, Finds(a) PROVE LiveOK'
  <2>1. UNCHANGED <<delivery_log, delivery_deploys, delivery_live>>
    BY <1>11 DEF Finds
  <2>2. \A k \in Runners : Deliver!Delivering(k) => Deliver!Delivering(k)'
    BY <1>11 DEF Finds, Goes, Shape, Deliver!Delivering, Deliver!InPipeline, Runners
  <2>3. \A k \in Runners : delivery_place[k] \in Over => Deliver!Wanted(k)' = Deliver!Wanted(k)
    BY <1>11 DEF Finds, Goes, Shape, Over, Deliver!Wanted, Runners
  <2> QED BY <2>1, <2>2, <2>3, NothingEnds
<1>12. ASSUME NEW a \in Deliver!Actors, NEW from \in Places, NEW v \in Deliver!Verdicts,
             Ends(a, from, v)
      PROVE  LiveOK'
  <2>1. delivery_deploys' = delivery_deploys
    BY <1>12, WellEnds
  <2>2. Deliver!Live' = Deliver!Live
    BY <1>12, <2>1, LiveStays DEF Ends
  <2>3. delivery_want' = delivery_want /\ delivery_live' = delivery_live
    BY <1>12 DEF Ends
  <2>4. \A j \in Runners : j # a => Deliver!Delivering(j)' = Deliver!Delivering(j)
    BY <1>12, EndsFacts DEF Deliver!Delivering, Deliver!InPipeline, Runners
  <2>5. CASE a \notin Runners
    <3>1. delivery_log' = delivery_log
      BY <1>12, <2>5 DEF Ends
    <3>2. \A j \in Runners : Deliver!Delivering(j) => Deliver!Delivering(j)'
      BY <2>4, <2>5
    <3> QED BY <2>1, <2>3, <3>1, <3>2, NothingEnds DEF Deliver!Wanted
  <2>6. CASE a \in Runners
    <3>1. Deliver!Live = Deliver!Wanted(a) /\ (from = "running" \/ from = "verifying")
      BY <1>12, <2>6, WellEnds DEF Ends
    <3>2. delivery_log' = Append(delivery_log, a)
      BY <1>12, <2>6 DEF Ends
    <3>3. \A j \in Runners : Deliver!Delivering(j) => j = a
      BY <1>12, <2>6, <3>1, OnlyOne DEF Ends, Goes, Deliver!Delivering, Deliver!InPipeline
    <3>4. ASSUME NEW i \in DOMAIN delivery_deploys, i > delivery_live
          PROVE  delivery_deploys[i].text = Deliver!Live
      <4>1. CASE delivery_deploys[i].by # a
        BY <3>3, <3>4, <4>1 DEF LiveOK, Settled
      <4>2. CASE delivery_deploys[i].by = a
        <5>1. i \in DeployedBy(a)
          BY <4>2 DEF DeployedBy
        <5>2. delivery_place[a] \in Watching
          BY <1>12, <2>6, <3>1, <5>1 DEF Ends, Goes, PlacesOK, Before, Watching
        <5> QED BY <2>6, <3>1, <5>1, <5>2 DEF NewestIsOwn
      <4> QED BY <4>1, <4>2
    <3>5. delivery_log'[Len(delivery_log')] = a
      BY <1>12, <3>2 DEF Shape
    <3>6. Deliver!Live' = Deliver!Wanted(a)'
      BY <2>2, <2>3, <3>1 DEF Deliver!Wanted
    <3> QED BY <2>1, <2>2, <2>3, <3>4, <3>5, <3>6 DEF LiveOK
  <2> QED BY <2>5, <2>6
<1> QED BY <1>1, <1>2, <1>3, <1>4, <1>5, <1>6, <1>7,
           <1>8, <1>9, <1>10, <1>11, <1>12
        DEF Steps, JobSteps, ActorSteps, PlatformSteps

-----------------------------------------------------------------------------
(* The invariant and what follows from it *)

\* The invariant holds at the start.
LEMMA DeliveryInit == Deliver!Init => DeliveryInv
<1> SUFFICES ASSUME Deliver!Init PROVE DeliveryInv
  OBVIOUS
<1> USE Sets DEF Deliver!Init
<1>1. Shape
  BY DEF Shape, Places
<1>2. PlacesOK /\ OwnOK /\ LogOK
  BY DEF PlacesOK, OwnOK, LogOK, Before, Watching, Over, DeployedBy, Runners
<1>3. Deliver!SlotIsTheRunning
  BY DEF Deliver!SlotIsTheRunning, Deliver!InPipeline
<1>4. NewestIsOwn /\ LiveOK
  BY DEF NewestIsOwn, LiveOK, Watching, Runners
<1> QED BY <1>1, <1>2, <1>3, <1>4 DEF DeliveryInv

\* Every step of a run, a reset, an agent run, a promotion or the platform keeps it.
LEMMA DeliveryStep ==
  ASSUME DeliveryInv, Deliver!Next \/ UNCHANGED delivery
  PROVE  DeliveryInv'
<1>1. Steps
  <2>1. UNCHANGED delivery => Nothing
    BY DEF delivery, Nothing
  <2> QED BY <2>1, StepKinds DEF DeliveryInv, Steps
<1>2. Shape' /\ (Deliver!SlotIsTheRunning)' /\ PlacesOK' /\ OwnOK' /\ LogOK'
  BY <1>1, ShapeStep, SlotStep, PlacesStep, OwnStep, LogStep DEF DeliveryInv
<1>3. ASSUME AllWell' PROVE NewestIsOwn' /\ LiveOK'
  <2>1. AllWell
    BY <1>1, <1>3, WellBefore DEF DeliveryInv
  <2> QED BY <1>1, <1>3, <2>1, NewestStep, LiveStep DEF DeliveryInv
<1> QED BY <1>2, <1>3 DEF DeliveryInv

\* For every set of trainer runs, resets, agent runs and promotions, however their
\* threads and the hosting platform interleave, the invariant holds
\* (web_server._run_trainer_thread, _run_reset_thread, triage_promotion).
THEOREM Deliveries == Spec => [](part = "delivery" => DeliveryInv)
<1>1. Init => (part = "delivery" => DeliveryInv)
  BY DeliveryInit DEF Init
<1>2. (part = "delivery" => DeliveryInv) /\ [Next]_vars => (part = "delivery" => DeliveryInv)'
  <2> SUFFICES ASSUME part = "delivery" => DeliveryInv, [Next]_vars, part' = "delivery"
               PROVE  DeliveryInv'
    OBVIOUS
  <2>1. /\ part = "delivery"
        /\ Deliver!Next \/ UNCHANGED delivery
    BY DEF Next, vars
  <2> QED BY <2>1, DeliveryStep
<1> QED BY <1>1, <1>2, PTL DEF Spec

\* The run slot belongs to exactly the run that is between its start and its `finally`
\* (web_server._reserve_run_slot, _release_run_slot).
THEOREM OneRunAtATime == Spec => []SlotIsTheRunning
<1>1. (part = "delivery" => DeliveryInv) => SlotIsTheRunning
  BY DEF DeliveryInv, SlotIsTheRunning
<1> QED BY <1>1, Deliveries, PTL

\* The deployment a trainer run or a reset found is its own, unless a promotion
\* deployed after it took the time (demo_execution.wait_for_new_deployment).
THEOREM OwnVerdict == Spec => []VerdictIsOwn
<1>1. DeliveryInv => Deliver!VerdictIsOwn
  <2> SUFFICES ASSUME DeliveryInv, NEW j \in Runners, delivery_found[j] # 0,
                      Deliver!NoPromotionSince(j)
               PROVE  delivery_deploys[delivery_found[j]].by = j
    BY DEF Deliver!VerdictIsOwn, Runners
  <2>1. delivery_place[j] = "verifying" /\ delivery_found[j] > delivery_since[j]
    BY DEF DeliveryInv, PlacesOK
  <2>2. delivery_found[j] \in Since(j)
    BY <2>1, Sets DEF DeliveryInv, Shape, Since
  <2> QED BY <2>1, <2>2 DEF DeliveryInv, OwnOK, Watching
<1>2. (part = "delivery" => DeliveryInv) => VerdictIsOwn
  BY <1>1 DEF VerdictIsOwn
<1> QED BY <1>2, Deliveries, PTL

\* When all runs so far ended well and no promotion deployed, production shows what
\* the last run was asked for, and nothing under way can change that.
THEOREM LastRunIsLive == Spec => []LastCompletedIsLive
<1>1. DeliveryInv => Deliver!LastCompletedIsLive
  BY DEF DeliveryInv, AllWell, LiveOK, Settled, Runners, Deliver!LastCompletedIsLive
<1>2. (part = "delivery" => DeliveryInv) => LastCompletedIsLive
  BY <1>1 DEF LastCompletedIsLive
<1> QED BY <1>2, Deliveries, PTL

-----------------------------------------------------------------------------
(* The agent runs *)

\* Places of a thread that has the run slot, and of one whose prompt is installed.
Started   == {"started", "asks model", "executes", "waits for human", "ending", "restored"}
Prompting == {"asks model", "executes", "waits for human", "ending"}

\* The shape of what runs and reviews keep.
AgentShape ==
  /\ agent_at \in [Runs -> Agent!Places]
  /\ agent_asking \in [Runs -> Edits \cup {None}]
  /\ agent_file \in [Paths -> Contents \cup {Original}]
  /\ agent_edits \in [Edits -> Agent!Edit \cup {None}]
  /\ DOMAIN agent_answer = Edits /\ DOMAIN agent_offered = Edits

\* The slot and the prompt belong to the one thread between its start and its end.
TurnOK ==
  /\ \A r \in Runs : agent_at[r] \in Started => agent_slot = r
  /\ \A r \in Runs : agent_at[r] \in Prompting => agent_prompt = r

Kept(e) == agent_edits[e] # None

\* What is approved was approved by the first click on what the run that proposed it
\* showed, and only what is approved is applied.
ReviewOK ==
  \A e \in Edits : Kept(e) =>
    /\ agent_offered[e] = agent_edits[e].by
    /\ agent_edits[e].approved => agent_answer[e] = "approve"
    /\ agent_edits[e].applied => agent_edits[e].approved

\* An edit that is waited for is neither dropped nor decided.
WaitingOK ==
  \A r \in Runs : agent_at[r] = "waits for human" =>
    /\ agent_asking[r] \in Edits /\ Kept(agent_asking[r])
    /\ ~agent_edits[agent_asking[r]].approved

\* Whatever stands in the write scope comes from an edit that was applied.
FileOK ==
  \A p \in Paths : agent_file[p] # Original =>
    \E e \in Edits : /\ Kept(e) /\ agent_edits[e].applied /\ agent_edits[e].path = p
                     /\ agent_edits[e].content = agent_file[p]

AgentInv == AgentShape /\ TurnOK /\ ReviewOK /\ WaitingOK /\ FileOK

-----------------------------------------------------------------------------
\* What is assumed of the constants.
LEMMA AgentConstants ==
  /\ None \notin Runs \cup Contents \cup Edits \cup Agent!Edit /\ Original \notin Contents
  /\ None # "approve"
BY WorkbenchAssumption DEF WorkbenchAssumption, Agent!AgentAssumption
\* An edit that is approved, or applied, is otherwise the same.
LEMMA FlagsOnly ==
  ASSUME NEW x \in Agent!Edit
  PROVE  LET y == [x EXCEPT !.approved = TRUE]
             z == [x EXCEPT !.applied = TRUE]
         IN  /\ y \in Agent!Edit /\ y.by = x.by /\ y.path = x.path /\ y.content = x.content
             /\ y.approved /\ (y.applied <=> x.applied)
             /\ z \in Agent!Edit /\ z.by = x.by /\ z.path = x.path /\ z.content = x.content
             /\ z.applied /\ (z.approved <=> x.approved)
BY DEF Agent!Edit

Proposed(r, p, c) ==
  [by |-> r, path |-> p, content |-> c, approved |-> FALSE, applied |-> FALSE]
\* An edit that is proposed is its run's, and neither approved nor applied.
LEMMA NewEdit ==
  ASSUME NEW r \in Runs, NEW p \in Paths, NEW c \in Contents
  PROVE  /\ Proposed(r, p, c) \in Agent!Edit /\ Proposed(r, p, c).by = r
         /\ ~Proposed(r, p, c).approved /\ ~Proposed(r, p, c).applied
BY DEF Agent!Edit, Proposed

-----------------------------------------------------------------------------
(* The steps, by what they do to the edits and to the files *)

Same(e) == agent_edits'[e] = agent_edits[e] /\ agent_offered'[e] = agent_offered[e]

\* No thread begins to wait, and nothing of the review changes.
Quiet ==
  /\ UNCHANGED <<agent_edits, agent_offered, agent_answer, agent_file, agent_asking>>
  /\ \A q \in Runs : agent_at'[q] = "waits for human" => agent_at[q] = "waits for human"

\* Threads but r wait as they did.
OthersWait(r) ==
  \A q \in Runs : agent_at'[q] = "waits for human" =>
    \/ q = r
    \/ agent_at[q] = "waits for human" /\ agent_asking'[q] = agent_asking[q]

Shows(r, e) ==
  /\ agent_edits[e] = None
  /\ \A f \in Edits : f # e => Same(f)
  /\ agent_edits'[e] \in Agent!Edit /\ agent_edits'[e].by = r /\ agent_offered'[e] = r
  /\ ~agent_edits'[e].approved /\ ~agent_edits'[e].applied
  /\ agent_asking'[r] = e /\ OthersWait(r)
  /\ UNCHANGED <<agent_answer, agent_file>>

Hears(r) ==
  LET e == agent_asking[r] IN
  /\ agent_at[r] = "waits for human" /\ agent_at'[r] # "waits for human"
  /\ \A f \in Edits : f # e => Same(f)
  /\ agent_offered'[e] = agent_offered[e]
  /\ \/ agent_edits'[e] = None
     \/ agent_answer[e] = "approve" /\ agent_edits'[e] = [agent_edits[e] EXCEPT !.approved = TRUE]
  /\ OthersWait(r) /\ UNCHANGED <<agent_answer, agent_file>>

Writes(e) ==
  /\ Kept(e) /\ agent_edits[e].approved
  /\ \A f \in Edits : f # e => Same(f)
  /\ agent_offered'[e] = agent_offered[e]
  /\ agent_edits'[e] = [agent_edits[e] EXCEPT !.applied = TRUE]
  /\ agent_file' = [agent_file EXCEPT ![agent_edits[e].path] = agent_edits[e].content]
  /\ \A q \in Runs : agent_at'[q] = agent_at[q] /\ agent_asking'[q] = agent_asking[q]
  /\ UNCHANGED agent_answer

Posts(e) ==
  /\ \A f \in Edits : agent_answer'[f] = agent_answer[f] \/ agent_answer[f] = None
  /\ \A q \in Runs : agent_at'[q] = agent_at[q] /\ agent_asking'[q] = agent_asking[q]
  /\ UNCHANGED <<agent_edits, agent_offered, agent_file>>

ReviewSteps ==
  \/ Quiet
  \/ \E r \in Runs : Hears(r) \/ \E e \in Edits : Shows(r, e)
  \/ \E e \in Edits : Writes(e) \/ Posts(e)

\* The shape stays.
LEMMA ShapeKept ==
  ASSUME AgentShape, WaitingOK, Agent!Next
  PROVE  AgentShape'
<1> USE AgentConstants DEF AgentShape, Agent!Places, WaitingOK, Kept
<1>1. ASSUME NEW r \in Runs, Agent!Start(r) PROVE AgentShape'
  BY <1>1 DEF Agent!Start, Agent!Go, Agent!tools, Agent!review
<1>2. ASSUME NEW r \in Runs, Agent!Begin(r) PROVE AgentShape'
  BY <1>2 DEF Agent!Begin, Agent!Go, Agent!tools, Agent!review
<1>3. ASSUME NEW r \in Runs, Agent!AskModel(r) PROVE AgentShape'
  BY <1>3 DEF Agent!AskModel, Agent!Go, Agent!tools, Agent!review, Agent!LeaveLoop
<1>4. ASSUME NEW r \in Runs, Agent!Raise(r) PROVE AgentShape'
  BY <1>4 DEF Agent!Raise, Agent!Go, Agent!tools, Agent!review, Agent!LeaveLoop
<1>5. ASSUME NEW r \in Runs, Agent!SendResults(r) PROVE AgentShape'
  BY <1>5 DEF Agent!SendResults, Agent!Go, Agent!tools, Agent!review
<1>6. ASSUME NEW r \in Runs, Agent!Skip(r) PROVE AgentShape'
  BY <1>6 DEF Agent!Skip, Agent!Go, Agent!tools, Agent!review
<1>7. ASSUME NEW r \in Runs, Agent!Look(r) PROVE AgentShape'
  BY <1>7 DEF Agent!Look, Agent!Go, Agent!tools, Agent!review, Agent!Execute
<1>8. ASSUME NEW r \in Runs, NEW p \in Paths, NEW c \in Contents, Agent!Propose(r, p, c) PROVE AgentShape'
  <2>1. CASE agent_prompt = None
    BY <1>8, <2>1 DEF Agent!Propose, Agent!tools, Agent!review, Agent!Execute
  <2>2. CASE agent_prompt # None
    <3>1. PICK e \in Edits :
            /\ agent_edits' = [agent_edits EXCEPT ![e] = Proposed(r, p, c)]
            /\ agent_offered' = [agent_offered EXCEPT ![e] = agent_prompt]
            /\ agent_asking' = [agent_asking EXCEPT ![r] = e]
            /\ Agent!Go(r, "executes", "waits for human") /\ UNCHANGED <<agent_answer, agent_file>>
      BY <1>8, <2>2 DEF Agent!Propose, Proposed
    <3>2. agent_edits' \in [Edits -> Agent!Edit \cup {None}]
      BY <3>1, NewEdit
    <3> QED BY <3>1, <3>2 DEF Agent!Go
  <2> QED BY <2>1, <2>2
<1>9. ASSUME NEW r \in Runs, NEW e \in Edits, Agent!Apply(r, e) PROVE AgentShape'
  <2>1. CASE Agent!MayApply(e)
    <3>1. agent_edits[e] \in Agent!Edit
      BY <2>1 DEF Agent!MayApply
    <3>2. agent_edits' = [agent_edits EXCEPT ![e] = [agent_edits[e] EXCEPT !.applied = TRUE]]
      BY <1>9, <2>1 DEF Agent!Apply
    <3>3. agent_edits' \in [Edits -> Agent!Edit \cup {None}]
      BY <3>1, <3>2, FlagsOnly
    <3>4. agent_file' \in [Paths -> Contents \cup {Original}]
      BY <1>9, <2>1, <3>1 DEF Agent!Apply, Agent!Edit
    <3> QED BY <1>9, <3>3, <3>4 DEF Agent!Apply
  <2>2. CASE ~Agent!MayApply(e)
    BY <1>9, <2>2 DEF Agent!Apply
  <2> QED BY <2>1, <2>2
<1>10. ASSUME NEW r \in Runs, Agent!Decided(r) PROVE AgentShape'
  <2>1. /\ agent_asking[r] \in Edits /\ agent_edits[agent_asking[r]] \in Agent!Edit
    BY <1>10 DEF Agent!Decided
  <2>2. agent_edits' \in [Edits -> Agent!Edit \cup {None}]
    BY <1>10, <2>1, FlagsOnly DEF Agent!Decided
  <2> QED BY <1>10, <2>2 DEF Agent!Decided, Agent!Go
<1>11. ASSUME NEW r \in Runs, Agent!RestorePrompt(r) PROVE AgentShape'
  BY <1>11 DEF Agent!RestorePrompt, Agent!Go, Agent!tools, Agent!review
<1>12. ASSUME NEW r \in Runs, Agent!ReleaseSlot(r) PROVE AgentShape'
  BY <1>12 DEF Agent!ReleaseSlot, Agent!Go, Agent!tools, Agent!review
<1>13. ASSUME NEW r \in Runs, Agent!Persist(r) PROVE AgentShape'
  BY <1>13 DEF Agent!Persist, Agent!Go, Agent!tools, Agent!review
<1>14. ASSUME NEW e \in Edits, NEW d \in {"approve", "reject"}, Agent!Decide(e, d) PROVE AgentShape'
  BY <1>14 DEF Agent!Decide, Agent!Go, Agent!tools, Agent!review, Agent!FirstClick
<1> QED
  BY <1>1, <1>2, <1>3, <1>4, <1>5, <1>6, <1>7, <1>8,
     <1>9, <1>10, <1>11, <1>12, <1>13, <1>14, ZenonT(30)
  DEF Agent!Next, Agent!Step, Agent!Finish

\* One thread at a time.
LEMMA TurnKept ==
  ASSUME AgentShape, TurnOK, Agent!Next
  PROVE  TurnOK'
<1> USE AgentConstants DEF AgentShape, TurnOK, Agent!Places, Started, Prompting
<1>1. ASSUME NEW r \in Runs, Agent!Start(r) PROVE TurnOK'
  BY <1>1 DEF Agent!Start, Agent!Go, Agent!tools, Agent!review
<1>2. ASSUME NEW r \in Runs, Agent!Begin(r) PROVE TurnOK'
  BY <1>2 DEF Agent!Begin, Agent!Go, Agent!tools, Agent!review
<1>3. ASSUME NEW r \in Runs, Agent!AskModel(r) PROVE TurnOK'
  BY <1>3 DEF Agent!AskModel, Agent!Go, Agent!tools, Agent!review, Agent!LeaveLoop
<1>4. ASSUME NEW r \in Runs, Agent!Raise(r) PROVE TurnOK'
  BY <1>4 DEF Agent!Raise, Agent!Go, Agent!tools, Agent!review, Agent!LeaveLoop
<1>5. ASSUME NEW r \in Runs, Agent!SendResults(r) PROVE TurnOK'
  BY <1>5 DEF Agent!SendResults, Agent!Go, Agent!tools, Agent!review
<1>6. ASSUME NEW r \in Runs, Agent!Skip(r) PROVE TurnOK'
  BY <1>6 DEF Agent!Skip, Agent!Go, Agent!tools, Agent!review
<1>7. ASSUME NEW r \in Runs, Agent!Look(r) PROVE TurnOK'
  BY <1>7 DEF Agent!Look, Agent!Go, Agent!tools, Agent!review, Agent!Execute
<1>8. ASSUME NEW r \in Runs, NEW p \in Paths, NEW c \in Contents, Agent!Propose(r, p, c) PROVE TurnOK'
  BY <1>8 DEF Agent!Propose, Agent!Go, Agent!tools, Agent!review, Agent!Execute
<1>9. ASSUME NEW r \in Runs, NEW e \in Edits, Agent!Apply(r, e) PROVE TurnOK'
  BY <1>9 DEF Agent!Apply, Agent!Go, Agent!tools, Agent!review, Agent!Execute, Agent!MayApply
<1>10. ASSUME NEW r \in Runs, Agent!Decided(r) PROVE TurnOK'
  BY <1>10 DEF Agent!Decided, Agent!Go, Agent!tools, Agent!review, Agent!Approves
<1>11. ASSUME NEW r \in Runs, Agent!RestorePrompt(r) PROVE TurnOK'
  BY <1>11 DEF Agent!RestorePrompt, Agent!Go, Agent!tools, Agent!review
<1>12. ASSUME NEW r \in Runs, Agent!ReleaseSlot(r) PROVE TurnOK'
  BY <1>12 DEF Agent!ReleaseSlot, Agent!Go, Agent!tools, Agent!review
<1>13. ASSUME NEW r \in Runs, Agent!Persist(r) PROVE TurnOK'
  BY <1>13 DEF Agent!Persist, Agent!Go, Agent!tools, Agent!review
<1>14. ASSUME NEW e \in Edits, NEW d \in {"approve", "reject"}, Agent!Decide(e, d) PROVE TurnOK'
  BY <1>14 DEF Agent!Decide, Agent!Go, Agent!tools, Agent!review, Agent!FirstClick
<1> QED
  BY <1>1, <1>2, <1>3, <1>4, <1>5, <1>6, <1>7, <1>8,
     <1>9, <1>10, <1>11, <1>12, <1>13, <1>14
  DEF Agent!Next, Agent!Step, Agent!Finish

\* Every step is one of these.
LEMMA ReviewKinds ==
  ASSUME AgentShape, TurnOK, WaitingOK, Agent!Next
  PROVE  ReviewSteps
<1> USE AgentConstants DEF AgentShape, Agent!Places, TurnOK, Started, Prompting, Kept
<1>1. ASSUME NEW r \in Runs, Agent!Start(r) PROVE ReviewSteps
  <2>1. Quiet
    BY <1>1 DEF Quiet, Agent!Start, Agent!Go, Agent!tools, Agent!review
  <2> QED BY <2>1 DEF ReviewSteps
<1>2. ASSUME NEW r \in Runs, Agent!Begin(r) PROVE ReviewSteps
  <2>1. Quiet
    BY <1>2 DEF Quiet, Agent!Begin, Agent!Go, Agent!tools, Agent!review
  <2> QED BY <2>1 DEF ReviewSteps
<1>3. ASSUME NEW r \in Runs, Agent!AskModel(r) PROVE ReviewSteps
  <2>1. Quiet
    BY <1>3 DEF Quiet, Agent!AskModel, Agent!Go, Agent!tools, Agent!review, Agent!LeaveLoop
  <2> QED BY <2>1 DEF ReviewSteps
<1>4. ASSUME NEW r \in Runs, Agent!Raise(r) PROVE ReviewSteps
  <2>1. Quiet
    BY <1>4 DEF Quiet, Agent!Raise, Agent!Go, Agent!tools, Agent!review, Agent!LeaveLoop
  <2> QED BY <2>1 DEF ReviewSteps
<1>5. ASSUME NEW r \in Runs, Agent!SendResults(r) PROVE ReviewSteps
  <2>1. Quiet
    BY <1>5 DEF Quiet, Agent!SendResults, Agent!Go, Agent!tools, Agent!review
  <2> QED BY <2>1 DEF ReviewSteps
<1>6. ASSUME NEW r \in Runs, Agent!Skip(r) PROVE ReviewSteps
  <2>1. Quiet
    BY <1>6 DEF Quiet, Agent!Skip, Agent!Go, Agent!tools, Agent!review
  <2> QED BY <2>1 DEF ReviewSteps
<1>7. ASSUME NEW r \in Runs, Agent!Look(r) PROVE ReviewSteps
  <2>1. Quiet
    BY <1>7 DEF Quiet, Agent!Look, Agent!Go, Agent!tools, Agent!review, Agent!Execute
  <2> QED BY <2>1 DEF ReviewSteps
<1>8. ASSUME NEW r \in Runs, NEW p \in Paths, NEW c \in Contents, Agent!Propose(r, p, c) PROVE ReviewSteps
  <2>1. CASE agent_prompt = None
    <3>1. Quiet
      BY <1>8, <2>1 DEF Quiet, Agent!Propose, Agent!review
    <3> QED BY <3>1 DEF ReviewSteps
  <2>2. CASE agent_prompt # None
    <3>1. PICK e \in Edits :
            /\ agent_edits[e] = None
            /\ agent_edits' = [agent_edits EXCEPT ![e] = Proposed(r, p, c)]
            /\ agent_offered' = [agent_offered EXCEPT ![e] = agent_prompt]
            /\ agent_asking' = [agent_asking EXCEPT ![r] = e]
            /\ Agent!Go(r, "executes", "waits for human") /\ UNCHANGED <<agent_answer, agent_file>>
      BY <1>8, <2>2 DEF Agent!Propose, Proposed
    <3>2. agent_prompt = r
      BY <3>1 DEF Agent!Go, Prompting
    <3>3. agent_edits'[e] = Proposed(r, p, c)
      BY <3>1
    <3>4. /\ agent_edits'[e] \in Agent!Edit /\ agent_edits'[e].by = r
          /\ ~agent_edits'[e].approved /\ ~agent_edits'[e].applied
      <4>1. /\ Proposed(r, p, c) \in Agent!Edit /\ Proposed(r, p, c).by = r
            /\ ~Proposed(r, p, c).approved /\ ~Proposed(r, p, c).applied
        BY <1>8, NewEdit
      <4> QED BY <3>3, <4>1
    <3>5. OthersWait(r)
      BY <3>1 DEF Agent!Go, OthersWait
    <3>6. \A f \in Edits : f # e => Same(f)
      BY <3>1 DEF Same
    <3>7. agent_offered'[e] = r /\ agent_asking'[r] = e
      BY <3>1, <3>2
    <3>8. Shows(r, e)
      BY <3>1, <3>4, <3>5, <3>6, <3>7 DEF Shows
    <3> QED BY <3>8 DEF ReviewSteps
  <2> QED BY <2>1, <2>2
<1>9. ASSUME NEW r \in Runs, NEW e \in Edits, Agent!Apply(r, e) PROVE ReviewSteps
  <2>1. CASE Agent!MayApply(e)
    <3>1. agent_edits[e] \in Agent!Edit /\ agent_edits[e].approved
      BY <2>1 DEF Agent!MayApply
    <3>2. /\ agent_edits' = [agent_edits EXCEPT ![e] = [agent_edits[e] EXCEPT !.applied = TRUE]]
          /\ agent_file' = [agent_file EXCEPT ![agent_edits[e].path] = agent_edits[e].content]
          /\ UNCHANGED <<agent_at, agent_asking, agent_offered, agent_answer>>
      BY <1>9, <2>1 DEF Agent!Apply
    <3>3. Writes(e)
      BY <2>1, <3>1, <3>2 DEF Writes, Same, Agent!MayApply
    <3> QED BY <3>3 DEF ReviewSteps
  <2>2. CASE ~Agent!MayApply(e)
    <3>1. Quiet
      BY <1>9, <2>2 DEF Quiet, Agent!Apply
    <3> QED BY <3>1 DEF ReviewSteps
  <2> QED BY <2>1, <2>2
<1>10. ASSUME NEW r \in Runs, Agent!Decided(r) PROVE ReviewSteps
  <2>1. /\ agent_asking[r] \in Edits /\ agent_edits[agent_asking[r]] \in Agent!Edit
    BY <1>10 DEF Agent!Decided, WaitingOK
  <2>2. OthersWait(r) /\ agent_at[r] = "waits for human" /\ agent_at'[r] # "waits for human"
    BY <1>10 DEF Agent!Decided, Agent!Go, OthersWait
  <2>3. /\ \A f \in Edits : f # agent_asking[r] => Same(f)
        /\ UNCHANGED <<agent_offered, agent_answer, agent_file>>
    BY <1>10 DEF Agent!Decided, Same
  <2>4. \/ agent_edits'[agent_asking[r]] = None
        \/ /\ agent_answer[agent_asking[r]] = "approve"
           /\ agent_edits'[agent_asking[r]] = [agent_edits[agent_asking[r]] EXCEPT !.approved = TRUE]
    BY <1>10, <2>1 DEF Agent!Decided, Agent!Approves
  <2>5. Hears(r)
    BY <2>2, <2>3, <2>4 DEF Hears
  <2> QED BY <2>5 DEF ReviewSteps
<1>11. ASSUME NEW r \in Runs, Agent!RestorePrompt(r) PROVE ReviewSteps
  <2>1. Quiet
    BY <1>11 DEF Quiet, Agent!RestorePrompt, Agent!Go, Agent!tools, Agent!review
  <2> QED BY <2>1 DEF ReviewSteps
<1>12. ASSUME NEW r \in Runs, Agent!ReleaseSlot(r) PROVE ReviewSteps
  <2>1. Quiet
    BY <1>12 DEF Quiet, Agent!ReleaseSlot, Agent!Go, Agent!tools, Agent!review
  <2> QED BY <2>1 DEF ReviewSteps
<1>13. ASSUME NEW r \in Runs, Agent!Persist(r) PROVE ReviewSteps
  <2>1. Quiet
    BY <1>13 DEF Quiet, Agent!Persist, Agent!Go, Agent!tools, Agent!review
  <2> QED BY <2>1 DEF ReviewSteps
<1>14. ASSUME NEW e \in Edits, NEW d \in {"approve", "reject"}, Agent!Decide(e, d) PROVE ReviewSteps
  <2>1. Posts(e)
    BY <1>14 DEF Posts, Agent!Decide, Agent!FirstClick, Agent!tools
  <2> QED BY <2>1 DEF ReviewSteps
<1> QED
  BY <1>1, <1>2, <1>3, <1>4, <1>5, <1>6, <1>7, <1>8,
     <1>9, <1>10, <1>11, <1>12, <1>13, <1>14, ZenonT(30)
  DEF Agent!Next, Agent!Step, Agent!Finish


\* Two threads never wait at once.
LEMMA OneWaits ==
  ASSUME TurnOK, NEW r \in Runs, NEW q \in Runs, agent_at[r] = "waits for human",
         agent_at[q] = "waits for human", None \notin Runs
  PROVE  r = q
BY DEF TurnOK, Started

\* What the steps do to the three parts of the invariant about edits and files.
LEMMA ReviewKept ==
  ASSUME AgentShape, AgentShape', TurnOK, ReviewOK, WaitingOK, ReviewSteps
  PROVE  ReviewOK'
<1> USE AgentConstants DEF AgentShape, Kept
<1>1. CASE Quiet
  BY <1>1 DEF Quiet, ReviewOK
<1>2. ASSUME NEW r \in Runs, Hears(r) PROVE ReviewOK'
  <2>1. PICK e \in Edits : e = agent_asking[r]
    BY <1>2 DEF Hears, WaitingOK
  <2>2. agent_edits[e] \in Agent!Edit
    BY <1>2, <2>1 DEF Hears, WaitingOK
  <2>3. agent_offered'[e] = agent_offered[e] /\ agent_answer' = agent_answer
        /\ \A f \in Edits : f # e => Same(f)
    BY <1>2, <2>1 DEF Hears
  <2>4. CASE agent_edits'[e] = None
    BY <2>3, <2>4 DEF ReviewOK, Same
  <2>5. CASE agent_answer[e] = "approve" /\ agent_edits'[e] = [agent_edits[e] EXCEPT !.approved = TRUE]
    <3>1. agent_edits'[e].by = agent_edits[e].by /\ agent_edits'[e].approved
      BY <2>2, <2>5, FlagsOnly
    <3> QED BY <2>2, <2>3, <2>5, <3>1 DEF ReviewOK, Same
  <2> QED BY <1>2, <2>1, <2>4, <2>5 DEF Hears
<1>3. ASSUME NEW r \in Runs, NEW e \in Edits, Shows(r, e) PROVE ReviewOK'
  BY <1>3 DEF Shows, Same, ReviewOK
<1>4. ASSUME NEW e \in Edits, Writes(e) PROVE ReviewOK'
  <2>1. /\ agent_edits'[e].by = agent_edits[e].by
        /\ agent_edits'[e].approved /\ agent_edits[e].approved
    BY <1>4, FlagsOnly DEF Writes
  <2>2. agent_offered'[e] = agent_offered[e] /\ agent_answer' = agent_answer /\ Kept(e)
        /\ \A f \in Edits : f # e => Same(f)
    BY <1>4 DEF Writes
  <2> QED BY <2>1, <2>2 DEF ReviewOK, Same
<1>5. ASSUME NEW e \in Edits, Posts(e) PROVE ReviewOK'
  BY <1>5 DEF Posts, ReviewOK
<1> QED BY <1>1, <1>2, <1>3, <1>4, <1>5 DEF ReviewSteps

\* Every step keeps what is known of a run that waits.
LEMMA WaitingKept ==
  ASSUME AgentShape, AgentShape', TurnOK, WaitingOK, ReviewSteps
  PROVE  WaitingOK'
<1> USE AgentConstants DEF AgentShape, Kept
<1>1. CASE Quiet
  BY <1>1 DEF Quiet, WaitingOK
<1>2. ASSUME NEW r \in Runs, Hears(r) PROVE WaitingOK'
  BY <1>2, OneWaits DEF Hears, OthersWait, WaitingOK
<1>3. ASSUME NEW r \in Runs, NEW e \in Edits, Shows(r, e) PROVE WaitingOK'
  <2> SUFFICES ASSUME NEW q \in Runs, agent_at'[q] = "waits for human"
               PROVE  /\ agent_asking'[q] \in Edits /\ agent_edits'[agent_asking'[q]] # None
                      /\ ~agent_edits'[agent_asking'[q]].approved
    BY DEF WaitingOK
  <2>1. CASE q = r
    BY <1>3, <2>1 DEF Shows
  <2>2. CASE q # r
    <3>1. agent_at[q] = "waits for human" /\ agent_asking'[q] = agent_asking[q]
      BY <1>3, <2>2 DEF Shows, OthersWait
    <3>2. agent_asking[q] \in Edits /\ agent_asking[q] # e
          /\ ~agent_edits[agent_asking[q]].approved /\ agent_edits[agent_asking[q]] # None
      BY <1>3, <3>1 DEF Shows, WaitingOK
    <3> QED BY <1>3, <3>1, <3>2 DEF Shows, Same
  <2> QED BY <2>1, <2>2
<1>4. ASSUME NEW e \in Edits, Writes(e) PROVE WaitingOK'
  <2> SUFFICES ASSUME NEW q \in Runs, agent_at'[q] = "waits for human"
               PROVE  /\ agent_asking'[q] \in Edits /\ agent_edits'[agent_asking'[q]] # None
                      /\ ~agent_edits'[agent_asking'[q]].approved
    BY DEF WaitingOK
  <2>1. agent_at[q] = "waits for human" /\ agent_asking'[q] = agent_asking[q]
    BY <1>4 DEF Writes
  <2>2. agent_asking[q] \in Edits /\ agent_asking[q] # e
        /\ ~agent_edits[agent_asking[q]].approved /\ agent_edits[agent_asking[q]] # None
    BY <1>4, <2>1 DEF Writes, WaitingOK
  <2> QED BY <1>4, <2>1, <2>2, ZenonT(40) DEF Writes, Same
<1>5. ASSUME NEW e \in Edits, Posts(e) PROVE WaitingOK'
  BY <1>5 DEF Posts, WaitingOK
<1> QED BY <1>1, <1>2, <1>3, <1>4, <1>5 DEF ReviewSteps

\* Every step keeps what is known of the files.
LEMMA FileKept ==
  ASSUME AgentShape, AgentShape', TurnOK, ReviewOK, WaitingOK, FileOK, ReviewSteps
  PROVE  FileOK'
<1> USE AgentConstants DEF AgentShape, Kept
<1> DEFINE From(e, p) == /\ agent_edits[e] # None /\ agent_edits[e].applied
                         /\ agent_edits[e].path = p /\ agent_edits[e].content = agent_file[p]
<1>1. CASE Quiet
  BY <1>1 DEF Quiet, FileOK
<1>2. ASSUME NEW r \in Runs, Hears(r) PROVE FileOK'
  <2>1. ~agent_edits[agent_asking[r]].applied
    BY <1>2 DEF Hears, WaitingOK, ReviewOK
  <2>2. agent_file' = agent_file /\ \A f \in Edits : f # agent_asking[r] => Same(f)
    BY <1>2 DEF Hears
  <2>3. ASSUME NEW p \in Paths, agent_file'[p] # Original PROVE \E f \in Edits : From(f, p)'
    <3>1. PICK f \in Edits : From(f, p)
      BY <2>2, <2>3 DEF FileOK
    <3> QED BY <2>1, <2>2, <3>1 DEF Same
  <2> QED BY <2>3 DEF FileOK
<1>3. ASSUME NEW r \in Runs, NEW e \in Edits, Shows(r, e) PROVE FileOK'
  <2>1. agent_file' = agent_file /\ agent_edits[e] = None /\ \A f \in Edits : f # e => Same(f)
    BY <1>3 DEF Shows
  <2>2. ASSUME NEW p \in Paths, agent_file'[p] # Original PROVE \E f \in Edits : From(f, p)'
    <3>1. PICK f \in Edits : From(f, p)
      BY <2>1, <2>2 DEF FileOK
    <3> QED BY <2>1, <3>1 DEF Same
  <2> QED BY <2>2 DEF FileOK
<1>4. ASSUME NEW e \in Edits, Writes(e) PROVE FileOK'
  <2>1. /\ agent_edits'[e].applied /\ agent_edits'[e].path = agent_edits[e].path
        /\ agent_edits'[e].content = agent_edits[e].content
        /\ agent_edits'[e] # None /\ agent_edits[e].path \in Paths
    BY <1>4, FlagsOnly DEF Writes, Agent!Edit
  <2>2. agent_file' = [agent_file EXCEPT ![agent_edits[e].path] = agent_edits[e].content]
        /\ \A f \in Edits : f # e => Same(f)
    BY <1>4 DEF Writes
  <2>3. ASSUME NEW p \in Paths, agent_file'[p] # Original PROVE \E f \in Edits : From(f, p)'
    <3>1. CASE p = agent_edits[e].path
      <4>1. From(e, p)'
        BY <2>1, <2>2, <3>1
      <4> QED BY <4>1
    <3>2. CASE p # agent_edits[e].path
      <4>1. PICK f \in Edits : From(f, p)
        BY <2>2, <2>3, <3>2 DEF FileOK
      <4> QED BY <2>2, <3>2, <4>1 DEF Same
    <3> QED BY <3>1, <3>2
  <2> QED BY <2>3 DEF FileOK
<1>5. ASSUME NEW e \in Edits, Posts(e) PROVE FileOK'
  BY <1>5 DEF Posts, FileOK
<1> QED BY <1>1, <1>2, <1>3, <1>4, <1>5 DEF ReviewSteps

-----------------------------------------------------------------------------
(* The invariant and what follows from it *)

\* The invariant holds at the start.
LEMMA AgentInit == Agent!Init => AgentInv
BY AgentConstants
   DEF Agent!Init, AgentInv, AgentShape, TurnOK, ReviewOK, WaitingOK, FileOK, Kept, Started,
       Prompting, Agent!Places

\* So every step keeps the invariant of the agent runs.
LEMMA AgentStep ==
  ASSUME AgentInv, Agent!Next \/ UNCHANGED agent
  PROVE  AgentInv'
<1>1. CASE Agent!Next
  <2>1. AgentShape' /\ TurnOK' /\ ReviewSteps
    BY <1>1, ShapeKept, TurnKept, ReviewKinds DEF AgentInv
  <2> QED BY <2>1, ReviewKept, WaitingKept, FileKept DEF AgentInv
<1>2. CASE UNCHANGED agent
  <2>1. UNCHANGED <<agent_slot, agent_prompt, agent_at, agent_asking, agent_edits, agent_offered,
                    agent_answer, agent_file>>
    BY <1>2 DEF agent
  <2> QED BY <2>1 DEF AgentInv, AgentShape, TurnOK, ReviewOK, WaitingOK, FileOK, Kept
<1> QED BY <1>1, <1>2

\* The invariant of the agent runs, in whatever order threads, clicks and applies come.
THEOREM AgentRuns == Spec => [](part = "agent" => AgentInv)
<1>1. Init => (part = "agent" => AgentInv)
  BY AgentInit DEF Init
<1>2. (part = "agent" => AgentInv) /\ [Next]_vars => (part = "agent" => AgentInv)'
  <2> SUFFICES ASSUME part = "agent" => AgentInv, [Next]_vars, part' = "agent"
               PROVE  AgentInv'
    OBVIOUS
  <2>1. part = "agent" /\ (Agent!Next \/ UNCHANGED agent)
    BY DEF Next, vars
  <2> QED BY <2>1, AgentStep
<1> QED BY <1>1, <1>2, PTL DEF Spec

\* Whatever stands in the write scope was approved by the first click on what the run
\* that asked had shown, and while a run is in its loop the approval prompt is its own
\* (write_tools.apply_edit, execution_tools.py, web_server._run_agent_thread).
THEOREM NothingUnseen == Spec => []WrittenWasApproved
<1>1. AgentInv => Agent!WrittenWasApproved
  BY DEF AgentInv, FileOK, ReviewOK, Kept, Agent!WrittenWasApproved
<1>2. AgentInv => Agent!PromptIsOwn
  BY DEF AgentInv, TurnOK, Prompting, Agent!PromptIsOwn, Agent!InLoop
<1>3. (part = "agent" => AgentInv) => WrittenWasApproved
  BY <1>1, <1>2 DEF WrittenWasApproved
<1> QED BY <1>3, AgentRuns, PTL

-----------------------------------------------------------------------------
(* The reset of the demo and its clocks *)

RecordType ==
  [created : Nat, status : {"BUILDING", "SUCCESS", "FAILED", "REMOVED"}, listed : BOOLEAN,
   page : {"baseline", "changed"}]
ByServer == reset_trigger # None /\ reset_trigger.by = "server"

\* What production shows and how a deployment ended is of no concern here, when the
\* records were created is.
ResetShape ==
  /\ reset_now \in Nat
  /\ reset_records \in Seq(RecordType)
  /\ Len(reset_records) >= 1 /\ reset_records[1].created = 0
  /\ reset_own \in 0..Len(reset_records)
  /\ reset_live \in {"baseline", "changed"}
  /\ reset_found = None \/ reset_found.id \in 1..Len(reset_records)
  /\ reset_trigger # None => reset_trigger.at \in Int

\* By the server's clock the own deployment is newer than the trigger, and so is the
\* one that was found.
ClockOK ==
  ByServer =>
    /\ reset_trigger.at \in Nat /\ reset_trigger.at < reset_now
    /\ reset_own # 0 => reset_records[reset_own].created > reset_trigger.at
    /\ reset_found # None => reset_records[reset_found.id].created > reset_trigger.at

\* Before the upload there is nothing to find, and the clone is there once made.
ResetPlacesOK ==
  /\ reset_step \in {"look", "clone", "clock"} =>
       reset_trigger = None /\ reset_found = None /\ ~reset_shown
  /\ reset_step \in {"look", "clone", "clock", "up"} => reset_own = 0
  /\ reset_step = "over" => ~reset_slot /\ reset_workspace \in {"none", "gone"}
  /\ ByServer /\ reset_shown => reset_found # None

ResetInv == ResetShape /\ ClockOK /\ ResetPlacesOK

\* What is assumed of the constants.
LEMMA ResetConstants ==
  /\ MaxDrift \in Nat /\ MaxPolls \in Nat
  /\ None \notin [id : Nat, status : {"SUCCESS", "FAILED"}]
BY WorkbenchAssumption DEF WorkbenchAssumption, Reset!ResetAssumption

\* A new record is behind the others and bears the time it was created.
LEMMA Recorded ==
  ASSUME ResetShape, NEW v \in {"baseline", "changed"},
         reset_records' = Append(reset_records, Reset!Record("BUILDING", v))
  PROVE  /\ reset_records' \in Seq(RecordType)
         /\ Len(reset_records') = Len(reset_records) + 1
         /\ \A i \in 1..Len(reset_records) : reset_records'[i] = reset_records[i]
         /\ reset_records'[Len(reset_records) + 1].created = reset_now
<1>1. /\ Reset!Record("BUILDING", v) \in RecordType
      /\ Reset!Record("BUILDING", v).created = reset_now
  BY DEF Reset!Record, RecordType, ResetShape
<1> QED BY <1>1 DEF ResetShape

\* A deployment shows one of two pages.
LEMMA ResetPages ==
  ASSUME ResetShape
  PROVE  \A i \in 1..Len(reset_records) : reset_records[i].page \in {"baseline", "changed"}
<1>1. \A i \in 1..Len(reset_records) : reset_records[i] \in RecordType
  BY DEF ResetShape
<1> QED BY <1>1 DEF RecordType

\* A record that is listed, built or removed keeps its time.
LEMMA Rewritten ==
  ASSUME ResetShape, Reset!Shows \/ Reset!Builds \/ Reset!CutsOver
  PROVE  /\ reset_records' \in Seq(RecordType)
         /\ Len(reset_records') = Len(reset_records)
         /\ \A i \in 1..Len(reset_records) :
              reset_records'[i].created = reset_records[i].created
<1>0. \A i \in 1..Len(reset_records) : reset_records[i] \in RecordType
  BY DEF ResetShape
<1>1. \A x \in RecordType : [x EXCEPT !.listed = TRUE] \in RecordType
                            /\ [x EXCEPT !.listed = TRUE].created = x.created
  BY DEF RecordType
<1>2. \A x \in RecordType, s \in {"SUCCESS", "FAILED", "REMOVED"} :
        [x EXCEPT !.status = s] \in RecordType /\ [x EXCEPT !.status = s].created = x.created
  BY DEF RecordType
<1>3. CASE Reset!Shows
  BY <1>0, <1>1, <1>3 DEF Reset!Shows, ResetShape
<1>4. CASE Reset!Builds
  <2>1. PICK i \in 1..Len(reset_records), s \in {"SUCCESS", "FAILED"} :
          reset_records' = [reset_records EXCEPT ![i].status = s]
    BY <1>4 DEF Reset!Builds
  <2>2. /\ [reset_records[i] EXCEPT !.status = s] \in RecordType
        /\ [reset_records[i] EXCEPT !.status = s].created = reset_records[i].created
    BY <1>0, <1>2, <2>1
  <2> QED BY <2>1, <2>2 DEF ResetShape
<1>5. CASE Reset!CutsOver
  <2>1. PICK i \in 1..Len(reset_records) : reset_records' = [k \in 1..Len(reset_records) |->
          IF k < i /\ reset_records[k].status = "SUCCESS"
            THEN [reset_records[k] EXCEPT !.status = "REMOVED"] ELSE reset_records[k]]
    BY <1>5 DEF Reset!CutsOver
  <2>2. \A k \in 1..Len(reset_records) :
          reset_records'[k] \in RecordType /\ reset_records'[k].created = reset_records[k].created
    <3>1. \A x \in RecordType : [x EXCEPT !.status = "REMOVED"] \in RecordType
                                /\ [x EXCEPT !.status = "REMOVED"].created = x.created
      BY <1>2
    <3> QED BY <1>0, <2>1, <3>1
  <2> QED BY <2>1, <2>2 DEF ResetShape
<1> QED BY <1>3, <1>4, <1>5

\* What ReadClock may note: the second of the platform's clock, or any local time.
LEMMA Noted ==
  ASSUME ResetShape, Reset!ReadClock
  PROVE  /\ reset_trigger'.at \in Int
         /\ reset_trigger'.by = "server" =>
              reset_trigger'.at \in Nat /\ reset_trigger'.at <= reset_now
<1>1. CASE reset_trigger' = Reset!ServerClock
  BY <1>1 DEF ResetShape, Reset!ServerClock
<1>2. CASE \E d \in {-MaxDrift, MaxDrift} : reset_trigger' = Reset!Local(d)
  BY <1>2, ResetConstants DEF ResetShape, Reset!Local
<1> QED BY <1>1, <1>2 DEF Reset!ReadClock

\* Every step keeps the shape.
LEMMA ResetShapeKept ==
  ASSUME ResetShape, ResetPlacesOK, Reset!Next
  PROVE  ResetShape'
<1> USE ResetConstants DEF ResetShape
<1>1. CASE Reset!Look
  BY <1>1 DEF Reset!Look, Reset!Goes, Reset!Ends, Reset!site, Reset!look, Reset!platform
<1>2. CASE Reset!Prepare
  BY <1>2 DEF Reset!Prepare, Reset!Goes, Reset!Ends, Reset!site, Reset!look, Reset!platform
<1>3. CASE Reset!ReadClock
  BY <1>3, Noted DEF Reset!ReadClock, Reset!site, Reset!look
<1>4. CASE Reset!Up
  <2>1. CASE reset_records' = Append(reset_records, Reset!Record("BUILDING", "baseline"))
              /\ reset_own' = Len(reset_records')
    BY <1>4, <2>1, Recorded DEF Reset!Up, Reset!look
  <2>2. CASE UNCHANGED <<reset_records, reset_own>>
    BY <1>4, <2>2 DEF Reset!Up, Reset!look
  <2> QED BY <1>4, <2>1, <2>2 DEF Reset!Up
<1>5. CASE Reset!Poll
  BY <1>5 DEF Reset!Poll, Reset!site, Reset!Ended, Reset!Candidates, Reset!Listed
<1>6. CASE Reset!Check
  BY <1>6 DEF Reset!Check, Reset!Goes, Reset!Ends, Reset!site, Reset!look, Reset!platform
<1>7. CASE Reset!Raise
  BY <1>7 DEF Reset!Raise, Reset!Goes, Reset!Ends, Reset!site, Reset!look, Reset!platform
<1>8. CASE Reset!Finally
  BY <1>8 DEF Reset!Finally, Reset!Goes, Reset!Ends, Reset!site, Reset!look, Reset!platform
<1>9. CASE Reset!Shows
  <2>1. UNCHANGED <<reset_now, reset_own, reset_found, reset_trigger>>
        /\ reset_live' \in {"baseline", "changed"}
    BY <1>9, ResetPages DEF Reset!Shows, Reset!platform, Reset!look
  <2>2. 1 \in 1..Len(reset_records)
    OBVIOUS
  <2> QED BY <1>9, <2>1, <2>2, Rewritten
<1>10. CASE Reset!Builds
  <2>1. UNCHANGED <<reset_now, reset_own, reset_found, reset_trigger>>
        /\ reset_live' \in {"baseline", "changed"}
    BY <1>10, ResetPages DEF Reset!Builds, Reset!platform, Reset!look
  <2>2. 1 \in 1..Len(reset_records)
    OBVIOUS
  <2> QED BY <1>10, <2>1, <2>2, Rewritten
<1>11. CASE Reset!CutsOver
  <2>1. UNCHANGED <<reset_now, reset_own, reset_found, reset_trigger>>
        /\ reset_live' \in {"baseline", "changed"}
    BY <1>11, ResetPages DEF Reset!CutsOver, Reset!platform, Reset!look
  <2>2. 1 \in 1..Len(reset_records)
    OBVIOUS
  <2> QED BY <1>11, <2>1, <2>2, Rewritten
<1>12. CASE Reset!Others
  <2>1. reset_records' = Append(reset_records, Reset!Record("BUILDING", "changed"))
    BY <1>12 DEF Reset!Others
  <2> QED BY <1>12, <2>1, Recorded DEF Reset!Others, Reset!platform, Reset!look
<1>13. CASE Reset!Tick
  BY <1>13 DEF Reset!Tick, Reset!Goes, Reset!Ends, Reset!site, Reset!look, Reset!platform
<1> QED BY <1>1, <1>2, <1>3, <1>4, <1>5, <1>6, <1>7,
           <1>8, <1>9, <1>10, <1>11, <1>12, <1>13
        DEF Reset!Next

\* Every step keeps what is known of the clocks.
LEMMA ClockKept ==
  ASSUME ResetShape, ResetShape', ClockOK, ResetPlacesOK, Reset!Next
  PROVE  ClockOK'
<1> USE ResetConstants DEF ResetShape, ClockOK, ByServer, ResetPlacesOK
<1>1. CASE Reset!Look
  BY <1>1 DEF Reset!Look, Reset!Goes, Reset!Ends, Reset!site, Reset!look, Reset!platform
<1>2. CASE Reset!Prepare
  BY <1>2 DEF Reset!Prepare, Reset!Goes, Reset!Ends, Reset!site, Reset!look, Reset!platform
<1>3. CASE Reset!ReadClock
  <2>1. reset_own' = 0 /\ reset_found' = reset_found /\ reset_now' = reset_now + 1
    BY <1>3 DEF Reset!ReadClock, Reset!look
  <2>2. reset_found = None
    BY <1>3 DEF Reset!ReadClock
  <2> QED BY <1>3, <2>1, <2>2, Noted
<1>4. CASE Reset!Up
  <2>1. CASE reset_records' = Append(reset_records, Reset!Record("BUILDING", "baseline"))
              /\ reset_own' = Len(reset_records')
    BY <1>4, <2>1, Recorded DEF Reset!Up, Reset!look
  <2>2. CASE UNCHANGED <<reset_records, reset_own>>
    BY <1>4, <2>2 DEF Reset!Up, Reset!look
  <2> QED BY <1>4, <2>1, <2>2 DEF Reset!Up
<1>5. CASE Reset!Poll
  BY <1>5 DEF Reset!Poll, Reset!site, Reset!Ended, Reset!Candidates, Reset!Listed
<1>6. CASE Reset!Check
  BY <1>6 DEF Reset!Check, Reset!Goes, Reset!Ends, Reset!site, Reset!look, Reset!platform
<1>7. CASE Reset!Raise
  BY <1>7 DEF Reset!Raise, Reset!Goes, Reset!Ends, Reset!site, Reset!look, Reset!platform
<1>8. CASE Reset!Finally
  BY <1>8 DEF Reset!Finally, Reset!Goes, Reset!Ends, Reset!site, Reset!look, Reset!platform
<1>9. CASE Reset!Shows
  BY <1>9, Rewritten DEF Reset!Shows, Reset!platform, Reset!look
<1>10. CASE Reset!Builds
  BY <1>10, Rewritten DEF Reset!Builds, Reset!platform, Reset!look
<1>11. CASE Reset!CutsOver
  BY <1>11, Rewritten DEF Reset!CutsOver, Reset!platform, Reset!look
<1>12. CASE Reset!Others
  <2>1. reset_records' = Append(reset_records, Reset!Record("BUILDING", "changed"))
    BY <1>12 DEF Reset!Others
  <2> QED BY <1>12, <2>1, Recorded DEF Reset!Others, Reset!platform, Reset!look
<1>13. CASE Reset!Tick
  BY <1>13 DEF Reset!Tick, Reset!Goes, Reset!Ends, Reset!site, Reset!look, Reset!platform
<1> QED BY <1>1, <1>2, <1>3, <1>4, <1>5, <1>6, <1>7,
           <1>8, <1>9, <1>10, <1>11, <1>12, <1>13
        DEF Reset!Next

\* Every step keeps what the thread knows where it is.
LEMMA ResetPlacesKept ==
  ASSUME ResetShape, ClockOK, ResetPlacesOK, Reset!Next
  PROVE  ResetPlacesOK'
<1> USE ResetConstants DEF ResetShape, ResetPlacesOK, ByServer
<1>1. CASE Reset!Look
  BY <1>1 DEF Reset!Look, Reset!Goes, Reset!Ends, Reset!site, Reset!look, Reset!platform
<1>2. CASE Reset!Prepare
  BY <1>2 DEF Reset!Prepare, Reset!Goes, Reset!Ends, Reset!site, Reset!look, Reset!platform
<1>3. CASE Reset!ReadClock
  BY <1>3 DEF Reset!ReadClock, Reset!Goes, Reset!Ends, Reset!site, Reset!look, Reset!platform
<1>4. CASE Reset!Up
  BY <1>4 DEF Reset!Up, Reset!Goes, Reset!Ends, Reset!site, Reset!look, Reset!platform
<1>5. CASE Reset!Poll
  <2>1. ASSUME ByServer, reset_own \in Reset!Listed, Reset!Terminal(reset_records[reset_own])
        PROVE  reset_own \in Reset!Ended
    BY <2>1 DEF ClockOK, Reset!Ended, Reset!Candidates, Reset!Listed
  <2>2. ASSUME ByServer, reset_own \in Reset!Listed, Reset!Terminal(reset_records[reset_own]),
               Reset!Ended = {}
        PROVE  FALSE
    BY <2>1, <2>2
  <2>3. reset_found' = reset_found \/ \E i \in Reset!Ended : reset_found' =
          [id |-> i, status |-> reset_records[i].status]
    BY <1>5 DEF Reset!Poll
  <2>4. \A i \in Reset!Ended :
          [id |-> i, status |-> reset_records[i].status] \in [id : Nat, status : {"SUCCESS", "FAILED"}]
    <3>1. \A i \in Reset!Ended : i \in 1..Len(reset_records) /\ reset_records[i] \in RecordType
                                /\ Reset!Terminal(reset_records[i])
      BY DEF Reset!Ended, Reset!Candidates, Reset!Listed
    <3> QED BY <3>1 DEF Reset!Terminal
  <2>5. ByServer' /\ reset_shown' => reset_found' # None
    BY <1>5, <2>2, <2>3, <2>4 DEF Reset!Poll, Reset!site
  <2> QED BY <1>5, <2>5 DEF Reset!Poll, Reset!Goes, Reset!site
<1>6. CASE Reset!Check
  BY <1>6 DEF Reset!Check, Reset!Goes, Reset!Ends, Reset!site, Reset!look, Reset!platform
<1>7. CASE Reset!Raise
  BY <1>7 DEF Reset!Raise, Reset!Goes, Reset!Ends, Reset!site, Reset!look, Reset!platform
<1>8. CASE Reset!Finally
  BY <1>8 DEF Reset!Finally, Reset!Goes, Reset!Ends, Reset!site, Reset!look, Reset!platform
<1>9. CASE Reset!Shows
  BY <1>9 DEF Reset!Shows, Reset!Goes, Reset!Ends, Reset!site, Reset!look, Reset!platform
<1>10. CASE Reset!Builds
  BY <1>10 DEF Reset!Builds, Reset!Goes, Reset!Ends, Reset!site, Reset!look, Reset!platform
<1>11. CASE Reset!CutsOver
  BY <1>11 DEF Reset!CutsOver, Reset!Goes, Reset!Ends, Reset!site, Reset!look, Reset!platform
<1>12. CASE Reset!Others
  BY <1>12 DEF Reset!Others, Reset!Goes, Reset!Ends, Reset!site, Reset!look, Reset!platform
<1>13. CASE Reset!Tick
  BY <1>13 DEF Reset!Tick, Reset!Goes, Reset!Ends, Reset!site, Reset!look, Reset!platform
<1> QED BY <1>1, <1>2, <1>3, <1>4, <1>5, <1>6, <1>7,
           <1>8, <1>9, <1>10, <1>11, <1>12, <1>13
        DEF Reset!Next

\* The invariant holds at the start.
LEMMA ResetInit == Reset!Init => ResetInv
<1> SUFFICES ASSUME Reset!Init PROVE ResetInv
  OBVIOUS
<1>1. PICK s \in {"SUCCESS", "FAILED"} :
        reset_records = <<[created |-> 0, status |-> s, listed |-> TRUE, page |-> reset_live]>>
  BY DEF Reset!Init
<1>2. [created |-> 0, status |-> s, listed |-> TRUE, page |-> reset_live] \in RecordType
  BY <1>1 DEF Reset!Init, Reset!Pages, RecordType
<1>3. reset_records \in Seq(RecordType) /\ reset_records[1].created = 0
      /\ Len(reset_records) = 1
  BY <1>1, <1>2
<1>4. ResetShape
  BY <1>3 DEF Reset!Init, Reset!Pages, ResetShape
<1>5. ClockOK /\ ResetPlacesOK
  BY DEF Reset!Init, ClockOK, ResetPlacesOK, ByServer
<1> QED BY <1>4, <1>5 DEF ResetInv

\* So every step keeps the invariant of the reset.
LEMMA ResetStep ==
  ASSUME ResetInv, Reset!Next \/ UNCHANGED resetting
  PROVE  ResetInv'
<1>1. CASE Reset!Next
  BY <1>1, ResetShapeKept, ClockKept, ResetPlacesKept DEF ResetInv
<1>2. CASE UNCHANGED resetting
  BY <1>2 DEF resetting, ResetInv, ResetShape, ClockOK, ResetPlacesOK, ByServer
<1> QED BY <1>1, <1>2

\* The clocks of a reset: the record of its own deployment, and of the one it found, are
\* newer than a trigger that was read from the server's header, at every step
\* (agent/demo_execution.py, server_verified_now_iso, wait_for_new_deployment).
THEOREM ResetRuns == Spec => [](part = "reset" => ResetInv)
<1>1. Init => (part = "reset" => ResetInv)
  BY ResetInit DEF Init
<1>2. (part = "reset" => ResetInv) /\ [Next]_vars => (part = "reset" => ResetInv)'
  <2> SUFFICES ASSUME part = "reset" => ResetInv, [Next]_vars, part' = "reset" PROVE ResetInv'
    OBVIOUS
  <2>1. part = "reset" /\ (Reset!Next \/ UNCHANGED resetting)
    BY DEF Next, vars
  <2> QED BY <2>1, ResetStep
<1> QED BY <1>1, <1>2, PTL DEF Spec

\* A reset whose trigger time came from the server never gives up although it was shown
\* the end of its own deployment, takes another's for it only when that one is no older
\* than the second of the trigger, and gives slot and clone back
\* (web_server._run_reset_thread).
THEOREM HonestReset == Spec => []WaitTellsTruth
<1>1. \A i, j \in Nat : i < j => j \div 2 >= i \div 2
  OBVIOUS
<1>2. ResetInv => Reset!WaitTellsTruth
  <2> SUFFICES ASSUME ResetInv PROVE Reset!WaitTellsTruth
    OBVIOUS
  <2> USE DEF ResetInv, ResetShape, ClockOK, ResetPlacesOK, ByServer
  <2>1. ASSUME ByServer, reset_found # None
        PROVE  reset_found.id # 1
               /\ reset_records[reset_found.id].created \div 2 >= reset_trigger.at \div 2
    <3>1. reset_records[reset_found.id] \in RecordType
      BY <2>1
    <3>2. reset_records[reset_found.id].created \in Nat
      BY <3>1 DEF RecordType
    <3> QED BY <1>1, <2>1, <3>2
  <2> QED BY <2>1 DEF Reset!WaitTellsTruth
<1>3. (part = "reset" => ResetInv) => WaitTellsTruth
  BY <1>2 DEF WaitTellsTruth
<1> QED BY <1>3, ResetRuns, PTL

-----------------------------------------------------------------------------
(* The page of a run *)

StreamStatuses == Stream!TERMINAL_RUN_STATES \cup {"working"}
StreamWords == Stream!EventTypes \cup {"set status"}
StreamShape ==
  /\ stream_kind \in {"trainer", "agent"}
  /\ stream_outcome \in Stream!TERMINAL_RUN_STATES \cup {None}
  /\ stream_todo \in Seq(StreamWords)
  /\ stream_status \in StreamStatuses /\ stream_log \in Seq(Stream!EventTypes)
  /\ stream_sent \in Nat /\ stream_sent <= Len(stream_log)
  /\ stream_wire \in Seq(Nat) /\ stream_shown \in Seq(Nat)
  /\ stream_finished \in BOOLEAN /\ (stream_outcome = None => stream_todo = <<>>)
  /\ stream_poll # None =>
       /\ stream_poll \in [status : StreamStatuses, upTo : Nat \cup {None}]
       /\ stream_kind = "trainer"
       /\ stream_poll.upTo # None => stream_poll.upTo <= Len(stream_log)

\* What is on the wire goes on where the page is, or before.
OrderOK ==
  /\ \A k \in DOMAIN stream_shown : stream_shown[k] = k
  /\ \A k \in DOMAIN stream_wire : stream_wire[k] = stream_sent - Len(stream_wire) + k
  /\ Len(stream_wire) <= stream_sent
  /\ stream_sent - Len(stream_wire) <= Len(stream_shown)

\* A run has told the reason with one of its first n events.
Told(events, n) == \E e \in DOMAIN events : e <= n /\ events[e] = "error"
Failing == {"FAILED", "DEPLOYMENT_STATUS_UNKNOWN"}
LastWords == <<"error", "set status", "stage", "usage_summary">>
LastThree == <<"set status", "stage", "usage_summary">>
LastTwo == <<"stage", "usage_summary">>
LastOne == <<"usage_summary">>

\* A run that is under way is not over for anybody.
OpenOK ==
  /\ stream_status = "working" /\ ~stream_finished
  /\ \A i \in DOMAIN stream_log : stream_log[i] # "stage"
  /\ stream_poll # None => stream_poll.status = "working"

\* A run that fails tells why before anybody can tell that it has failed.
FailingOK ==
  /\ stream_todo \in {LastWords, LastThree, LastTwo, LastOne, <<>>}
  /\ stream_todo # LastWords => Told(stream_log, Len(stream_log))
  /\ stream_todo = LastWords => stream_status = "working"
  /\ \A i \in DOMAIN stream_log : stream_log[i] = "stage" => Told(stream_log, i)
  /\ stream_poll # None /\ stream_poll.status # "working" =>
       Told(stream_log, IF stream_poll.upTo = None THEN Len(stream_log) ELSE stream_poll.upTo)
  /\ stream_finished => Told(stream_log, Len(stream_shown))

ReasonOK == /\ stream_outcome = None => OpenOK
            /\ stream_outcome \in Failing => FailingOK

StreamInv == StreamShape /\ (stream_kind = "trainer" => OrderOK /\ ReasonOK)
-----------------------------------------------------------------------------

\* A set of numbers that is not empty has a least one: induction, for what a loop computes.
LEMMA Least ==
  ASSUME NEW T, T \subseteq Nat, T # {}
  PROVE  \E m \in T : \A k \in T : m <= k
<1> DEFINE R == OpToRel(<, Nat)
<1>1. IsWellFoundedOn(R, Nat)
  BY NatLessThanWellFounded
<1>2. R = {ss \in Nat \X Nat : ss[1] < ss[2]}
  BY DEF OpToRel
<1> HIDE DEF R
<1>3. PICK m \in T : \A y \in T : <<y, m>> \notin R
  BY <1>1, WFMin
<1>4. ASSUME NEW k \in T PROVE m <= k
  <2>1. <<k, m>> \in Nat \X Nat /\ <<k, m>>[1] = k /\ <<k, m>>[2] = m
    OBVIOUS
  <2>2. ~(<<k, m>>[1] < <<k, m>>[2])
    BY <1>2, <1>3, <2>1, Zenon
  <2> QED BY <2>1, <2>2
<1> QED BY <1>4

\* What one event of a batch adds to what the page has applied of it so far.
Batch(f, i) == IF i = 0 THEN stream_shown
               ELSE IF Stream!IsNew(i, f[i - 1]) THEN Append(f[i - 1], i) ELSE f[i - 1]

\* A batch is applied as any function of it tells that takes its events in turn.
LEMMA BatchOnce ==
  ASSUME NEW n \in Nat, NEW g, g = [i \in 0..n |-> Batch(g, i)]
  PROVE  Stream!AppliedUpTo(n) = g[n]
<1> DEFINE f[i \in 0..n] == IF i = 0 THEN stream_shown
                            ELSE IF Stream!IsNew(i, f[i - 1]) THEN Append(f[i - 1], i)
                            ELSE f[i - 1]
<1>1. Stream!AppliedUpTo(n) = f[n]
  BY DEF Stream!AppliedUpTo
<1>2. \E h : h = [i \in 0..n |-> IF i = 0 THEN stream_shown
                                 ELSE IF Stream!IsNew(i, h[i - 1]) THEN Append(h[i - 1], i)
                                 ELSE h[i - 1]]
  <2>1. g = [i \in 0..n |-> IF i = 0 THEN stream_shown
                            ELSE IF Stream!IsNew(i, g[i - 1]) THEN Append(g[i - 1], i)
                            ELSE g[i - 1]]
    BY DEF Batch
  <2> QED BY <2>1
<1>3. f = [i \in 0..n |-> IF i = 0 THEN stream_shown
                          ELSE IF Stream!IsNew(i, f[i - 1]) THEN Append(f[i - 1], i)
                          ELSE f[i - 1]]
  BY <1>2
<1>4. f = [i \in 0..n |-> Batch(f, i)]
  BY <1>3 DEF Batch
<1> HIDE DEF f
<1>5. \A i \in 0..n : f[i] = g[i]
  <2> DEFINE T == {i \in 0..n : f[i] # g[i]}
  <2> SUFFICES ASSUME T # {} PROVE FALSE
    OBVIOUS
  <2>1. T \subseteq Nat /\ T \subseteq 0..n /\ \A i \in 0..n : i \notin T => f[i] = g[i]
    OBVIOUS
  <2>2. \A i \in T : f[i] # g[i]
    OBVIOUS
  <2> HIDE DEF T
  <2>3. PICK m \in T : \A k \in T : m <= k
    BY <2>1, Least
  <2>4. f[m] = Batch(f, m) /\ g[m] = Batch(g, m)
    BY <1>4, <2>1
  <2>5. m # 0 => f[m - 1] = g[m - 1]
    BY <2>1, <2>3
  <2> QED BY <2>2, <2>4, <2>5 DEF Batch
<1> QED BY <1>1, <1>5

\* The first m events.
First(m) == [k \in 1..m |-> k]
Larger(m, n) == IF m >= n THEN m ELSE n

\* A workbench page that has the first events has the first n, or more, after a batch of n.
LEMMA BatchApplied ==
  ASSUME stream_kind = "trainer", stream_shown \in Seq(Nat), NEW n \in Nat,
         \A k \in DOMAIN stream_shown : stream_shown[k] = k
  PROVE  Stream!AppliedUpTo(n) = First(Larger(Len(stream_shown), n))
<1> DEFINE l == Len(stream_shown)
           g == [i \in 0..n |-> First(Larger(l, i))]
<1>1. l \in Nat /\ stream_shown = First(l)
  BY DEF First
<1>2. ASSUME NEW i \in 0..n PROVE g[i] = Batch(g, i)
  <2>1. CASE i = 0
    BY <1>1, <2>1 DEF Batch, Larger
  <2>2. CASE i # 0 /\ i <= l
    <3>1. i - 1 \in 0..n /\ g[i] = First(l) /\ g[i - 1] = First(l)
      BY <1>1, <2>2 DEF Larger
    <3>2. i \in DOMAIN First(l) /\ First(l)[i] = i
      BY <1>1, <2>2 DEF First
    <3>3. ~Stream!IsNew(i, g[i - 1])
      BY <3>1, <3>2 DEF Stream!IsNew
    <3> HIDE DEF g
    <3> QED BY <2>2, <3>1, <3>3 DEF Batch
  <2>3. CASE i > l
    <3>1. i - 1 \in 0..n /\ g[i] = First(i) /\ g[i - 1] = First(i - 1) /\ i # 0
      BY <1>1, <2>3 DEF Larger
    <3>2. \A k \in DOMAIN First(i - 1) : First(i - 1)[k] # i
      BY <3>1 DEF First
    <3>3. Stream!IsNew(i, g[i - 1])
      BY <3>1, <3>2 DEF Stream!IsNew
    <3>4. First(i) = Append(First(i - 1), i)
      BY <3>1 DEF First
    <3> HIDE DEF g
    <3> QED BY <3>1, <3>3, <3>4 DEF Batch
  <2> QED BY <1>1, <2>1, <2>2, <2>3
<1>3. g = [i \in 0..n |-> Batch(g, i)]
  BY <1>2
<1>4. g[n] = First(Larger(l, n))
  OBVIOUS
<1> HIDE DEF g
<1>5. Stream!AppliedUpTo(n) = g[n]
  BY <1>3, BatchOnce
<1> QED BY <1>4, <1>5

\* What is assumed of the constants.
LEMMA StreamConstants ==
  None \notin Stream!TERMINAL_RUN_STATES /\ Kinds \subseteq {"trainer", "agent"}
BY WorkbenchAssumption DEF WorkbenchAssumption, Stream!StreamAssumption


\* A sequence of three and one more.
LEMMA FourWords ==
  ASSUME NEW a, NEW b, NEW c, NEW d
  PROVE  Append(<<a, b, c>>, d) = <<a, b, c, d>>
<1> DEFINE S == {a, b, c, d}
           s == Append(<<a, b, c>>, d)
           t == <<a, b, c, d>>
<1>1. <<a, b, c>> \in Seq(S) /\ Len(<<a, b, c>>) = 3 /\ t \in Seq(S) /\ Len(t) = 4
  OBVIOUS
<1>2. s \in Seq(S) /\ Len(s) = 4 /\ s[1] = a /\ s[2] = b /\ s[3] = c /\ s[4] = d
  BY <1>1, AppendProperties
<1>3. t[1] = a /\ t[2] = b /\ t[3] = c /\ t[4] = d
  OBVIOUS
<1> HIDE DEF S, s, t
<1>4. \A i \in 1..4 : s[i] = t[i]
  <2> SUFFICES ASSUME NEW i \in 1..4 PROVE s[i] = t[i]
    OBVIOUS
  <2>1. i = 1 \/ i = 2 \/ i = 3 \/ i = 4
    OBVIOUS
  <2> QED BY <2>1, <1>2, <1>3
<1>5. s = t
  BY <1>1, <1>2, <1>4, SeqEqual
<1> QED BY <1>5 DEF s, t

\* What a run does at its end.
LEMMA Endings ==
  ASSUME NEW o \in Stream!TERMINAL_RUN_STATES
  PROVE  /\ Stream!Ending(o) \in Seq(StreamWords)
         /\ stream_kind = "trainer" /\ o \in Failing => Stream!Ending(o) = LastWords
<1>1. CASE stream_kind = "agent"
  BY <1>1 DEF Stream!Ending, StreamWords, Stream!EventTypes
<1>2. CASE stream_kind # "agent" /\ o = "COMPLETED"
  BY <1>2 DEF Stream!Ending, StreamWords, Stream!EventTypes, Failing
<1>3. CASE stream_kind # "agent" /\ o = "NO_CHANGE_NEEDED"
  BY <1>3 DEF Stream!Ending, StreamWords, Stream!EventTypes, Failing
<1>4. CASE stream_kind # "agent" /\ o \notin {"COMPLETED", "NO_CHANGE_NEEDED"}
  <2>1. Stream!Ending(o) = <<"error", "set status", "stage">> \o <<"usage_summary">>
    BY <1>4 DEF Stream!Ending, Stream!TrainerFails
  <2>2. Stream!Ending(o) = Append(<<"error", "set status", "stage">>, "usage_summary")
    <3>1. <<"error", "set status", "stage">> \in Seq(StreamWords)
          /\ "usage_summary" \in StreamWords
      BY DEF StreamWords, Stream!EventTypes
    <3> QED BY <2>1, <3>1, AppendIsConcat
  <2>3. Append(<<"error", "set status", "stage">>, "usage_summary") = LastWords
    BY FourWords DEF LastWords
  <2>4. LastWords \in Seq(StreamWords)
    BY DEF LastWords, StreamWords, Stream!EventTypes
  <2> QED BY <2>2, <2>3, <2>4
<1> QED BY <1>1, <1>2, <1>3, <1>4

\* What a batch leaves applied is a sequence of ids.
LEMMA BatchType ==
  ASSUME StreamShape, NEW n \in Nat, stream_kind = "trainer", OrderOK
  PROVE  Stream!AppliedUpTo(n) \in Seq(Nat)
<1>1. Larger(Len(stream_shown), n) \in Nat
  <2>1. stream_shown \in Seq(Nat)
    BY DEF StreamShape
  <2>2. Len(stream_shown) \in Nat
    BY <2>1
  <2> QED BY <2>2 DEF Larger
<1>2. Stream!AppliedUpTo(n) = First(Larger(Len(stream_shown), n))
  BY BatchApplied DEF StreamShape, OrderOK
<1> QED BY <1>1, <1>2 DEF First


\* The words of a run's end are types of events, but for the one that sets the status.
LEMMA Words ==
  \A w \in StreamWords : w # "set status" => w \in Stream!EventTypes
BY DEF StreamWords

\* A run only ever adds to its log.
LEMMA LogGrows ==
  ASSUME StreamShape, Stream!Next
  PROVE  stream_log' = stream_log \/ \E w \in Stream!EventTypes : stream_log' = Append(stream_log, w)
<1>1. CASE Stream!Work
  BY <1>1 DEF Stream!Work, Stream!EventTypes
<1>2. CASE Stream!Report
  <2>1. stream_todo # <<>> /\ stream_todo \in Seq(StreamWords)
    BY <1>2 DEF StreamShape, Stream!Report
  <2>2. Head(stream_todo) \in StreamWords
    BY <2>1
  <2> QED BY <1>2, <2>2, Words DEF Stream!Report
<1>3. CASE UNCHANGED stream_log
  BY <1>3
<1>4. Stream!Work \/ Stream!Report \/ UNCHANGED stream_log
  BY DEF Stream!Next, Stream!Thread, Stream!Server, Stream!Page, Stream!Conclude, Stream!Fetch,
         Stream!Check, Stream!Receive, Stream!Close, Stream!PollStatus, Stream!PollEvents,
         Stream!PollArrives, Stream!PollFails, Stream!Reconnect, Stream!GoSilent, Stream!run
<1> QED BY <1>1, <1>2, <1>3, <1>4

\* The list of events only grows.
LEMMA LogKept ==
  ASSUME StreamShape, Stream!Next
  PROVE  /\ stream_log' \in Seq(Stream!EventTypes) /\ Len(stream_log') \in Nat
         /\ Len(stream_log) \in Nat /\ Len(stream_log') >= Len(stream_log)
         /\ \A i \in DOMAIN stream_log : i \in DOMAIN stream_log' /\ stream_log'[i] = stream_log[i]
<1>1. stream_log \in Seq(Stream!EventTypes)
  BY DEF StreamShape
<1>2. CASE stream_log' = stream_log
  BY <1>1, <1>2
<1>3. CASE \E w \in Stream!EventTypes : stream_log' = Append(stream_log, w)
  BY <1>1, <1>3
<1> QED BY <1>2, <1>3, LogGrows

\* What a generator finds goes on the wire behind what is there.
LEMMA Fetched ==
  ASSUME StreamShape, Stream!Fetch
  PROVE  \/ UNCHANGED <<stream_wire, stream_sent>>
         \/ /\ stream_sent' = Len(stream_log) /\ stream_wire' \in Seq(Nat)
            /\ Len(stream_wire') = Len(stream_wire) + (Len(stream_log) - stream_sent)
            /\ \A k \in 1..Len(stream_wire') : stream_wire'[k] =
                 IF k <= Len(stream_wire) THEN stream_wire[k]
                 ELSE stream_sent + (k - Len(stream_wire))
<1> DEFINE more == [i \in 1..(Len(stream_log) - stream_sent) |-> stream_sent + i]
<1>1. /\ stream_wire \in Seq(Nat) /\ stream_sent \in Nat /\ Len(stream_log) \in Nat
      /\ Len(stream_wire) \in Nat /\ stream_sent <= Len(stream_log)
  BY DEF StreamShape
<1>2. /\ more \in Seq(Nat) /\ Len(more) = Len(stream_log) - stream_sent
      /\ \A i \in 1..Len(more) : more[i] = stream_sent + i
  BY <1>1
<1>3. UNCHANGED <<stream_wire, stream_sent>> \/ (stream_sent' = Len(stream_log) /\ stream_wire' = stream_wire \o more)
  BY DEF Stream!Fetch
<1> HIDE DEF more
<1>4. /\ stream_wire \o more \in Seq(Nat)
      /\ Len(stream_wire \o more) = Len(stream_wire) + Len(more)
      /\ \A k \in 1..Len(stream_wire) + Len(more) : (stream_wire \o more)[k] =
           IF k <= Len(stream_wire) THEN stream_wire[k] ELSE more[k - Len(stream_wire)]
  BY <1>1, <1>2, ConcatProperties
<1>5. \A k \in 1..Len(stream_wire) + Len(more) : (stream_wire \o more)[k] =
           IF k <= Len(stream_wire) THEN stream_wire[k] ELSE stream_sent + (k - Len(stream_wire))
  BY <1>1, <1>2, <1>4
<1> QED BY <1>2, <1>3, <1>4, <1>5

\* Every step keeps the shape.
LEMMA StreamShapeKept ==
  ASSUME StreamInv, Stream!Next
  PROVE  StreamShape'
<1> USE StreamConstants DEF StreamInv, StreamShape
<1>1. ASSUME Stream!Work PROVE StreamShape'
  <2>1. stream_log' \in Seq(Stream!EventTypes) /\ Len(stream_log) \in Nat
        /\ Len(stream_log') \in Nat /\ Len(stream_log') >= Len(stream_log)
    BY LogKept
  <2> QED BY <1>1, <2>1 DEF Stream!Work, Stream!sse, Stream!page
<1>2. ASSUME Stream!Conclude PROVE StreamShape'
  <2>1. PICK o \in Stream!TERMINAL_RUN_STATES : stream_outcome' = o /\ stream_todo' = Stream!Ending(o)
    BY <1>2 DEF Stream!Conclude, Stream!Outcomes, Stream!TERMINAL_RUN_STATES
  <2>2. stream_todo' \in Seq(StreamWords)
    BY <2>1, Endings
  <2> QED BY <1>2, <2>1, <2>2 DEF Stream!Conclude, Stream!sse, Stream!page
<1>3. ASSUME Stream!Report PROVE StreamShape'
  <2>1. stream_todo # <<>> /\ stream_todo' = Tail(stream_todo)
    BY <1>3 DEF Stream!Report
  <2>2. stream_todo' \in Seq(StreamWords)
    BY <2>1
  <2>3. stream_log' \in Seq(Stream!EventTypes) /\ Len(stream_log) \in Nat
        /\ Len(stream_log') \in Nat /\ Len(stream_log') >= Len(stream_log)
    BY LogKept
  <2>4. stream_status' \in StreamStatuses
    BY <1>3 DEF Stream!Report, StreamStatuses
  <2>5. UNCHANGED <<stream_kind, stream_outcome, stream_sent, stream_wire, stream_poll,
                    stream_shown, stream_finished>>
    BY <1>3 DEF Stream!Report, Stream!sse, Stream!page
  <2>6. stream_poll' # None /\ stream_poll'.upTo # None => stream_poll'.upTo <= Len(stream_log')
    BY <2>3, <2>5
  <2>7. stream_outcome' # None
    BY <2>1, <2>5
  <2> QED BY <2>2, <2>3, <2>4, <2>5, <2>6, <2>7
<1>4. ASSUME Stream!Fetch PROVE StreamShape'
  <2>1. stream_wire' \in Seq(Nat) /\ stream_sent' \in Nat /\ stream_sent' <= Len(stream_log)
    BY <1>4, Fetched
  <2> QED BY <1>4, <2>1 DEF Stream!Fetch, Stream!run, Stream!page
<1>5. ASSUME Stream!Check PROVE StreamShape'
  BY <1>5 DEF Stream!Check, Stream!run, Stream!sse, Stream!page
<1>6. ASSUME Stream!Reconnect PROVE StreamShape'
  BY <1>6 DEF Stream!Reconnect, Stream!run, Stream!sse, Stream!page
<1>7. ASSUME Stream!GoSilent PROVE StreamShape'
  BY <1>7 DEF Stream!GoSilent, Stream!run, Stream!sse, Stream!page
<1>8. ASSUME Stream!Receive PROVE StreamShape'
  BY <1>8 DEF Stream!Receive, Stream!run, Stream!sse, Stream!page, Stream!Ends
<1>9. ASSUME Stream!Close PROVE StreamShape'
  BY <1>9 DEF Stream!Close, Stream!run, Stream!sse, Stream!page
<1>10. ASSUME Stream!PollStatus PROVE StreamShape'
  BY <1>10 DEF Stream!PollStatus, Stream!run, Stream!sse, Stream!page
<1>11. ASSUME Stream!PollEvents PROVE StreamShape'
  <2>1. Len(stream_log) \in Nat /\ stream_poll \in [status : StreamStatuses, upTo : Nat \cup {None}]
        /\ stream_kind = "trainer"
    BY <1>11 DEF Stream!PollEvents
  <2>2. stream_poll' \in [status : StreamStatuses, upTo : Nat \cup {None}]
    BY <1>11, <2>1 DEF Stream!PollEvents
  <2> QED BY <1>11, <2>1, <2>2 DEF Stream!PollEvents, Stream!run, Stream!sse,
                                   Stream!page
<1>12. ASSUME Stream!PollFails PROVE StreamShape'
  BY <1>12 DEF Stream!PollFails, Stream!run, Stream!sse, Stream!page
<1>13. ASSUME Stream!PollArrives PROVE StreamShape'
  <2>1. stream_kind = "trainer" /\ stream_poll.upTo \in Nat
    BY <1>13 DEF Stream!PollArrives
  <2>2. stream_shown' \in Seq(Nat)
    BY <1>13, <2>1, BatchType DEF Stream!PollArrives
  <2>3. stream_finished' \in BOOLEAN
    BY <1>13 DEF Stream!PollArrives, Stream!Ends
  <2> QED BY <1>13, <2>2, <2>3 DEF Stream!PollArrives, Stream!run, Stream!sse
<1> QED BY <1>1, <1>2, <1>3, <1>4, <1>5, <1>6, <1>7, <1>8, <1>9, <1>10, <1>11, <1>12, <1>13
        DEF Stream!Next, Stream!Thread, Stream!Server, Stream!Page


\* Every step keeps the order of the page.
LEMMA OrderKept ==
  ASSUME StreamInv, Stream!Next, stream_kind = "trainer"
  PROVE  OrderOK'
<1> USE DEF StreamInv, StreamShape, OrderOK
<1>1. ASSUME Stream!Work PROVE OrderOK'
  BY <1>1 DEF Stream!Work, Stream!run, Stream!sse, Stream!page
<1>2. ASSUME Stream!Conclude PROVE OrderOK'
  BY <1>2 DEF Stream!Conclude, Stream!run, Stream!sse, Stream!page
<1>3. ASSUME Stream!Report PROVE OrderOK'
  BY <1>3 DEF Stream!Report, Stream!run, Stream!sse, Stream!page
<1>4. ASSUME Stream!Fetch PROVE OrderOK'
  <2>1. UNCHANGED <<stream_log, stream_shown>>
    BY <1>4 DEF Stream!Fetch, Stream!run, Stream!page
  <2>2. CASE UNCHANGED <<stream_wire, stream_sent>>
    BY <2>1, <2>2
  <2>3. CASE /\ stream_sent' = Len(stream_log) /\ stream_wire' \in Seq(Nat)
             /\ Len(stream_wire') = Len(stream_wire) + (Len(stream_log) - stream_sent)
             /\ \A k \in 1..Len(stream_wire') : stream_wire'[k] =
                  IF k <= Len(stream_wire) THEN stream_wire[k]
                  ELSE stream_sent + (k - Len(stream_wire))
    <3>1. DOMAIN stream_wire' = 1..Len(stream_wire')
      BY <2>3
    <3>2. ASSUME NEW k \in 1..Len(stream_wire')
          PROVE  stream_wire'[k] = stream_sent' - Len(stream_wire') + k
      <4>1. stream_sent' - Len(stream_wire') = stream_sent - Len(stream_wire)
        BY <2>3, SMTT(20)
      <4>2. CASE k <= Len(stream_wire)
        <5>1. k \in DOMAIN stream_wire
          <6>1. stream_wire \in Seq(Nat) /\ Len(stream_wire) \in Nat
            OBVIOUS
          <6>2. Len(stream_wire') \in Nat
            BY <2>3
          <6> QED BY <4>2, <6>1, <6>2
        <5>2. stream_wire[k] = stream_sent - Len(stream_wire) + k
          BY <5>1
        <5> QED BY <2>3, <4>1, <4>2, <5>2
      <4>3. CASE k > Len(stream_wire)
        BY <2>3, <4>1, <4>3
      <4> QED BY <2>3, <4>2, <4>3
    <3>3. /\ Len(stream_wire') <= stream_sent' /\ stream_sent' <= Len(stream_log')
          /\ stream_sent' - Len(stream_wire') <= Len(stream_shown')
      BY <2>1, <2>3
    <3> QED BY <2>1, <3>1, <3>2, <3>3
  <2> QED BY <1>4, <2>2, <2>3, Fetched
<1>5. ASSUME Stream!Check PROVE OrderOK'
  BY <1>5 DEF Stream!Check, Stream!run, Stream!sse, Stream!page
<1>6. ASSUME Stream!Reconnect PROVE OrderOK'
  BY <1>6 DEF Stream!Reconnect, Stream!run, Stream!sse, Stream!page
<1>7. ASSUME Stream!GoSilent PROVE OrderOK'
  BY <1>7 DEF Stream!GoSilent, Stream!run, Stream!sse, Stream!page
<1>8. ASSUME Stream!Receive PROVE OrderOK'
  <2> DEFINE i == Head(stream_wire)
             d == stream_sent - Len(stream_wire)
  <2>1. /\ stream_wire # <<>> /\ stream_wire' = Tail(stream_wire)
        /\ stream_shown' = IF Stream!IsNew(i, stream_shown) THEN Append(stream_shown, i)
                           ELSE stream_shown
        /\ UNCHANGED <<stream_sent, stream_log>>
    BY <1>8 DEF Stream!Receive, Stream!run
  <2>2. /\ Len(stream_wire') = Len(stream_wire) - 1 /\ stream_wire' \in Seq(Nat)
        /\ \A k \in 1..(Len(stream_wire) - 1) : stream_wire'[k] = stream_wire[k + 1]
        /\ Len(stream_wire) \in Nat \ {0}
    BY <2>1
  <2>3. i = d + 1 /\ i \in Nat /\ d \in Nat /\ i <= Len(stream_shown) + 1
    <3>1. 1 \in DOMAIN stream_wire /\ i = stream_wire[1]
      <4>1. stream_wire \in Seq(Nat) /\ stream_wire # <<>>
        BY <2>1
      <4> HIDE DEF StreamShape, OrderOK, StreamInv
      <4>2. 1 \in DOMAIN stream_wire /\ Head(stream_wire) = stream_wire[1]
        BY <4>1
      <4> QED BY <4>2
    <3>2. stream_wire[1] = stream_sent - Len(stream_wire) + 1
      BY <3>1
    <3>3. d \in Nat /\ d <= Len(stream_shown) /\ Len(stream_shown) \in Nat
      OBVIOUS
    <3> HIDE DEF i
    <3>4. i = d + 1
      BY <3>1, <3>2
    <3> QED BY <3>3, <3>4
  <2>4. \A k \in DOMAIN stream_wire' : stream_wire'[k] = stream_sent' - Len(stream_wire') + k
    <3> SUFFICES ASSUME NEW k \in 1..(Len(stream_wire) - 1)
                 PROVE  stream_wire'[k] = stream_sent' - Len(stream_wire') + k
      <4> HIDE DEF StreamShape, OrderOK, StreamInv
      <4>1. DOMAIN stream_wire' = 1..Len(stream_wire')
        BY <2>2
      <4>2. DOMAIN stream_wire' = 1..(Len(stream_wire) - 1)
        BY <2>2, <4>1
      <4> QED BY <4>2
    <3>1. k + 1 \in DOMAIN stream_wire /\ stream_wire'[k] = stream_wire[k + 1]
      <4>1. stream_wire \in Seq(Nat)
        OBVIOUS
      <4> HIDE DEF StreamShape, OrderOK, StreamInv
      <4>2. DOMAIN stream_wire = 1..Len(stream_wire)
        BY <4>1
      <4>3. k + 1 \in 1..Len(stream_wire)
        BY <2>2
      <4>4. stream_wire'[k] = stream_wire[k + 1]
        BY <2>2
      <4> QED BY <4>2, <4>3, <4>4
    <3>2. stream_wire[k + 1] = stream_sent - Len(stream_wire) + (k + 1)
      BY <3>1
    <3> QED BY <2>1, <2>2, <3>1, <3>2
  <2>5. CASE i <= Len(stream_shown)
    <3>1. i \in DOMAIN stream_shown /\ stream_shown[i] = i
      BY <2>3, <2>5
    <3>2. ~Stream!IsNew(i, stream_shown)
      BY <3>1 DEF Stream!IsNew
    <3> HIDE DEF i, d
    <3>3. stream_sent' - Len(stream_wire') <= Len(stream_shown')
      BY <2>1, <2>2, <2>3, <2>5, <3>2 DEF d
    <3> QED BY <2>1, <2>2, <2>4, <3>2, <3>3
  <2>6. CASE i = Len(stream_shown) + 1
    <3>1. \A k \in DOMAIN stream_shown : stream_shown[k] # i
      BY <2>6
    <3>2. Stream!IsNew(i, stream_shown)
      BY <3>1 DEF Stream!IsNew
    <3>3. stream_shown' = Append(stream_shown, i)
      BY <2>1, <3>2
    <3>4. /\ Len(stream_shown') = Len(stream_shown) + 1
          /\ \A k \in DOMAIN stream_shown' : stream_shown'[k] = k
      BY <2>3, <2>6, <3>3, SMTT(20)
    <3> HIDE DEF i, d
    <3>5. stream_sent' - Len(stream_wire') <= Len(stream_shown')
      BY <2>1, <2>2, <2>3, <2>6, <3>4 DEF d
    <3> QED BY <2>1, <2>2, <2>4, <3>4, <3>5, SMTT(20)
  <2>7. i <= Len(stream_shown) \/ i = Len(stream_shown) + 1
    BY <2>3
  <2> QED BY <2>5, <2>6, <2>7
<1>9. ASSUME Stream!Close PROVE OrderOK'
  BY <1>9 DEF Stream!Close, Stream!run, Stream!sse, Stream!page
<1>10. ASSUME Stream!PollStatus PROVE OrderOK'
  BY <1>10 DEF Stream!PollStatus, Stream!run, Stream!sse, Stream!page
<1>11. ASSUME Stream!PollEvents PROVE OrderOK'
  BY <1>11 DEF Stream!PollEvents, Stream!run, Stream!sse, Stream!page
<1>12. ASSUME Stream!PollFails PROVE OrderOK'
  BY <1>12 DEF Stream!PollFails, Stream!run, Stream!sse, Stream!page
<1>13. ASSUME Stream!PollArrives PROVE OrderOK'
  <2> DEFINE m == Larger(Len(stream_shown), stream_poll.upTo)
  <2>1. stream_poll.upTo \in Nat /\ stream_shown' = Stream!AppliedUpTo(stream_poll.upTo)
        /\ UNCHANGED <<stream_wire, stream_sent, stream_log>>
    BY <1>13 DEF Stream!PollArrives, Stream!run, Stream!sse
  <2>2. stream_shown' = First(m)
    BY <2>1, BatchApplied
  <2>3. m \in Nat /\ m >= Len(stream_shown)
    BY <2>1 DEF Larger
  <2> HIDE DEF m
  <2>4. Len(stream_shown') = m /\ \A k \in DOMAIN stream_shown' : stream_shown'[k] = k
    BY <2>2, <2>3 DEF First
  <2> QED BY <2>1, <2>3, <2>4
<1> QED BY <1>1, <1>2, <1>3, <1>4, <1>5, <1>6, <1>7, <1>8, <1>9, <1>10, <1>11, <1>12, <1>13
        DEF Stream!Next, Stream!Thread, Stream!Server, Stream!Page


\* What has been told remains told.
LEMMA ToldGrows ==
  ASSUME StreamShape, Stream!Next, NEW n, NEW m, m \in Nat, n \in Nat, n <= m, Told(stream_log, n)
  PROVE  Told(stream_log', m)
<1>1. PICK e \in DOMAIN stream_log : e <= n /\ stream_log[e] = "error"
  BY DEF Told
<1>2. e \in Nat
  BY <1>1 DEF StreamShape
<1>3. e \in DOMAIN stream_log' /\ stream_log'[e] = "error"
  BY <1>1, LogKept
<1>4. e <= m
  BY <1>1, <1>2
<1> QED BY <1>3, <1>4 DEF Told

\* Four without the first.
LEMMA TailOfFour ==
  ASSUME NEW a, NEW b, NEW c, NEW d
  PROVE  Tail(<<a, b, c, d>>) = <<b, c, d>>
<1> DEFINE S == {a, b, c, d}
           s == <<a, b, c, d>>
           t == <<b, c, d>>
<1>1. s \in Seq(S) /\ Len(s) = 4 /\ s # <<>> /\ s[2] = b /\ s[3] = c /\ s[4] = d
  OBVIOUS
<1>2. t \in Seq(S) /\ Len(t) = 3 /\ t[1] = b /\ t[2] = c /\ t[3] = d
  OBVIOUS
<1> HIDE DEF S, s, t
<1>3. /\ Tail(s) \in Seq(S) /\ Len(Tail(s)) = 3
      /\ Tail(s)[1] = b /\ Tail(s)[2] = c /\ Tail(s)[3] = d
  <2> DEFINE u == Tail(s)
  <2>1. u \in Seq(S) /\ Len(u) = Len(s) - 1 /\ \A i \in 1..Len(u) : u[i] = s[i + 1]
    BY <1>1, HeadTailProperties
  <2> HIDE DEF u
  <2>2. Len(u) = 3
    BY <1>1, <2>1
  <2>a. 1 \in 1..Len(u) /\ 2 \in 1..Len(u) /\ 3 \in 1..Len(u)
    BY <2>2
  <2>b. u[1] = s[1 + 1] /\ u[2] = s[2 + 1] /\ u[3] = s[3 + 1]
    BY <2>1, <2>a
  <2>c. 1 + 1 = 2 /\ 2 + 1 = 3 /\ 3 + 1 = 4
    OBVIOUS
  <2>3. u[1] = s[2] /\ u[2] = s[3] /\ u[3] = s[4]
    BY <2>b, <2>c
  <2>4. u \in Seq(S) /\ Len(u) = 3 /\ u[1] = b /\ u[2] = c /\ u[3] = d
    BY <1>1, <2>1, <2>2, <2>3
  <2> QED BY <2>4 DEF u
<1>4. \A i \in 1..3 : Tail(s)[i] = t[i]
  <2> SUFFICES ASSUME NEW i \in 1..3 PROVE Tail(s)[i] = t[i]
    OBVIOUS
  <2>1. i = 1 \/ i = 2 \/ i = 3
    OBVIOUS
  <2> QED BY <2>1, <1>2, <1>3
<1>5. Tail(s) = t
  BY <1>2, <1>3, <1>4, SeqEqual
<1> QED BY <1>5 DEF s, t

\* What is left to say after each word of a failed run.
LEMMA Tails ==
  /\ LastWords # <<>> /\ Head(LastWords) = "error" /\ Tail(LastWords) = LastThree
  /\ LastThree # <<>> /\ Head(LastThree) = "set status" /\ Tail(LastThree) = LastTwo
  /\ LastTwo # <<>> /\ Head(LastTwo) = "stage" /\ Tail(LastTwo) = LastOne
  /\ LastOne # <<>> /\ Head(LastOne) = "usage_summary" /\ Tail(LastOne) = <<>>
  /\ LastThree # LastWords /\ LastTwo # LastWords /\ LastOne # LastWords
<1>1. Tail(LastWords) = LastThree
  BY TailOfFour DEF LastWords, LastThree
<1>2. Tail(LastThree) = LastTwo
  BY DEF LastThree, LastTwo
<1>3. Tail(LastTwo) = LastOne
  BY DEF LastTwo, LastOne
<1>4. Tail(LastOne) = <<>>
  BY DEF LastOne
<1>5. LastWords # <<>> /\ Head(LastWords) = "error"
  BY DEF LastWords
<1>6. LastThree # <<>> /\ Head(LastThree) = "set status"
  BY DEF LastThree
<1>7. LastTwo # <<>> /\ Head(LastTwo) = "stage"
  BY DEF LastTwo
<1>8. LastOne # <<>> /\ Head(LastOne) = "usage_summary"
  BY DEF LastOne
<1>9. LastThree # LastWords /\ LastTwo # LastWords /\ LastOne # LastWords
  BY <1>5, <1>6, <1>7, <1>8
<1> QED BY <1>1, <1>2, <1>3, <1>4, <1>5, <1>6, <1>7, <1>8, <1>9

\* An event that arrives is one of the log, and the page has it then, and all before it.
LEMMA Received ==
  ASSUME StreamInv, Stream!Receive, stream_kind = "trainer"
  PROVE  /\ Head(stream_wire) \in DOMAIN stream_log
         /\ Head(stream_wire) <= Len(stream_shown')
         /\ Len(stream_shown') \in Nat /\ Len(stream_shown') >= Len(stream_shown)
<1>1. Stream!Next
  BY DEF Stream!Next, Stream!Page
<1>2. OrderOK' /\ StreamShape'
  <2>1. stream_kind' = "trainer"
    BY DEF Stream!Receive, Stream!run
  <2> QED BY <1>1, <2>1, OrderKept, StreamShapeKept
<1>3. /\ stream_wire \in Seq(Nat) /\ stream_wire # <<>> /\ stream_wire' = Tail(stream_wire)
      /\ stream_sent' = stream_sent /\ stream_sent <= Len(stream_log) /\ stream_sent \in Nat
      /\ stream_log \in Seq(Stream!EventTypes) /\ Len(stream_wire) <= stream_sent
      /\ \A k \in DOMAIN stream_wire : stream_wire[k] = stream_sent - Len(stream_wire) + k
      /\ stream_shown \in Seq(Nat)
  BY DEF Stream!Receive, StreamInv, StreamShape, OrderOK
<1>4. /\ stream_sent' - Len(stream_wire') <= Len(stream_shown') /\ Len(stream_shown') \in Nat
      /\ stream_shown' \in Seq(Nat)
  BY <1>2 DEF StreamShape, OrderOK
<1>5. /\ Len(stream_wire') = Len(stream_wire) - 1 /\ Len(stream_wire) \in Nat \ {0}
      /\ Len(stream_log) \in Nat
      /\ Head(stream_wire) = stream_wire[1] /\ 1 \in DOMAIN stream_wire
  BY <1>3
<1>6. Head(stream_wire) = stream_sent - Len(stream_wire) + 1
  BY <1>3, <1>5
<1>7. Len(stream_shown') >= Len(stream_shown)
  <2>1. stream_shown' = stream_shown \/ stream_shown' = Append(stream_shown, Head(stream_wire))
    BY DEF Stream!Receive
  <2>2. Len(Append(stream_shown, Head(stream_wire))) = Len(stream_shown) + 1
        /\ Len(stream_shown) \in Nat
    BY <1>3
  <2> QED BY <2>1, <2>2
<1>8. Head(stream_wire) \in DOMAIN stream_log
  BY <1>3, <1>5, <1>6
<1> QED BY <1>3, <1>4, <1>5, <1>6, <1>7, <1>8

\* A status of failure is a last one.
LEMMA FailingIsTerminal ==
  Failing \subseteq Stream!TERMINAL_RUN_STATES /\ None \notin Failing
BY StreamConstants DEF Failing, Stream!TERMINAL_RUN_STATES

\* Every step keeps that the reason comes first.
LEMMA ReasonKept ==
  ASSUME StreamInv, Stream!Next, stream_kind = "trainer"
  PROVE  ReasonOK'
<1> USE StreamConstants, FailingIsTerminal
<1> DEFINE quiet == UNCHANGED <<stream_outcome, stream_todo, stream_status, stream_log, stream_poll,
                                stream_shown, stream_finished>>
<1>0. StreamShape /\ OrderOK /\ ReasonOK
  BY DEF StreamInv
<1>a. ASSUME quiet PROVE ReasonOK'
  BY <1>0, <1>a DEF ReasonOK, OpenOK, FailingOK, Told
<1>1. ASSUME Stream!Work PROVE ReasonOK'
  <2>1. /\ stream_outcome = None /\ stream_log' = Append(stream_log, "work")
        /\ UNCHANGED <<stream_outcome, stream_status, stream_poll, stream_finished>>
    BY <1>1 DEF Stream!Work, Stream!page
  <2>2. OpenOK /\ stream_log \in Seq(Stream!EventTypes)
    BY <1>0, <2>1 DEF ReasonOK, StreamShape
  <2>3. \A i \in DOMAIN stream_log' : stream_log'[i] # "stage"
    BY <2>1, <2>2 DEF OpenOK
  <2> QED BY <2>1, <2>2, <2>3 DEF OpenOK, ReasonOK
<1>2. ASSUME Stream!Conclude PROVE ReasonOK'
  <2>1. PICK o \in Stream!TERMINAL_RUN_STATES : stream_outcome' = o /\ stream_todo' = Stream!Ending(o)
    BY <1>2 DEF Stream!Conclude, Stream!Outcomes, Stream!TERMINAL_RUN_STATES
  <2>2. /\ stream_outcome = None
        /\ UNCHANGED <<stream_status, stream_log, stream_poll, stream_shown, stream_finished>>
    BY <1>2 DEF Stream!Conclude, Stream!page
  <2>3. OpenOK
    BY <1>0, <2>2 DEF ReasonOK
  <2>4. o \in Failing => stream_todo' = LastWords
    BY <2>1, Endings
  <2> QED BY <2>1, <2>2, <2>3, <2>4 DEF ReasonOK, OpenOK, FailingOK
<1>3. ASSUME Stream!Report PROVE ReasonOK'
  <2>1. /\ stream_todo # <<>> /\ stream_todo' = Tail(stream_todo) /\ stream_outcome # None
        /\ UNCHANGED <<stream_outcome, stream_poll, stream_shown, stream_finished>>
        /\ IF Head(stream_todo) = "set status"
             THEN stream_status' = stream_outcome /\ UNCHANGED stream_log
             ELSE stream_log' = Append(stream_log, Head(stream_todo)) /\ UNCHANGED stream_status
    BY <1>0, <1>3 DEF Stream!Report, Stream!page, StreamShape
  <2> SUFFICES ASSUME stream_outcome \in Failing PROVE FailingOK'
    BY <2>1 DEF ReasonOK
  <2>2. FailingOK
    BY <1>0 DEF ReasonOK
  <2>3. /\ stream_log \in Seq(Stream!EventTypes) /\ Len(stream_log) \in Nat
        /\ Len(stream_shown) \in Nat
        /\ stream_poll # None => stream_poll.upTo \in Nat \cup {None}
    BY <1>0 DEF StreamShape
  <2>4. /\ stream_log' \in Seq(Stream!EventTypes) /\ Len(stream_log') \in Nat
        /\ Len(stream_log') >= Len(stream_log)
        /\ \A i \in DOMAIN stream_log : i \in DOMAIN stream_log' /\ stream_log'[i] = stream_log[i]
    BY <1>0, LogKept
  <2>5. \A n \in Nat : Told(stream_log, n) => Told(stream_log', n)
    BY <1>0, ToldGrows
  <2>6. Told(stream_log, Len(stream_log)) => Told(stream_log', Len(stream_log'))
    BY <1>0, <2>3, <2>4, ToldGrows
  <2>7. stream_finished' => Told(stream_log', Len(stream_shown'))
    BY <2>1, <2>2, <2>3, <2>5 DEF FailingOK
  <2>8. stream_poll' # None /\ stream_poll'.status # "working" =>
          Told(stream_log', IF stream_poll'.upTo = None THEN Len(stream_log') ELSE stream_poll'.upTo)
    BY <2>1, <2>2, <2>3, <2>5, <2>6 DEF FailingOK
  <2>9. CASE stream_todo = LastWords
    <3>1. stream_log' = Append(stream_log, "error") /\ stream_todo' = LastThree
      BY <2>1, <2>9, Tails
    <3>2. Len(stream_log') \in DOMAIN stream_log' /\ stream_log'[Len(stream_log')] = "error"
      BY <2>3, <3>1
    <3>3. Told(stream_log', Len(stream_log'))
      BY <2>4, <3>2 DEF Told
    <3>4. \A i \in DOMAIN stream_log' : stream_log'[i] = "stage" => i \in DOMAIN stream_log
      BY <2>3, <3>1
    <3>5. \A i \in DOMAIN stream_log' : stream_log'[i] = "stage" => Told(stream_log', i)
      BY <2>2, <2>3, <2>4, <2>5, <3>4 DEF FailingOK
    <3> QED BY <2>7, <2>8, <3>1, <3>3, <3>5, Tails DEF FailingOK
  <2>10. CASE stream_todo # LastWords
    <3>1. Told(stream_log', Len(stream_log')) /\ Told(stream_log, Len(stream_log))
      BY <2>2, <2>6, <2>10 DEF FailingOK
    <3>2. stream_todo' \in {LastTwo, LastOne, <<>>}
      BY <2>1, <2>2, <2>10, Tails DEF FailingOK
    <3>3. stream_log' = stream_log \/ \E w : stream_log' = Append(stream_log, w)
      BY <2>1
    <3>4. \A i \in DOMAIN stream_log' : i \in DOMAIN stream_log \/ i = Len(stream_log')
      BY <2>3, <3>3
    <3>5. \A i \in DOMAIN stream_log' : stream_log'[i] = "stage" => Told(stream_log', i)
      BY <2>2, <2>3, <2>4, <2>5, <3>1, <3>4 DEF FailingOK
    <3> QED BY <2>7, <2>8, <3>1, <3>2, <3>5, Tails DEF FailingOK
  <2> QED BY <2>9, <2>10
<1>4. ASSUME Stream!Fetch PROVE ReasonOK'
  BY <1>4, <1>a DEF Stream!Fetch, Stream!run, Stream!sse, Stream!page
<1>5. ASSUME Stream!Check PROVE ReasonOK'
  BY <1>5, <1>a DEF Stream!Check, Stream!run, Stream!sse, Stream!page
<1>6. ASSUME Stream!Reconnect PROVE ReasonOK'
  BY <1>6, <1>a DEF Stream!Reconnect, Stream!run, Stream!sse, Stream!page
<1>7. ASSUME Stream!GoSilent PROVE ReasonOK'
  BY <1>7, <1>a DEF Stream!GoSilent, Stream!run, Stream!sse, Stream!page
<1>8. ASSUME Stream!Receive PROVE ReasonOK'
  <2> DEFINE i == Head(stream_wire)
  <2>1. /\ UNCHANGED <<stream_outcome, stream_todo, stream_status, stream_log, stream_poll>>
        /\ stream_finished' = (stream_finished \/ Stream!IsTerminalStage(i))
    BY <1>8 DEF Stream!Receive, Stream!run, Stream!Ends
  <2>2. i \in DOMAIN stream_log /\ i \in Nat /\ i <= Len(stream_shown')
        /\ Len(stream_shown') \in Nat /\ Len(stream_shown') >= Len(stream_shown)
        /\ Len(stream_shown) \in Nat
    BY <1>0, <1>8, Received DEF StreamShape
  <2> HIDE DEF i
  <2>3. stream_outcome = None => ~stream_finished'
    BY <1>0, <2>1 DEF Stream!IsTerminalStage, Stream!TERMINAL_STAGES, ReasonOK,
                      OpenOK
  <2>4. ASSUME stream_outcome \in Failing, stream_finished'
        PROVE  Told(stream_log', Len(stream_shown'))
    <3>1. \A n \in Nat : n <= Len(stream_shown') /\ Told(stream_log, n)
                         => Told(stream_log', Len(stream_shown'))
      BY <1>0, <2>2, ToldGrows
    <3>2. CASE stream_finished
      BY <1>0, <2>2, <2>4, <3>1, <3>2 DEF ReasonOK, FailingOK
    <3>3. CASE Stream!IsTerminalStage(i)
      BY <1>0, <2>2, <2>4, <3>1, <3>3 DEF ReasonOK, FailingOK,
         Stream!IsTerminalStage
    <3> QED BY <2>1, <2>4, <3>2, <3>3
  <2> QED BY <1>0, <2>1, <2>3, <2>4 DEF ReasonOK, OpenOK, FailingOK
<1>9. ASSUME Stream!Close PROVE ReasonOK'
  BY <1>9, <1>a DEF Stream!Close, Stream!run, Stream!sse, Stream!page
<1>10. ASSUME Stream!PollStatus PROVE ReasonOK'
  <2>1. /\ UNCHANGED <<stream_outcome, stream_todo, stream_status, stream_log, stream_shown,
                       stream_finished>>
        /\ stream_poll' = [status |-> stream_status, upTo |-> None]
    BY <1>10 DEF Stream!PollStatus, Stream!run, Stream!page
  <2> QED BY <1>0, <2>1 DEF ReasonOK, OpenOK, FailingOK
<1>11. ASSUME Stream!PollEvents PROVE ReasonOK'
  <2>1. /\ UNCHANGED <<stream_outcome, stream_todo, stream_status, stream_log, stream_shown,
                       stream_finished>>
        /\ stream_poll # None /\ stream_poll.upTo = None
        /\ stream_poll' = [stream_poll EXCEPT !.upTo = Len(stream_log)]
    BY <1>11 DEF Stream!PollEvents, Stream!run, Stream!page
  <2>2. stream_poll \in [status : StreamStatuses, upTo : Nat \cup {None}]
    BY <1>0, <2>1 DEF StreamShape
  <2>3. stream_poll'.status = stream_poll.status /\ stream_poll'.upTo = Len(stream_log)
    BY <2>1, <2>2
  <2> QED BY <1>0, <2>1, <2>3 DEF ReasonOK, OpenOK, FailingOK
<1>12. ASSUME Stream!PollFails PROVE ReasonOK'
  <2>1. /\ UNCHANGED <<stream_outcome, stream_todo, stream_status, stream_log, stream_shown,
                       stream_finished>>
        /\ stream_poll' = None
    BY <1>12 DEF Stream!PollFails, Stream!run, Stream!page
  <2> QED BY <1>0, <2>1 DEF ReasonOK, OpenOK, FailingOK
<1>13. ASSUME Stream!PollArrives PROVE ReasonOK'
  <2> DEFINE n == stream_poll.upTo
  <2>1. /\ UNCHANGED <<stream_outcome, stream_todo, stream_status, stream_log>>
        /\ stream_poll # None /\ n # None /\ stream_poll' = None
        /\ stream_shown' = Stream!AppliedUpTo(n)
        /\ stream_finished' => \/ stream_finished \/ stream_poll.status \in Stream!TERMINAL_STAGES
                               \/ \E i \in 1..n : Stream!IsTerminalStage(i)
    BY <1>13 DEF Stream!PollArrives, Stream!run, Stream!Ends
  <2>2. /\ n \in Nat /\ n <= Len(stream_log) /\ stream_log \in Seq(Stream!EventTypes)
        /\ stream_shown \in Seq(Nat) /\ Len(stream_shown) \in Nat /\ Len(stream_log) \in Nat
    BY <1>0, <2>1 DEF StreamShape
  <2>3. stream_shown' = First(Larger(Len(stream_shown), n))
    BY <1>0, <2>1, <2>2, BatchApplied DEF OrderOK
  <2> HIDE DEF n
  <2>4. /\ Len(stream_shown') \in Nat /\ Len(stream_shown') >= n
        /\ Len(stream_shown') >= Len(stream_shown)
    <3>1. \A m \in Nat : Len(First(m)) = m
      BY DEF First
    <3> QED BY <2>2, <2>3, <3>1 DEF Larger
  <2>5. "working" \notin Stream!TERMINAL_STAGES
    BY DEF Stream!TERMINAL_STAGES, Stream!TERMINAL_RUN_STATES
  <2>6. stream_outcome = None => ~stream_finished'
    BY <1>0, <2>1, <2>5 DEF Stream!IsTerminalStage, Stream!TERMINAL_STAGES,
                            ReasonOK, OpenOK
  <2>7. ASSUME stream_outcome \in Failing, stream_finished'
        PROVE  Told(stream_log', Len(stream_shown'))
    <3>1. \A j \in Nat : j <= Len(stream_shown') /\ Told(stream_log, j)
                         => Told(stream_log', Len(stream_shown'))
      BY <1>0, <2>4, ToldGrows
    <3>2. CASE stream_finished
      BY <1>0, <2>2, <2>4, <2>7, <3>1, <3>2 DEF ReasonOK, FailingOK
    <3>3. CASE stream_poll.status \in Stream!TERMINAL_STAGES
      <4>1. Told(stream_log, n)
        BY <1>0, <2>1, <2>5, <2>7, <3>3 DEF ReasonOK, FailingOK, n
      <4> QED BY <2>2, <2>4, <3>1, <4>1
    <3>4. CASE \E i \in 1..n : Stream!IsTerminalStage(i)
      <4>1. PICK i \in 1..n : Stream!IsTerminalStage(i)
        BY <3>4
      <4>2. i \in DOMAIN stream_log /\ i \in Nat /\ i <= n
        BY <2>2, <4>1
      <4>3. Told(stream_log, i)
        BY <1>0, <2>7, <4>1, <4>2 DEF Stream!IsTerminalStage, ReasonOK, FailingOK
      <4>4. i <= Len(stream_shown')
        BY <2>2, <2>4, <4>2
      <4> QED BY <3>1, <4>2, <4>3, <4>4
    <3> QED BY <2>1, <2>7, <3>2, <3>3, <3>4
  <2> QED BY <1>0, <2>1, <2>6, <2>7 DEF ReasonOK, OpenOK, FailingOK
<1> QED BY <1>1, <1>2, <1>3, <1>4, <1>5, <1>6, <1>7, <1>8, <1>9, <1>10, <1>11, <1>12, <1>13
        DEF Stream!Next, Stream!Thread, Stream!Server, Stream!Page


\* The invariant holds at the start.
LEMMA StreamInit == Stream!Init => StreamInv
<1> SUFFICES ASSUME Stream!Init PROVE StreamInv
  OBVIOUS
<1>1. /\ stream_outcome = None /\ stream_todo = <<>> /\ stream_status = "working"
      /\ stream_log = <<>> /\ stream_sent = 0 /\ stream_wire = <<>> /\ stream_poll = None
      /\ stream_shown = <<>> /\ stream_finished = FALSE /\ stream_kind \in {"trainer", "agent"}
  BY StreamConstants DEF Stream!Init
<1>2. StreamShape
  <2>1. /\ stream_todo \in Seq(StreamWords) /\ stream_log \in Seq(Stream!EventTypes)
        /\ stream_wire \in Seq(Nat) /\ stream_shown \in Seq(Nat) /\ Len(stream_log) = 0
    BY <1>1
  <2>2. stream_status \in StreamStatuses /\ stream_finished \in BOOLEAN
    BY <1>1 DEF StreamStatuses
  <2>3. /\ stream_outcome \in Stream!TERMINAL_RUN_STATES \cup {None} /\ stream_poll = None
        /\ stream_sent \in Nat /\ stream_sent <= Len(stream_log)
    BY <1>1, <2>1
  <2> QED BY <1>1, <2>1, <2>2, <2>3 DEF StreamShape
<1>3. OrderOK
  BY <1>1 DEF OrderOK
<1>4. ReasonOK
  BY <1>1, FailingIsTerminal DEF ReasonOK, OpenOK
<1> QED BY <1>2, <1>3, <1>4 DEF StreamInv

\* So every step keeps the invariant of the page.
LEMMA StreamStep ==
  ASSUME StreamInv, Stream!Next \/ UNCHANGED stream
  PROVE  StreamInv'
<1>1. CASE Stream!Next
  <2>1. StreamShape'
    BY <1>1, StreamShapeKept
  <2>2. stream_kind' = stream_kind
    BY <1>1 DEF Stream!Next, Stream!Thread, Stream!Server, Stream!Page, Stream!Work,
         Stream!Conclude, Stream!Report, Stream!Fetch, Stream!Check, Stream!Receive,
         Stream!Close, Stream!PollStatus, Stream!PollEvents, Stream!PollArrives,
         Stream!PollFails, Stream!Reconnect, Stream!GoSilent, Stream!run
  <2>3. stream_kind = "trainer" => OrderOK' /\ ReasonOK'
    BY <1>1, OrderKept, ReasonKept
  <2> QED BY <2>1, <2>2, <2>3 DEF StreamInv
<1>2. CASE UNCHANGED stream
  BY <1>2 DEF stream, StreamInv, StreamShape, StreamStatuses, OrderOK, ReasonOK,
              OpenOK,
              FailingOK, Told
<1> QED BY <1>1, <1>2

\* The page of a run keeps to what the parts of StreamInv say, however thread, stream,
\* poll and page take turns and whatever becomes of the connection (workbench.js).
THEOREM RunPages == Spec => [](part = "stream" => StreamInv)
<1>1. Init => (part = "stream" => StreamInv)
  BY StreamInit DEF Init
<1>2. (part = "stream" => StreamInv) /\ [Next]_vars => (part = "stream" => StreamInv)'
  <2> SUFFICES ASSUME part = "stream" => StreamInv, [Next]_vars, part' = "stream"
               PROVE  StreamInv'
    OBVIOUS
  <2>1. part = "stream" /\ (Stream!Next \/ UNCHANGED stream)
    BY DEF Next, vars
  <2> QED BY <2>1, StreamStep
<1> QED BY <1>1, <1>2, PTL DEF Spec

\* Whatever mixture of stream, replay and poll brings them, and however many: the workbench
\* applies the events of a run once each, in the order they were emitted (applyEventIfNew).
THEOREM OnceInOrder == Spec => []ShownInOrder
<1>1. (part = "stream" => StreamInv) => ShownInOrder
  BY DEF StreamInv, OrderOK, ShownInOrder, Stream!ShownInOrder
<1> QED BY <1>1, RunPages, PTL

\* A workbench page that stops listening to a run that failed shows the reason: the thread
\* emits the error before it sets the status, and get_run reads the status first.
THEOREM FailureIsExplained == Spec => []ReasonIsShown
<1>1. StreamInv => Stream!ReasonIsShown
  <2> SUFFICES ASSUME StreamInv, stream_kind = "trainer", stream_outcome \in Failing,
                      stream_finished
               PROVE  \E k \in DOMAIN stream_shown : stream_log[stream_shown[k]] = "error"
    BY DEF Stream!ReasonIsShown, Stream!Shows, Failing
  <2>1. PICK e \in DOMAIN stream_log : e <= Len(stream_shown) /\ stream_log[e] = "error"
    BY DEF StreamInv, ReasonOK, FailingOK, Told
  <2>2. e \in DOMAIN stream_shown
    BY <2>1 DEF StreamInv, StreamShape
  <2>3. stream_shown[e] = e
    BY <2>2 DEF StreamInv, OrderOK
  <2> QED BY <2>1, <2>2, <2>3
<1>2. (part = "stream" => StreamInv) => ReasonIsShown
  BY <1>1 DEF ReasonIsShown
<1> QED BY <1>2, RunPages, PTL

-----------------------------------------------------------------------------
(* The advice *)

\* What a requirement must be to be analyzed with evidence.
Allowed == ~advice_text.blocked /\ advice_text.backend

\* Nothing is prompted, grounded or told before its step.
StepOK ==
  /\ advice_step \in {"new", "routed", "retrieved"} =>
       advice_prompt = {} /\ advice_grounded = None /\ advice_told = None
  /\ advice_step = "analyzed" => advice_grounded = None
  /\ advice_step \in {"routed", "retrieved"} => Allowed
  /\ advice_step = "retrieved" => advice_found \subseteq Chunks

\* A model sees strong chunks of an admitted requirement, and what is kept as evidence
\* until the analysis is grounded is what it has seen; without a call nothing is claimed.
EvidenceOK ==
  /\ advice_prompt \subseteq Chunks /\ \A c \in advice_prompt : Adviser!Strong(c)
  /\ advice_prompt # {} => Allowed
  /\ advice_step = "analyzed" /\ advice_context.status = "USED" =>
       \/ advice_context.results = advice_prompt
       \/ advice_prompt = {} /\ advice_analysis.expected = {}

AdviceInv == StepOK /\ EvidenceOK /\ Adviser!AdviceIsGrounded

-----------------------------------------------------------------------------

\* What is assumed of the constants.
LEMMA AdviceConstants ==
  IsFiniteSet(Chunks) /\ TopK \in Nat \ {0} /\ None \notin Chunks \cup Sources
<1>1. Adviser!AdviceAssumption
  BY WorkbenchAssumption DEF WorkbenchAssumption
<1>2. \A S : Adviser!IsFiniteSet(S) <=> IsFiniteSet(S)
  <2>1. ASSUME NEW S PROVE Adviser!IsFiniteSet(S) <=> IsFiniteSet(S)
    BY Zenon DEF IsFiniteSet, Adviser!IsFiniteSet
  <2> QED BY <2>1
<1> QED BY <1>1, <1>2 DEF Adviser!AdviceAssumption

\* Sizes are the same in the module of the advice.
LEMMA AdviserCardinality == \A S : Adviser!Cardinality(S) = Cardinality(S)
BY DEF Adviser!Cardinality, Cardinality

\* The best of a corpus are some of it, and when none of them is strong, nothing is.
LEMMA BestOfAll ==
  ASSUME NEW likeness \in [Chunks -> Adviser!Scores], NEW R \in Adviser!Ranked(Adviser!Corpus, likeness)
  PROVE  /\ R \subseteq Chunks
         /\ (\A c \in R : ~(likeness[c] >= Adviser!MIN_USABLE_TOP_SCORE)) =>
              \A c \in Adviser!Corpus : ~(likeness[c] >= Adviser!MIN_USABLE_TOP_SCORE)
<1> DEFINE corpus == Adviser!Corpus
<1>1. /\ R \subseteq corpus
      /\ Cardinality(R) = IF Cardinality(corpus) < TopK THEN Cardinality(corpus) ELSE TopK
      /\ \A c \in R : \A d \in corpus \ R : likeness[c] >= likeness[d]
  BY AdviserCardinality DEF Adviser!Ranked
<1>2. corpus \subseteq Chunks
  BY DEF Adviser!Corpus
<1> HIDE DEF corpus
<1>3. IsFiniteSet(corpus)
  BY <1>2, AdviceConstants, FS_Subset
<1>4. R = {} => corpus = {}
  <2>1. Cardinality(corpus) \in Nat /\ (Cardinality(corpus) = 0 => corpus = {})
    BY <1>3, FS_CardinalityType, FS_EmptySet
  <2>2. R = {} => Cardinality(R) = 0
    BY FS_EmptySet
  <2> QED BY <1>1, <2>1, <2>2, AdviceConstants
<1>5. ASSUME \A c \in R : ~(likeness[c] >= Adviser!MIN_USABLE_TOP_SCORE), NEW d \in corpus,
             likeness[d] >= Adviser!MIN_USABLE_TOP_SCORE
      PROVE  FALSE
  <2>1. d \notin R
    BY <1>5
  <2>2. PICK c \in R : TRUE
    BY <1>4, <1>5
  <2>3. likeness[c] >= likeness[d]
    BY <1>1, <1>5, <2>1, <2>2
  <2>4. likeness[c] \in 0..2 /\ likeness[d] \in 0..2
    BY <1>1, <1>2, <1>5, <2>2 DEF Adviser!Scores
  <2> QED BY <1>5, <2>2, <2>3, <2>4 DEF Adviser!MIN_USABLE_TOP_SCORE
<1> QED BY <1>1, <1>2, <1>5 DEF corpus

\* The invariant holds at the start.
LEMMA AdviceInit == Adviser!Init => AdviceInv
BY DEF Adviser!Init, AdviceInv, StepOK, EvidenceOK, Adviser!AdviceIsGrounded

\* Every step keeps the invariant of the advice.
LEMMA AdviceStep ==
  ASSUME AdviceInv, Adviser!Next \/ UNCHANGED advising
  PROVE  AdviceInv'
<1> USE DEF AdviceInv, StepOK, EvidenceOK, Adviser!AdviceIsGrounded, Allowed
<1>1. CASE Adviser!Classify
  BY <1>1 DEF Adviser!Classify, Adviser!Strong, Adviser!Corpus
<1>2. CASE Adviser!Retrieve
  <2>1. advice_found' \subseteq Chunks
    BY <1>2, BestOfAll DEF Adviser!Retrieve
  <2> QED BY <1>2, <2>1 DEF Adviser!Retrieve, Adviser!Strong, Adviser!Corpus
<1>3. CASE Adviser!Analyze
  <2>1. Adviser!Usable(advice_found) \subseteq Chunks
        /\ \A c \in Adviser!Usable(advice_found) : Adviser!Strong(c)
    BY <1>3 DEF Adviser!Analyze, Adviser!Usable
  <2>2. UNCHANGED <<advice_source, advice_score, advice_health, advice_text, advice_grounded, advice_told>>
    BY <1>3 DEF Adviser!Analyze
  <2>3. /\ advice_prompt' \in {{}, Adviser!Usable(advice_found)}
        /\ advice_step' \in {"analyzed", "raised"} /\ advice_step = "retrieved"
        /\ advice_step' = "analyzed" /\ advice_context'.status = "USED" =>
             advice_context'.results = Adviser!Usable(advice_found)
             /\ \/ advice_prompt' = Adviser!Usable(advice_found)
                \/ advice_prompt' = {} /\ advice_analysis'.expected = {}
    BY <1>3 DEF Adviser!Analyze, Adviser!Results
  <2> QED BY <2>1, <2>2, <2>3 DEF Adviser!Strong, Adviser!Corpus
<1>4. CASE Adviser!Ground
  BY <1>4 DEF Adviser!Ground, Adviser!Strong, Adviser!SourcesOf, Adviser!Corpus
<1>5. CASE Adviser!Ask
  BY <1>5, BestOfAll DEF Adviser!Ask, Adviser!Strong, Adviser!Corpus,
                         Adviser!Verdict
<1>6. CASE UNCHANGED advising
  BY <1>6 DEF advising, Adviser!Strong, Adviser!Corpus
<1> QED BY <1>1, <1>2, <1>3, <1>4, <1>5, <1>6 DEF Adviser!Next

\* What the analysis of a requirement and the answer to a visitor rest on, whatever the
\* index holds, finds and claims (backend_planning.py, ask_codebase.py).
THEOREM Advised == Spec => [](part = "advice" => AdviceInv)
<1>1. Init => (part = "advice" => AdviceInv)
  BY AdviceInit DEF Init
<1>2. (part = "advice" => AdviceInv) /\ [Next]_vars => (part = "advice" => AdviceInv)'
  <2> SUFFICES ASSUME part = "advice" => AdviceInv, [Next]_vars, part' = "advice"
               PROVE  AdviceInv'
    OBVIOUS
  <2>1. part = "advice" /\ (Adviser!Next \/ UNCHANGED advising)
    BY DEF Next, vars
  <2> QED BY <2>1, AdviceStep
<1> QED BY <1>1, <1>2, PTL DEF Spec

\* For every index and every likeness of its chunks: a grounded analysis names files of
\* strong evidence that the model was shown, and evidence that is called weak is the best
\* there is (check_groundedness, ask).
THEOREM GroundedAdvice == Spec => []AdviceIsGrounded
<1>1. (part = "advice" => AdviceInv) => AdviceIsGrounded
  BY DEF AdviceInv, AdviceIsGrounded
<1> QED BY <1>1, Advised, PTL
=============================================================================
