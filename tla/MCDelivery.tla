----------------------------- MODULE MCDelivery -----------------------------
(***************************************************************************)
(* Properties of Delivery and the instances TLC checks.                    *)
(***************************************************************************)
EXTENDS Delivery, TLC

Deployment == [by : Actors, status : {"BUILDING", "SUCCESS", "FAILED"}, text : Values]

TypeOK ==
  /\ slot \in Jobs \cup {None} /\ cooling \in BOOLEAN
  /\ place \in [Actors -> {"idle", "admitted", "running", "cloned", "triggered",
                 "waiting", "verifying", "popping", "ending", "released", "done"}]
  /\ want \in [Jobs -> Values] 
  /\ since \in [Actors -> Nat] /\ found \in [Actors -> {0} \cup DOMAIN deploys]
  /\ verdict \in [Actors -> Verdicts \cup {None}]
  /\ log \in Seq(Jobs) /\ moved \in BOOLEAN
  /\ deploys \in Seq(Deployment) /\ live \in 0..Len(deploys)
  /\ verified \in 0..MaxCandidates /\ candidates \in 0..MaxCandidates
  /\ entry \in [Promotions -> 0..MaxCandidates]
  /\ promoted \subseteq [by : Promotions, candidate : 1..MaxCandidates]

\* The slot belongs to a run from the moment its thread starts until its
\* `finally`, whoever else asks for it: two runs never work on production at
\* once (web_server.py, the comment above _RUN_LOCK).
InPipeline(j) == place[j] \in {"running", "cloned", "triggered", "waiting",
                               "verifying", "ending"}
SlotIsTheRunning == \A j \in Jobs : InPipeline(j) <=> slot = j

\* A deployment outcome reported by a trainer run or a reset is that of its own
\* deployment, unless a promotion - which takes no slot - deployed meanwhile
\* (wait_for_new_deployment: an unrelated deployment must not be taken for the
\* new one).
NoPromotionSince(j) == \A i \in DOMAIN deploys :
                         i > since[j] => deploys[i].by \notin Promotions
VerdictIsOwn ==
  \A j \in Trainers \cup Resets :
    found[j] # 0 /\ NoPromotionSince(j) => deploys[found[j]].by = j

\* When every run so far ended well and no promotion deployed, production shows
\* what the last of them was asked for, and nothing that is still being built or
\* waits for traffic can change it.
Delivering(j) == InPipeline(j) /\ place[j] # "ending"
LastCompletedIsLive ==
  log # <<>>
  /\ (\A j \in Trainers \cup Resets : ~Delivering(j))
  /\ (\A k \in DOMAIN log : verdict[log[k]] \in {"COMPLETED", "NO_CHANGE_NEEDED"})
  /\ (\A i \in DOMAIN deploys : deploys[i].by \notin Promotions)
  => /\ Live = Wanted(log[Len(log)])
     /\ \A i \in DOMAIN deploys : i > live => deploys[i].text = Live

\* A trainer run or a reset gives the slot back whatever the platform does: every
\* wait has a window, every exit of the thread comes through its `finally`.
SlotComesFree == \A j \in Trainers \cup Resets : slot = j ~> slot # j

-----------------------------------------------------------------------------
(* What the documentation says and the code does not do *)

\* triage_promotion.py: "the exact candidate that was just promoted can never
\* be promoted a second time from stale state".
PromotedOnce == \A x, y \in promoted : x.candidate = y.candidate => x = y
=============================================================================
