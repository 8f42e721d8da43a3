----------------------------- MODULE ApplyQueue -----------------------------
(***************************************************************************)
(* The queue of approved applications (agent/applications_apply_queue.py   *)
(* and its handlers in agent/web_server.py): the owner approves a pack, an *)
(* agent outside reads the queue, applies, and reports the outcome.        *)
(*                                                                         *)
(* One process serves the queue, every operation under one lock and every  *)
(* write an atomic replacement; the file may be unreadable for a moment,   *)
(* and is gone after a redeployment.                                       *)
(***************************************************************************)
EXTENDS Naturals, FiniteSets

CONSTANTS Packs,   \* applications under review
          Workers, \* the agents that apply
          None,
          MaxTaps  \* bound: the owner's taps

QueueAssumption == None \notin Packs /\ IsFiniteSet(Packs) /\ MaxTaps \in Nat

VARIABLES
  file,    \* the items of the file: pack -> status
  taps,    \* history: how often the owner approved
  tapped,  \* history: packs the owner approved
  work,    \* what each worker has read as pending and not reported
  sent,    \* history: [pack, worker, n]: applications that were submitted
  trouble  \* history: a read failed, the file was lost, two workers had one pack, or one
           \* that was applied for was set back

vars == <<file, taps, tapped, work, sent, trouble>>

Statuses == {"approved", "pending_apply", "applied", "failed"}
NoItems == [p \in {} |-> None]

Init ==
  /\ file = NoItems /\ taps = 0 /\ tapped = {} /\ work = [w \in Workers |-> {}]
  /\ sent = [p \in Packs |-> 0] /\ trouble = FALSE

\* _read_unlocked: an OSError, like a text that is no JSON, reads as the empty queue.
Readable == {file, NoItems}
Misread(items) == items # file

Put(items, p, s) == [q \in DOMAIN items \cup {p} |-> IF q = p THEN s ELSE items[q]]

-----------------------------------------------------------------------------
(* The operations *)

\* Mutant: an approval sets the status whatever it was.
Always(items, p) == Put(items, p, "pending_apply")
\* A pack that is in the queue stays as it is.
Approved(items, p) == IF p \in DOMAIN items THEN items ELSE Put(items, p, "pending_apply")

\* record_owner_approve: what was read, with the new item, replaces the file; when the
\* pack is there, nothing is written.
Approve(p) ==
  /\ taps < MaxTaps /\ taps' = taps + 1 /\ tapped' = tapped \cup {p}
  /\ \E items \in Readable :
       /\ file' = IF Approved(items, p) = items THEN file ELSE Approved(items, p)
       /\ trouble' = (trouble \/ Misread(items))
  /\ UNCHANGED <<work, sent>>

\* load_queue, by a worker that has nothing left to do: it takes what is pending.
Fetch(w) ==
  /\ work[w] = {}
  /\ \E items \in Readable :
       LET pending == {p \in DOMAIN items : items[p] = "pending_apply"} IN
       /\ work' = [work EXCEPT ![w] = pending]
       /\ trouble' = (trouble \/ \E v \in Workers \ {w} : work[v] \cap pending # {})
  /\ UNCHANGED <<file, taps, tapped, sent>>

\* update_item: of an item that is there, to any status; one that is not is refused.
Updated(items, p, s) == IF p \in DOMAIN items THEN Put(items, p, s) ELSE file

\* The worker submits the application and reports; a misread queue, or one that was
\* lost meanwhile, answers 404 and the report is lost.
Apply(w, p) ==
  /\ sent[p] < 2 \* bound: a third time says no more than the second
  /\ p \in work[w] /\ work' = [work EXCEPT ![w] = @ \ {p}]
  /\ sent' = [sent EXCEPT ![p] = @ + 1]
  /\ \E items \in Readable :
       /\ file' = Updated(items, p, "applied") /\ trouble' = (trouble \/ Misread(items))
  /\ UNCHANGED <<taps, tapped>>

\* It cannot apply, and says so.
GiveUp(w, p) ==
  /\ p \in work[w] /\ work' = [work EXCEPT ![w] = @ \ {p}]
  /\ \E items \in Readable :
       /\ file' = Updated(items, p, "failed") /\ trouble' = (trouble \/ Misread(items))
  /\ UNCHANGED <<taps, tapped, sent>>

\* The route takes any status of any item from whoever holds the worker's token.
Set(p, s) ==
  /\ p \in DOMAIN file /\ s # file[p]
  /\ \E items \in Readable :
       /\ file' = Updated(items, p, s)
       /\ trouble' = (trouble \/ Misread(items) \/ (s = "pending_apply" /\ sent[p] > 0))
  /\ UNCHANGED <<taps, tapped, work, sent>>

\* A redeployment: the disk is new.
Redeploy == /\ file # NoItems /\ file' = NoItems /\ trouble' = TRUE
            /\ UNCHANGED <<taps, tapped, work, sent>>

Next == \/ \E p \in Packs : Approve(p)
        \/ \E w \in Workers : Fetch(w) \/ \E p \in Packs : Apply(w, p) \/ GiveUp(w, p)
        \/ (\E p \in Packs, s \in Statuses : Set(p, s)) \/ Redeploy
Spec == Init /\ [][Next]_vars

-----------------------------------------------------------------------------
(* Properties *)

TypeOK ==
  /\ \E P \in SUBSET Packs : file \in [P -> Statuses]
  /\ taps \in 0..MaxTaps /\ tapped \subseteq Packs /\ work \in [Workers -> SUBSET Packs]
  /\ sent \in [Packs -> Nat] /\ trouble \in BOOLEAN

\* Nothing is applied for without the owner's tap; and as long as the file could be
\* read, two workers never held one pack and nobody set a pack that was applied for
\* back to pending, nothing is applied for twice, however often the owner taps and
\* whatever statuses come in, in whatever order ("never without an Approve tap",
\* "do not downgrade applied/failed").
AppliedOnce ==
  \A p \in Packs : /\ sent[p] > 0 => p \in tapped
                   /\ sent[p] > 1 => trouble
=============================================================================
