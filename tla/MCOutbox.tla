------------------------------ MODULE MCOutbox ------------------------------
(***************************************************************************)
(* Properties of Outbox and the instances TLC checks.                      *)
(***************************************************************************)
EXTENDS Outbox, TLC

\* Symmetry of the safety run; owners start anywhere, so listeners are alike.
Alike == Permutations(Events) \cup Permutations(Relays) \cup Permutations(BillingSyncListeners)

TypeOK ==
  /\ created \in Seq(Events) /\ committed \in Seq(Events) /\ topic \in Seq(Events)
  /\ published \subseteq Events /\ failed \subseteq Events
  /\ batch \in [Relays -> Seq(Events)] /\ acked \in [Relays -> BOOLEAN]
  /\ \A r \in Relays : acked[r] => batch[r] # <<>>
  /\ offset \in [Groups -> 0..Len(topic)] /\ position \in [Groups -> 0..Len(topic)]
  /\ \A g \in Groups : owner[g] \in Listeners(g)
  /\ tries \in [Groups -> 0..(MaxAttempts - 1)]
  /\ \A w \in Workers : job[w] \in
       {Idle} \cup [at : {"checked", "insert", "update"}, event : Events]
  /\ overlapped \cup processed \cup dead \subseteq Groups \X Events
  /\ effects \in [Groups -> [Events -> Nat]] /\ faults \in 0..MaxFaults

\* A row is marked published only when its event is on the topic: nothing is
\* lost between the table and the broker (OutboxPublisher: "Never
\* deletes/marks-published speculatively").
PublishedIsOnTopic == published \subseteq ToSet(topic)

\* Events come to the topic for the first time in the order they were written,
\* whatever the two relays do, except after a send that was not confirmed or
\* when a later one committed first.
InOrderUnlessFailed ==
  \A i \in DOMAIN topic, e \in Events :
    Before(created, e, topic[i]) /\ Before(committed, e, topic[i]) /\ e \notin failed
    => \E j \in 1..(i - 1) : topic[j] = e

\* Fan-out: a group that has moved past an event has done its own work for it,
\* or left it on the dead-letter topic (ProcessedEvent: idempotency is scoped
\* per consumer).
Handled(g, e) == \/ <<g, e>> \in dead
                 \/ <<g, e>> \in processed /\ effects[g][e] > 0
NothingSkipped == \A g \in Groups : \A i \in 1..position[g] : Handled(g, topic[i])

\* However often an event is published and delivered, its billing row is written
\* once - unless its delivery was handed over while under way.
BilledOnceUnlessOverlapped ==
  \A e \in Events :
    <<"billing-sync", e>> \notin overlapped => effects["billing-sync"][e] <= 1

\* Every committed event is handled by every group in the end; nothing handled
\* is ever taken back, so from then on it stays so.
EventuallyHandled == <>[](\A g \in Groups, e \in ToSet(committed) : Handled(g, e))

-----------------------------------------------------------------------------
(* What the documentation says and the code does not do *)

\* ProcessedEvent: "at-least-once delivery, exactly-once processing PER CONSUMER".
BilledOnce == \A e \in Events : effects["billing-sync"][e] <= 1
=============================================================================
