------------------------------- MODULE Outbox -------------------------------
(***************************************************************************)
(* The transactional outbox of the Customer App (Java): services write an  *)
(* event row in the transaction of the change it describes, OutboxPublisher*)
(* relays rows to a Kafka topic, and idempotent consumers handle them.     *)
(*                                                                         *)
(* Every app instance polls the table (there is no row lock), and every    *)
(* consumer group has one listener per instance.  One partition of the     *)
(* topic is modelled: partitions share nothing.  A listener that has lost  *)
(* it finishes the record it is in; the others of its poll are left out.   *)
(***************************************************************************)
EXTENDS Naturals, Sequences, SequencesExt

CONSTANTS Events,
          Relays,        \* OutboxPublisher, one in each instance
          NotificationListeners,  \* ContractPlanNotificationConsumer, likewise
          BillingSyncListeners,   \* ContractPlanBillingSyncConsumer
          BatchSize,     \* BATCH_SIZE
          MaxAttempts,   \* deliveries of a failing record (FixedBackOff)
          MaxFaults      \* bound: failures, deaths and rebalances

\* The two consumer groups of the topic, and their listeners.
Groups == {"notification", "billing-sync"}
Listeners(g) == IF g = "notification" THEN NotificationListeners ELSE BillingSyncListeners
Workers == NotificationListeners \cup BillingSyncListeners

OutboxAssumption ==
  /\ NotificationListeners # {} /\ BillingSyncListeners # {}
  /\ NotificationListeners \cap BillingSyncListeners = {}
  /\ BatchSize \in Nat \ {0} /\ MaxAttempts \in Nat \ {0} /\ MaxFaults \in Nat

VARIABLES
  created,    \* rows in the order of created_at
  committed,  \* rows in the order their transactions committed
  published,  \* rows with published_at
  batch,      \* what is left of each relay's last poll
  acked,      \* has the broker answered for the head of the batch?
  failed,     \* history: events with a send that was not confirmed
  topic,      \* the partition
  offset,     \* where the owner's listener started, at least committed
  owner,      \* the listener that has the partition
  position,   \* ... and how far it is
  tries,      \* failed deliveries of the record at position + 1
  job,        \* what each listener is in the middle of
  overlapped, \* history: deliveries handed over while they were under way
  processed,  \* processed_event: (consumer_name, event_id)
  effects,    \* notifications sent, or rows written, for each event
  dead,       \* records on the dead-letter topic
  faults

table   == <<created, committed>>
relay   == <<published, batch, acked, failed, topic>>
cursor  == <<offset, owner, position, tries>>
results == <<processed, effects, dead>>
vars    == <<table, relay, cursor, job, overlapped, results, faults>>

Idle == [at |-> "idle"]

Init ==
  /\ created = <<>> /\ committed = <<>>
  /\ published = {} /\ failed = {} /\ topic = <<>>
  /\ batch = [r \in Relays |-> <<>>] /\ acked = [r \in Relays |-> FALSE]
  /\ offset = [g \in Groups |-> 0] /\ position = [g \in Groups |-> 0]
  /\ owner \in {f \in [Groups -> Workers] : \A g \in Groups : f[g] \in Listeners(g)}
  /\ tries = [g \in Groups |-> 0]
  /\ job = [w \in Workers |-> Idle]
  /\ overlapped = {} /\ processed = {} /\ dead = {}
  /\ effects = [g \in Groups |-> [e \in Events |-> 0]]
  /\ faults = 0

Fault == faults < MaxFaults /\ faults' = faults + 1

-----------------------------------------------------------------------------
(* The business transaction: enroll, or a preference update *)

\* The row gets its created_at ...
Write(e) ==
  /\ e \notin ToSet(created)
  /\ created' = Append(created, e)
  /\ UNCHANGED <<committed, relay, cursor, job, overlapped, results, faults>>

\* ... and becomes visible when the transaction commits.  One that is rolled back
\* is one that never commits.
Commit(e) ==
  /\ e \in ToSet(created) \ ToSet(committed)
  /\ committed' = Append(committed, e)
  /\ UNCHANGED <<created, relay, cursor, job, overlapped, results, faults>>

-----------------------------------------------------------------------------
(* OutboxPublisher *)

\* findByPublishedAtIsNullOrderByCreatedAtAsc: a page of the unpublished rows, the
\* oldest first.
Unpublished == ToSet(committed) \ published

Before(s, e, f) == \E i, j \in DOMAIN s : i < j /\ s[i] = e /\ s[j] = f

IsPage(page) ==
  \A i \in DOMAIN page :
    /\ \A j \in 1..(i - 1) : page[j] # page[i]
    /\ \A e \in Unpublished :
         Before(created, e, page[i]) => \E j \in 1..(i - 1) : page[j] = e

Poll(r) ==
  /\ batch[r] = <<>> /\ Unpublished # {}
  /\ \E n \in 1..BatchSize : \E page \in [1..n -> Unpublished] :
       /\ IsPage(page) /\ (n = BatchSize \/ ToSet(page) = Unpublished)
       /\ batch' = [batch EXCEPT ![r] = page]
  /\ UNCHANGED <<table, published, acked, failed, topic, cursor, job, overlapped, results, faults>>

NextRow(r) == batch' = [batch EXCEPT ![r] = Tail(@)]

\* Mutant: send without waiting for the broker's answer.
ArrivesPerhaps(e) == {topic, Append(topic, e)}
Arrives(e) == {Append(topic, e)}

\* send(...).get(5 s) returns ...
Send(r) ==
  /\ batch[r] # <<>> /\ ~acked[r]
  /\ topic' \in Arrives(Head(batch[r]))
  /\ acked' = [acked EXCEPT ![r] = TRUE]
  /\ UNCHANGED <<table, published, batch, failed, cursor, job, overlapped, results, faults>>

\* ... or throws: the record may be on the topic or not; on to the next row.
SendFails(r) ==
  /\ Fault
  /\ batch[r] # <<>> /\ ~acked[r]
  /\ topic' \in {topic, Append(topic, Head(batch[r]))}
  /\ failed' = failed \cup {Head(batch[r])}
  /\ NextRow(r)
  /\ UNCHANGED <<table, published, acked, cursor, job, overlapped, results>>

\* markPublished and save; an exception of save is caught like one of send.
Save(r) ==
  /\ acked[r] /\ acked' = [acked EXCEPT ![r] = FALSE]
  /\ \/ published' = published \cup {Head(batch[r])} /\ UNCHANGED faults
     \/ Fault /\ UNCHANGED published
  /\ NextRow(r)
  /\ UNCHANGED <<table, failed, topic, cursor, job, overlapped, results>>

RelayDies(r) ==
  /\ Fault
  /\ batch[r] # <<>> /\ batch' = [batch EXCEPT ![r] = <<>>]
  /\ acked' = [acked EXCEPT ![r] = FALSE]
  /\ UNCHANGED <<table, published, failed, topic, cursor, job, overlapped, results>>

-----------------------------------------------------------------------------
(* Consumers: onMessage in a transaction, read committed *)

Advance(g) == /\ position' = [position EXCEPT ![g] = @ + 1]
              /\ tries' = [tries EXCEPT ![g] = 0]
Settle(w) == job' = [job EXCEPT ![w] = Idle]

\* existsByConsumerNameAndEventId.
\* Mutants: keyed by the event alone; no check.
SeenByAnyone(g, e) == \E h \in Groups : <<h, e>> \in processed
Seen(g, e) == <<g, e>> \in processed

Deliver(g, w) ==
  /\ owner[g] = w /\ job[w] = Idle
  /\ position[g] < Len(topic)
  /\ LET e == topic[position[g] + 1]
     IN  IF Seen(g, e)
           THEN Advance(g) /\ UNCHANGED job
           ELSE /\ job' = [job EXCEPT ![w] = [at |-> "checked", event |-> e]]
                /\ UNCHANGED <<position, tries>>
  /\ UNCHANGED <<table, relay, offset, owner, overlapped, results, faults>>

\* The notification leaves at once; a billing row (or a compensation) waits for
\* the commit.  save(new ProcessedEvent) has an assigned key, so it is a merge:
\* a select that finds the row makes it an update, otherwise it is an insert.
Work(g, w) ==
  /\ job[w].at = "checked"
  /\ LET e == job[w].event
     IN  /\ job' = [job EXCEPT ![w].at = IF <<g, e>> \in processed THEN "update" ELSE "insert"]
         /\ effects' = IF g = "notification" THEN [effects EXCEPT ![g][e] = @ + 1] ELSE effects
  /\ UNCHANGED <<table, relay, cursor, overlapped, processed, dead, faults>>

Working(w) == job[w].at \in {"insert", "update"}

\* The primary key refuses the insert of a row that is there by now.
Conflict(g, w) == job[w].at = "insert" /\ <<g, job[w].event>> \in processed

\* The transaction commits; a listener that lost the partition moves nothing.
Done(g, w) ==
  /\ Working(w) /\ ~Conflict(g, w)
  /\ LET e == job[w].event
     IN  /\ processed' = processed \cup {<<g, e>>}
         /\ effects' = IF g = "billing-sync" THEN [effects EXCEPT ![g][e] = @ + 1] ELSE effects
  /\ Settle(w)
  /\ IF owner[g] = w THEN Advance(g) ELSE UNCHANGED <<position, tries>>
  /\ UNCHANGED <<table, relay, offset, owner, overlapped, dead, faults>>

\* Mutant: a failing record is given up without a dead letter.
Dropped(g, e) == {}
DeadLetter(g, e) == {<<g, e>>}

LastTry(g) == tries[g] + 1 = MaxAttempts

\* onMessage throws and rolls back: again, and at last to the dead-letter topic.
Fails(g, w) ==
  /\ job[w] # Idle
  /\ \/ Conflict(g, w) /\ UNCHANGED faults
     \/ Fault
  /\ Settle(w)
  /\ IF owner[g] # w THEN UNCHANGED <<position, tries, dead>>
     ELSE IF LastTry(g)
       THEN dead' = dead \cup DeadLetter(g, job[w].event) /\ Advance(g)
       ELSE /\ tries' = [tries EXCEPT ![g] = @ + 1]
            /\ UNCHANGED <<position, dead>>
  /\ UNCHANGED <<table, relay, offset, owner, overlapped, processed, effects>>

\* The container commits offsets after each poll's records: whoever takes the
\* partition resumes at some record since it was last taken.
Resume(g) == \E n \in offset[g]..position[g] :
               /\ offset' = [offset EXCEPT ![g] = n]
               /\ position' = [position EXCEPT ![g] = n]
               /\ tries' = [tries EXCEPT ![g] = 0]

\* The partition goes to another listener, which may find the last one still
\* inside onMessage (a pause longer than the poll interval).
Rebalance(g, w) ==
  /\ Fault
  /\ owner[g] # w /\ job[w] = Idle
  /\ owner' = [owner EXCEPT ![g] = w]
  /\ Resume(g)
  /\ overlapped' = IF job[owner[g]] = Idle THEN overlapped
                   ELSE overlapped \cup {<<g, job[owner[g]].event>>}
  /\ UNCHANGED <<table, relay, job, results>>

WorkerDies(g, w) ==
  /\ Fault
  /\ Settle(w)
  /\ IF owner[g] = w THEN Resume(g)
     ELSE job[w] # Idle /\ UNCHANGED <<offset, position, tries>>
  /\ UNCHANGED <<table, relay, owner, overlapped, results>>

RelayStep(r) == Poll(r) \/ Send(r) \/ Save(r)
ListenerStep(g, w) == Deliver(g, w) \/ Work(g, w) \/ Done(g, w)

Next ==
  \/ \E e \in Events : Write(e) \/ Commit(e)
  \/ \E r \in Relays : RelayStep(r) \/ SendFails(r) \/ RelayDies(r)
  \/ \E g \in Groups : \E w \in Listeners(g) :
       ListenerStep(g, w) \/ Fails(g, w) \/ Rebalance(g, w) \/ WorkerDies(g, w)

Spec == Init /\ [][Next]_vars

\* The poller is scheduled with a fixed delay and a listener container keeps
\* polling; nothing is assumed of transactions, and faults come to an end.
FairSpec == /\ Spec
            /\ \A r \in Relays : WF_vars(RelayStep(r))
            /\ \A g \in Groups : \A w \in Listeners(g) : WF_vars(ListenerStep(g, w) \/ Fails(g, w))
=============================================================================
