--------------------------- MODULE PlatformProofs ---------------------------
(***************************************************************************)
(* Proofs about parts of the platform, for every value of their constants: *)
(* the queue of applications (any number of packs and workers), the        *)
(* verification of a change (any set of files), the acceptance of a        *)
(* backend change (any texts and foreign pushes), whom the calls of the    *)
(* models are charged to (any number of calls), the match with a job       *)
(* description (any registry and any answer of a model) and the published  *)
(* numbers (any number of edits).  Queue is ApplyQueue, Gate is            *)
(* DeliveryGate, Backend is BackendChange, Charges is ModelUsage, Match is *)
(* JdMatch and Publishers is Publishing, as MCPlatform has them.           *)
(***************************************************************************)
EXTENDS MCPlatform, SequenceTheorems, FiniteSetTheorems, WellFoundedInduction, TLAPS

-----------------------------------------------------------------------------
(* The queue of applications *)

QueueShape ==
  /\ DOMAIN queue_file \subseteq queue_tapped /\ queue_tapped \subseteq Packs
  /\ DOMAIN queue_work = Appliers /\ \A w \in Appliers : queue_work[w] \subseteq queue_tapped
  /\ queue_sent \in [Packs -> Nat] /\ queue_trouble \in BOOLEAN

Waits(p) == p \in DOMAIN queue_file /\ queue_file[p] = "pending_apply"

\* An application is with one worker, or none, until it is submitted, and then it does
\* not wait any more; unless the file was lost or misread, two workers took the same or
\* one that was submitted was set back.
OneWorkerOK ==
  /\ \A v, w \in Appliers : v # w => queue_work[v] \cap queue_work[w] = {}
  /\ \A w \in Appliers : \A p \in queue_work[w] :
       p \in DOMAIN queue_file /\ queue_sent[p] = 0
  /\ \A p \in Packs : Waits(p) => queue_sent[p] = 0
  /\ \A p \in Packs : queue_sent[p] <= 1 /\ (queue_sent[p] = 1 => p \in DOMAIN queue_file)

QueueInv ==
  /\ QueueShape
  /\ \A p \in Packs : queue_sent[p] > 0 => p \in queue_tapped
  /\ ~queue_trouble => OneWorkerOK

-----------------------------------------------------------------------------

\* The invariant holds at the start.
LEMMA QueueInit == Queue!Init => QueueInv
<1> SUFFICES ASSUME Queue!Init PROVE QueueInv
  OBVIOUS
<1>1. DOMAIN queue_file = {} /\ queue_tapped = {} /\ queue_work = [w \in Appliers |-> {}]
      /\ queue_sent = [p \in Packs |-> 0] /\ queue_trouble = FALSE
  BY DEF Queue!Init, Queue!NoItems
<1>2. QueueShape
  BY <1>1 DEF QueueShape
<1>3. OneWorkerOK
  BY <1>1 DEF OneWorkerOK, Waits
<1> QED BY <1>1, <1>2, <1>3 DEF QueueInv

\* A pack that is put into the queue joins those that are there.
IsPut(new, items, p, s) ==
  /\ DOMAIN new = DOMAIN items \cup {p} /\ new[p] = s
  /\ \A q \in DOMAIN items : q # p => new[q] = items[q]

\* What is put into the file is in it.
LEMMA PutIn ==
  ASSUME NEW items, NEW p, NEW s
  PROVE  IsPut(Queue!Put(items, p, s), items, p, s)
BY DEF Queue!Put, IsPut

\* Every step keeps the invariant of the queue.
LEMMA QueueStep ==
  ASSUME QueueInv, Queue!Next \/ UNCHANGED queue
  PROVE  QueueInv'
<1> USE DEF QueueInv, QueueShape, Waits, OneWorkerOK
<1>1. ASSUME NEW p \in Packs, Queue!Approve(p) PROVE QueueInv'
  <2>1. PICK items \in Queue!Readable :
          /\ queue_file' = IF Queue!Approved(items, p) = items THEN queue_file
                           ELSE Queue!Approved(items, p)
          /\ queue_trouble' = (queue_trouble \/ Queue!Misread(items))
    BY <1>1 DEF Queue!Approve
  <2>2. /\ queue_tapped' = queue_tapped \cup {p} /\ UNCHANGED <<queue_work, queue_sent>>
        /\ items = queue_file \/ items = Queue!NoItems
        /\ queue_trouble' \/ items = queue_file
    BY <1>1, <2>1 DEF Queue!Approve, Queue!Readable, Queue!Misread
  <2>3. /\ DOMAIN items \subseteq queue_tapped
        /\ \/ queue_file' = queue_file
           \/ p \notin DOMAIN items /\ queue_file' = Queue!Put(items, p, "pending_apply")
    BY <2>1, <2>2 DEF Queue!Approved, Queue!NoItems
  <2>a. IsPut(Queue!Put(items, p, "pending_apply"), items, p, "pending_apply")
    BY PutIn, Zenon
  <2>b. DOMAIN queue_file' \subseteq queue_tapped'
    BY <2>2, <2>3, <2>a DEF IsPut
  <2>c. queue_tapped' \subseteq Packs /\ queue_trouble' \in BOOLEAN
    BY <2>1, <2>2 DEF Queue!Misread
  <2>4. QueueShape'
    BY <2>2, <2>b, <2>c
  <2>5. ASSUME ~queue_trouble' PROVE OneWorkerOK'
    <3>1. ~queue_trouble /\ items = queue_file /\ OneWorkerOK
      BY <2>1, <2>2, <2>5
    <3>2. CASE queue_file' = queue_file
      BY <2>2, <3>1, <3>2
    <3>3. CASE p \notin DOMAIN items /\ queue_file' = Queue!Put(items, p, "pending_apply")
      <4>1. queue_sent[p] = 0
        BY <3>1, <3>3
      <4>2. /\ DOMAIN queue_file' = DOMAIN queue_file \cup {p} /\ queue_file'[p] = "pending_apply"
            /\ \A q \in DOMAIN queue_file : q # p => queue_file'[q] = queue_file[q]
        BY <2>a, <3>1, <3>3, Zenon DEF IsPut
      <4>3. \A q \in Packs : Waits(q)' => q = p \/ Waits(q)
        BY <4>2
      <4>4. \A w \in Appliers : \A q \in queue_work'[w] :
              q \in DOMAIN queue_file' /\ queue_sent'[q] = 0
        BY <2>2, <3>1, <4>2
      <4> QED BY <2>2, <3>1, <4>1, <4>2, <4>3, <4>4
    <3> QED BY <2>3, <3>2, <3>3
  <2> QED BY <2>2, <2>4, <2>5
<1>2. ASSUME NEW w \in Appliers, Queue!Fetch(w) PROVE QueueInv'
  <2>1. PICK items \in Queue!Readable :
          /\ queue_work' = [queue_work EXCEPT ![w] = {p \in DOMAIN items : items[p] = "pending_apply"}]
          /\ queue_trouble' = (queue_trouble \/ \E v \in Appliers \ {w} :
               queue_work[v] \cap {p \in DOMAIN items : items[p] = "pending_apply"} # {})
    BY <1>2 DEF Queue!Fetch
  <2> DEFINE pending == {p \in DOMAIN items : items[p] = "pending_apply"}
  <2>2. UNCHANGED <<queue_file, queue_tapped, queue_sent>>
    BY <1>2 DEF Queue!Fetch
  <2>3. pending \subseteq queue_tapped /\ \A p \in pending : Waits(p)
    BY DEF Queue!Readable, Queue!NoItems
  <2>4. queue_work' = [queue_work EXCEPT ![w] = pending]
        /\ queue_trouble' = (queue_trouble \/ \E v \in Appliers \ {w} : queue_work[v] \cap pending # {})
    BY <2>1
  <2> HIDE DEF pending
  <2>5. DOMAIN queue_work' = Appliers
        /\ \A v \in Appliers : queue_work'[v] = IF v = w THEN pending ELSE queue_work[v]
    BY <2>4
  <2>6. QueueShape'
    BY <2>2, <2>3, <2>4, <2>5
  <2>7. ASSUME ~queue_trouble' PROVE OneWorkerOK'
    <3>1. ~queue_trouble /\ \A v \in Appliers \ {w} : queue_work[v] \cap pending = {}
      BY <2>4, <2>7
    <3> QED BY <2>2, <2>3, <2>5, <3>1
  <2> QED BY <2>2, <2>6, <2>7
<1>3. ASSUME NEW w \in Appliers, NEW p \in Packs, Queue!Apply(w, p) PROVE QueueInv'
  <2>1. PICK items \in Queue!Readable :
          /\ queue_file' = Queue!Updated(items, p, "applied")
          /\ queue_trouble' = (queue_trouble \/ Queue!Misread(items))
    BY <1>3 DEF Queue!Apply
  <2>2. /\ p \in queue_work[w] /\ queue_work' = [queue_work EXCEPT ![w] = @ \ {p}]
        /\ queue_sent' = [queue_sent EXCEPT ![p] = @ + 1] /\ UNCHANGED queue_tapped
    BY <1>3 DEF Queue!Apply
  <2>3. /\ items = queue_file \/ items = Queue!NoItems
        /\ queue_trouble' \/ items = queue_file
    BY <2>1 DEF Queue!Readable, Queue!Misread
  <2>4. queue_file' = queue_file \/ (p \in DOMAIN items /\ queue_file' = Queue!Put(items, p, "applied"))
    BY <2>1 DEF Queue!Updated
  <2>a. IsPut(Queue!Put(items, p, "applied"), items, p, "applied")
    BY PutIn, Zenon
  <2>b. DOMAIN items \subseteq queue_tapped
    BY <2>3 DEF Queue!NoItems
  <2>5. /\ DOMAIN queue_work' = Appliers
        /\ \A v \in Appliers : queue_work'[v] \subseteq queue_work[v]
        /\ p \notin queue_work'[w]
    BY <2>2
  <2>6. queue_sent' \in [Packs -> Nat] /\ queue_sent'[p] = queue_sent[p] + 1
        /\ \A q \in Packs : q # p => queue_sent'[q] = queue_sent[q]
    BY <2>2
  <2>7. DOMAIN queue_file' \subseteq queue_tapped'
    BY <2>2, <2>4, <2>a, <2>b DEF IsPut
  <2>8. p \in queue_tapped
    BY <2>2
  <2>9. ASSUME ~queue_trouble' PROVE OneWorkerOK'
    <3>1. ~queue_trouble /\ items = queue_file /\ OneWorkerOK
      BY <2>1, <2>3, <2>9
    <3>2. p \in DOMAIN queue_file /\ queue_sent[p] = 0 /\ \A v \in Appliers : p \notin queue_work'[v]
      BY <2>2, <2>5, <3>1
    <3>3. queue_file' = Queue!Put(queue_file, p, "applied") /\ p \in DOMAIN queue_file
      BY <2>1, <3>1, <3>2 DEF Queue!Updated
    <3>a. DOMAIN queue_file' = DOMAIN queue_file \cup {p} /\ queue_file'[p] = "applied"
          /\ \A q \in DOMAIN queue_file : q # p => queue_file'[q] = queue_file[q]
      BY <2>a, <3>1, <3>3, Zenon DEF IsPut
    <3>4. DOMAIN queue_file' = DOMAIN queue_file /\ queue_file'[p] = "applied"
          /\ \A q \in DOMAIN queue_file : q # p => queue_file'[q] = queue_file[q]
      BY <3>3, <3>a
    <3>5. \A q \in Packs : Waits(q)' => q # p /\ Waits(q)
      BY <3>4
    <3>6. \A v \in Appliers : \A q \in queue_work'[v] :
            q \in DOMAIN queue_file' /\ queue_sent'[q] = 0
      BY <2>5, <2>6, <3>1, <3>2, <3>4
    <3> QED BY <2>5, <2>6, <3>1, <3>2, <3>4, <3>5, <3>6
  <2>10. queue_trouble' \in BOOLEAN
    BY <2>1 DEF Queue!Misread
  <2> QED BY <2>1, <2>2, <2>5, <2>6, <2>7, <2>8, <2>9, <2>10
<1>4. ASSUME NEW w \in Appliers, NEW p \in Packs, Queue!GiveUp(w, p) PROVE QueueInv'
  <2>1. PICK items \in Queue!Readable :
          /\ queue_file' = Queue!Updated(items, p, "failed")
          /\ queue_trouble' = (queue_trouble \/ Queue!Misread(items))
    BY <1>4 DEF Queue!GiveUp
  <2>2. /\ p \in queue_work[w] /\ queue_work' = [queue_work EXCEPT ![w] = @ \ {p}]
        /\ UNCHANGED <<queue_sent, queue_tapped>>
    BY <1>4 DEF Queue!GiveUp
  <2>3. /\ items = queue_file \/ items = Queue!NoItems
        /\ queue_trouble' \/ items = queue_file
    BY <2>1 DEF Queue!Readable, Queue!Misread
  <2>4. queue_file' = queue_file \/ (p \in DOMAIN items /\ queue_file' = Queue!Put(items, p, "failed"))
    BY <2>1 DEF Queue!Updated
  <2>a. IsPut(Queue!Put(items, p, "failed"), items, p, "failed")
    BY PutIn, Zenon
  <2>b. DOMAIN items \subseteq queue_tapped
    BY <2>3 DEF Queue!NoItems
  <2>5. /\ DOMAIN queue_work' = Appliers
        /\ \A v \in Appliers : queue_work'[v] \subseteq queue_work[v]
        /\ p \notin queue_work'[w]
    BY <2>2
  <2>7. DOMAIN queue_file' \subseteq queue_tapped'
    BY <2>2, <2>4, <2>a, <2>b DEF IsPut
  <2>9. ASSUME ~queue_trouble' PROVE OneWorkerOK'
    <3>1. ~queue_trouble /\ items = queue_file /\ OneWorkerOK
      BY <2>1, <2>3, <2>9
    <3>2. p \in DOMAIN queue_file /\ \A v \in Appliers : p \notin queue_work'[v]
      BY <2>2, <2>5, <3>1
    <3>3. queue_file' = Queue!Put(queue_file, p, "failed") /\ p \in DOMAIN queue_file
      BY <2>1, <3>1, <3>2 DEF Queue!Updated
    <3>a. DOMAIN queue_file' = DOMAIN queue_file \cup {p} /\ queue_file'[p] = "failed"
          /\ \A q \in DOMAIN queue_file : q # p => queue_file'[q] = queue_file[q]
      BY <2>a, <3>1, <3>3, Zenon DEF IsPut
    <3>4. DOMAIN queue_file' = DOMAIN queue_file /\ queue_file'[p] = "failed"
          /\ \A q \in DOMAIN queue_file : q # p => queue_file'[q] = queue_file[q]
      BY <3>3, <3>a
    <3>5. \A q \in Packs : Waits(q)' => q # p /\ Waits(q)
      BY <3>4
    <3>6. \A v \in Appliers : \A q \in queue_work'[v] :
            q \in DOMAIN queue_file' /\ queue_sent'[q] = 0
      BY <2>2, <2>5, <3>1, <3>2, <3>4
    <3> QED BY <2>2, <2>5, <3>1, <3>2, <3>4, <3>5, <3>6
  <2>10. queue_trouble' \in BOOLEAN
    BY <2>1 DEF Queue!Misread
  <2> QED BY <2>1, <2>2, <2>5, <2>7, <2>9, <2>10
<1>5. CASE Queue!Redeploy
  BY <1>5 DEF Queue!Redeploy, Queue!NoItems
<1>6. ASSUME NEW p \in Packs, NEW s, Queue!Set(p, s) PROVE QueueInv'
  <2>1. PICK items \in Queue!Readable :
          /\ queue_file' = Queue!Updated(items, p, s)
          /\ queue_trouble' = (queue_trouble \/ Queue!Misread(items)
                                \/ (s = "pending_apply" /\ queue_sent[p] > 0))
    BY <1>6 DEF Queue!Set
  <2>2. p \in DOMAIN queue_file /\ UNCHANGED <<queue_tapped, queue_work, queue_sent>>
    BY <1>6 DEF Queue!Set
  <2>3. /\ items = queue_file \/ items = Queue!NoItems
        /\ queue_trouble' \/ items = queue_file
    BY <2>1 DEF Queue!Readable, Queue!Misread
  <2>4. queue_file' = queue_file \/ (p \in DOMAIN items /\ queue_file' = Queue!Put(items, p, s))
    BY <2>1 DEF Queue!Updated
  <2>5. IsPut(Queue!Put(items, p, s), items, p, s)
    BY PutIn, Zenon
  <2>6. DOMAIN items \subseteq queue_tapped
    BY <2>3 DEF Queue!NoItems
  <2>7. DOMAIN queue_file' \subseteq queue_tapped'
    BY <2>2, <2>4, <2>5, <2>6 DEF IsPut
  <2>8. queue_trouble' \in BOOLEAN
    BY <2>1 DEF Queue!Misread
  <2>9. ASSUME ~queue_trouble' PROVE OneWorkerOK'
    <3>1. /\ ~queue_trouble /\ items = queue_file /\ OneWorkerOK
          /\ s = "pending_apply" => ~(queue_sent[p] > 0)
      BY <2>1, <2>3, <2>9
    <3>2. queue_file' = Queue!Put(queue_file, p, s)
      BY <2>1, <2>2, <3>1 DEF Queue!Updated
    <3>3. /\ DOMAIN queue_file' = DOMAIN queue_file \cup {p} /\ queue_file'[p] = s
          /\ \A q \in DOMAIN queue_file : q # p => queue_file'[q] = queue_file[q]
      BY <2>5, <3>1, <3>2, Zenon DEF IsPut
    <3>4. DOMAIN queue_file' = DOMAIN queue_file
      BY <2>2, <3>3
    <3>5. ASSUME NEW q \in Packs, Waits(q)' PROVE queue_sent[q] = 0
      <4>1. CASE q = p
        BY <3>1, <3>3, <3>5, <4>1
      <4>2. CASE q # p
        BY <3>1, <3>3, <3>4, <3>5, <4>2
      <4> QED BY <4>1, <4>2
    <3> QED BY <2>2, <3>1, <3>4, <3>5
  <2> QED BY <2>2, <2>7, <2>8, <2>9
<1>7. CASE UNCHANGED queue
  BY <1>7 DEF queue
<1> QED BY <1>1, <1>2, <1>3, <1>4, <1>5, <1>6, <1>7 DEF Queue!Next

\* An application is with one worker until it is submitted, however often the owner taps
\* and in whatever order workers read and report (applications_apply_queue.py).
THEOREM Applications == Spec => []QueueInv
<1>1. Init => QueueInv
  BY QueueInit DEF Init
<1>2. QueueInv /\ [Next]_vars => QueueInv'
  <2> SUFFICES ASSUME QueueInv, [Next]_vars PROVE QueueInv'
    OBVIOUS
  <2>1. Queue!Next \/ UNCHANGED queue
    BY DEF Next, vars
  <2> QED BY <2>1, QueueStep
<1> QED BY <1>1, <1>2, PTL DEF Spec

\* Nothing is applied for without a tap of the owner, and nothing twice as long as the
\* file could be read, no two workers took one pack and none that was applied for was
\* set back (update_item).
THEOREM OneApplication == Spec => []AppliedOnce
<1>1. QueueInv => AppliedOnce
  BY DEF QueueInv, QueueShape, OneWorkerOK, AppliedOnce, Queue!AppliedOnce
<1> QED BY <1>1, Applications, PTL

-----------------------------------------------------------------------------
(* The verification of a change *)

GateCommands == {c \in [java : BOOLEAN, tests : SUBSET Gate!AllJava] : c.java \/ c.tests = {}}
TestsOf(commands) == UNION {commands[i].tests : i \in DOMAIN commands}

GateShape ==
  /\ gate_change \in (SUBSET Files) \ {{}}
  /\ gate_todo \in Seq(GateCommands) /\ gate_executed \in Nat /\ gate_failed \in BOOLEAN
  /\ gate_passed \subseteq Gate!AllJava /\ gate_skipped \subseteq Gate!AllJava

\* As long as nothing has failed: no test of the plan is lost on the way.
NoneLeftOut ==
  ~gate_failed =>
    TestsOf(Gate!Plan(gate_change)) \subseteq gate_passed \cup gate_skipped \cup TestsOf(gate_todo)
PassedOK ==
  gate_verdict = "PASSED" =>
    /\ gate_todo = <<>> /\ ~gate_failed
    /\ Gate!IsHighRisk(gate_change) => gate_executed # 0 /\ gate_skipped = {}

GateInv == GateShape /\ NoneLeftOut /\ PassedOK

-----------------------------------------------------------------------------

\* What is assumed of the constants.
LEMMA GateConstants == Files \subseteq Gate!Kinds
BY PlatformAssumption DEF PlatformAssumption, Gate!GateAssumption

\* Risk and radius of a rule are levels.
LEMMA RuleLevels ==
  \A f \in DOMAIN Gate!RULES : Gate!RULES[f][1] \in 1..4 /\ Gate!RULES[f][2] \in 1..4
BY DEF Gate!RULES

\* The strictest rule of a change decides.
LEMMA HighestOfAll ==
  ASSUME NEW c \in SUBSET DOMAIN Gate!RULES, c # {}, NEW what \in {1, 2}
  PROVE  /\ Gate!Highest(c, what) \in 1..4
         /\ \A f \in c : Gate!RULES[f][what] <= Gate!Highest(c, what)
<1> DEFINE level == {Gate!RULES[f][what] : f \in c}
<1>1. level \subseteq 1..4 /\ level # {}
  BY RuleLevels
<1>2. \E n \in level : \A m \in level : m <= n
  <2> HIDE DEF level
  <2>1. CASE 4 \in level
    BY <1>1, <2>1
  <2>2. CASE 4 \notin level /\ 3 \in level
    BY <1>1, <2>2
  <2>3. CASE 4 \notin level /\ 3 \notin level /\ 2 \in level
    BY <1>1, <2>3
  <2>4. CASE 4 \notin level /\ 3 \notin level /\ 2 \notin level
    <3>1. \A m \in level : m = 1
      BY <1>1, <2>4
    <3>2. PICK n \in level : TRUE
      BY <1>1
    <3>3. n = 1 /\ \A m \in level : m <= 1
      BY <3>1, <3>2
    <3> QED BY <3>2, <3>3
  <2> QED BY <2>1, <2>2, <2>3, <2>4
<1>3. Gate!Highest(c, what) \in level /\ \A m \in level : m <= Gate!Highest(c, what)
  BY <1>2 DEF Gate!Highest
<1> QED BY <1>1, <1>3

\* One strict rule makes a change strict.
LEMMA StrictRule ==
  ASSUME NEW c \in SUBSET DOMAIN Gate!RULES, NEW f \in c
  PROVE  /\ Gate!High(f) => Gate!IsHighRisk(c)
         /\ Gate!RULES[f][2] >= 3 => Gate!Radius(c) \in {"CROSS_MODULE", "SYSTEM"}
<1>1. Gate!Unrecognized(c) = {}
  BY DEF Gate!Unrecognized
<1>2. /\ Gate!Highest(c, 1) \in 1..4 /\ Gate!RULES[f][1] <= Gate!Highest(c, 1)
      /\ Gate!Highest(c, 2) \in 1..4 /\ Gate!RULES[f][2] <= Gate!Highest(c, 2)
  BY HighestOfAll
<1>3. Gate!RULES[f][1] \in 1..4 /\ Gate!RULES[f][2] \in 1..4
  BY RuleLevels
<1>4. Gate!Risk(c) = Gate!Risks[Gate!Highest(c, 1)] /\ Gate!Radius(c) = Gate!Radii[Gate!Highest(c, 2)]
  BY <1>1 DEF Gate!Risk, Gate!Radius
<1>5. ASSUME Gate!RULES[f][1] >= 3 PROVE Gate!Risk(c) \in {"HIGH", "CRITICAL"}
  <2>1. Gate!Highest(c, 1) \in {3, 4}
    BY <1>2, <1>3, <1>5
  <2> QED BY <1>4, <2>1 DEF Gate!Risks
<1>6. ASSUME Gate!RULES[f][2] >= 3
      PROVE  Gate!Radius(c) \in {"CROSS_MODULE", "SYSTEM"}
  <2>1. Gate!Highest(c, 2) \in {3, 4}
    BY <1>2, <1>3, <1>6
  <2> QED BY <1>4, <2>1 DEF Gate!Radii
<1> QED BY <1>5, <1>6 DEF Gate!High, Gate!IsHighRisk

\* The Java tests a file calls for.
LEMMA CalledTests == \A f \in Gate!Kinds : Gate!Calls[f] \subseteq Gate!AllJava \ {"smoke"}
BY DEF Gate!Calls, Gate!AllJava

\* The tests of commands that follow one another.
LEMMA TestsConcat ==
  ASSUME NEW s \in Seq(GateCommands), NEW t \in Seq(GateCommands)
  PROVE  s \o t \in Seq(GateCommands) /\ TestsOf(s \o t) = TestsOf(s) \cup TestsOf(t)
<1>1. /\ s \o t \in Seq(GateCommands) /\ Len(s \o t) = Len(s) + Len(t)
      /\ \A i \in 1..Len(s) : (s \o t)[i] = s[i]
      /\ \A i \in 1..Len(t) : (s \o t)[Len(s) + i] = t[i]
  BY ConcatProperties
<1>2. /\ DOMAIN s = 1..Len(s) /\ DOMAIN t = 1..Len(t) /\ DOMAIN (s \o t) = 1..Len(s \o t)
      /\ Len(s) \in Nat /\ Len(t) \in Nat
  BY <1>1, LenProperties
<1>3. ASSUME NEW i \in 1..Len(s \o t)
      PROVE  (s \o t)[i].tests \subseteq TestsOf(s) \cup TestsOf(t)
  <2>1. CASE i <= Len(s)
    BY <1>1, <1>2, <2>1 DEF TestsOf
  <2>2. CASE i > Len(s)
    <3>1. i - Len(s) \in 1..Len(t) /\ Len(s) + (i - Len(s)) = i
      BY <1>1, <1>2, <2>2
    <3>2. (s \o t)[i] = t[i - Len(s)]
      BY <1>1, <3>1
    <3> QED BY <1>2, <3>1, <3>2 DEF TestsOf
  <2> QED BY <1>1, <1>2, <2>1, <2>2
<1>4. TestsOf(s) \subseteq TestsOf(s \o t)
  BY <1>1, <1>2 DEF TestsOf
<1>5. TestsOf(t) \subseteq TestsOf(s \o t)
  <2>1. \A i \in 1..Len(t) : Len(s) + i \in 1..Len(s \o t)
    BY <1>1, <1>2
  <2> QED BY <1>1, <1>2, <2>1 DEF TestsOf
<1>6. TestsOf(s \o t) \subseteq TestsOf(s) \cup TestsOf(t)
  BY <1>2, <1>3 DEF TestsOf
<1> QED BY <1>1, <1>4, <1>5, <1>6

\* The tests of a command that depends on a condition.
LEMMA TestsIf ==
  ASSUME NEW condition \in BOOLEAN, NEW command \in GateCommands
  PROVE  /\ Gate!If(condition, command) \in Seq(GateCommands)
         /\ TestsOf(Gate!If(condition, command)) = IF condition THEN command.tests ELSE {}
<1>1. CASE condition
  <2>1. Gate!If(condition, command) = <<command>> /\ <<command>> \in Seq(GateCommands)
    BY <1>1 DEF Gate!If
  <2>2. TestsOf(<<command>>) = command.tests
    BY DEF TestsOf
  <2> QED BY <1>1, <2>1, <2>2
<1>2. CASE ~condition
  <2>1. Gate!If(condition, command) = <<>> /\ <<>> \in Seq(GateCommands)
    BY <1>2 DEF Gate!If
  <2>2. TestsOf(<<>>) = {}
    BY DEF TestsOf
  <2> QED BY <1>2, <2>1, <2>2
<1> QED BY <1>1, <1>2

\* The Java tests of a change hold those of each of its files.
LEMMA MappedTests ==
  ASSUME NEW c \in SUBSET Gate!Kinds
  PROVE  /\ Gate!JavaTests(c) \subseteq Gate!AllJava
         /\ \A f \in c : Gate!Calls[f] \subseteq Gate!JavaTests(c)
<1> DEFINE tests == UNION {Gate!Calls[f] : f \in c}
<1>1. tests \subseteq Gate!AllJava /\ \A f \in c : Gate!Calls[f] \subseteq tests
  BY CalledTests
<1>2. Gate!JavaTests(c) = Gate!AllJava \/ Gate!JavaTests(c) = tests
  BY DEF Gate!JavaTests
<1> HIDE DEF tests
<1> QED BY <1>1, <1>2

\* What is planned for a change holds every test that one of its files calls for.
LEMMA PlannedTests ==
  ASSUME NEW c \in SUBSET Gate!Kinds
  PROVE  /\ Gate!Plan(c) \in Seq(GateCommands)
         /\ \A f \in c : Gate!Calls[f] \subseteq TestsOf(Gate!Plan(c))
         /\ Gate!JavaTests(c) = Gate!AllJava => Gate!AllJava \subseteq TestsOf(Gate!Plan(c))
<1>1. /\ Gate!JavaTests(c) \subseteq Gate!AllJava
      /\ \A f \in c : Gate!Calls[f] \subseteq Gate!JavaTests(c) \ {"smoke"}
  BY MappedTests, CalledTests
<1>2. /\ "smoke" \in Gate!AllJava /\ Gate!AllJava \ {"smoke"} # {}
      /\ \A t \in SUBSET Gate!AllJava : Gate!Java(t) \in GateCommands /\ Gate!Java(t).tests = t
      /\ Gate!Other \in GateCommands
  BY DEF Gate!AllJava, Gate!Java, Gate!Other, GateCommands
<1>3. CASE Gate!FailClosed(c)
  <2> DEFINE first == Gate!Java(Gate!AllJava)
             other == Gate!Other
  <2>1. Gate!Plan(c) = <<first, other, other, other, other>>
    BY <1>3 DEF Gate!Plan
  <2>2. first \in GateCommands /\ other \in GateCommands /\ first.tests = Gate!AllJava
    BY <1>2
  <2> HIDE DEF first, other
  <2>3. /\ Gate!Plan(c) \in Seq(GateCommands) /\ 1 \in DOMAIN Gate!Plan(c)
        /\ Gate!Plan(c)[1] = first
    BY <2>1, <2>2
  <2>4. Gate!AllJava \subseteq TestsOf(Gate!Plan(c))
    BY <2>2, <2>3 DEF TestsOf
  <2> QED BY <1>1, <2>3, <2>4
<1>4. CASE ~Gate!FailClosed(c)
  <2> DEFINE one == Gate!If(c \cap Gate!UnderApp # {}, Gate!Java({"smoke"}))
             two == Gate!If(Gate!JavaTests(c) \ {"smoke"} # {}, Gate!Java(Gate!JavaTests(c)))
             end == Gate!If(c \cap Gate!WithSpecs # {}, Gate!Other)
  <2>1. Gate!Plan(c) = one \o two \o end
    BY <1>4 DEF Gate!Plan
  <2>2. one \in Seq(GateCommands) /\ end \in Seq(GateCommands) /\ two \in Seq(GateCommands)
    BY <1>1, <1>2, TestsIf
  <2>3. Gate!JavaTests(c) \ {"smoke"} # {} => TestsOf(two) = Gate!JavaTests(c)
    BY <1>1, <1>2, TestsIf
  <2> HIDE DEF one, two, end
  <2>4. one \o two \in Seq(GateCommands) /\ TestsOf(two) \subseteq TestsOf(one \o two)
    BY <2>2, TestsConcat
  <2>5. Gate!Plan(c) \in Seq(GateCommands) /\ TestsOf(two) \subseteq TestsOf(Gate!Plan(c))
    BY <2>1, <2>2, <2>4, TestsConcat, ZenonT(40)
  <2> QED BY <1>1, <1>2, <2>3, <2>5
<1> QED BY <1>3, <1>4

\* The invariant holds at the start.
LEMMA GateInit == Gate!Init => GateInv
<1> SUFFICES ASSUME Gate!Init PROVE GateInv
  OBVIOUS
<1>1. gate_change \in (SUBSET Files) \ {{}} /\ gate_change \subseteq Gate!Kinds
  BY GateConstants DEF Gate!Init
<1>2. GateShape
  BY <1>1, PlannedTests DEF Gate!Init, GateShape
<1>3. NoneLeftOut /\ PassedOK
  BY DEF Gate!Init, NoneLeftOut, PassedOK
<1> QED BY <1>2, <1>3 DEF GateInv

\* Every step keeps the invariant of the gate.
LEMMA GateStep ==
  ASSUME GateInv, Gate!Next \/ UNCHANGED Gate!vars
  PROVE  GateInv'
<1>0. GateShape /\ NoneLeftOut /\ PassedOK
  BY DEF GateInv
<1>1. CASE Gate!RunCommand
  <2> DEFINE first == Head(gate_todo)
  <2>1. /\ gate_todo # <<>> /\ gate_todo \in Seq(GateCommands)
        /\ gate_todo' = Tail(gate_todo)
    BY <1>0, <1>1 DEF GateShape, Gate!RunCommand
  <2>2. first \in GateCommands /\ gate_todo' \in Seq(GateCommands)
    BY <2>1
  <2>3. TestsOf(gate_todo) \subseteq first.tests \cup TestsOf(gate_todo')
    <3>1. /\ Len(gate_todo) \in Nat /\ DOMAIN gate_todo = 1..Len(gate_todo)
          /\ DOMAIN gate_todo' = 1..(Len(gate_todo) - 1) /\ first = gate_todo[1]
          /\ \A i \in 1..(Len(gate_todo) - 1) : gate_todo'[i] = gate_todo[i + 1]
      BY <2>1
    <3>2. ASSUME NEW i \in 1..Len(gate_todo)
          PROVE  gate_todo[i].tests \subseteq first.tests \cup TestsOf(gate_todo')
      <4>1. CASE i = 1
        BY <3>1, <4>1
      <4>2. CASE i # 1
        <5>1. i - 1 \in 1..(Len(gate_todo) - 1) /\ (i - 1) + 1 = i
          BY <3>1, <4>2
        <5>2. gate_todo'[i - 1] = gate_todo[i]
          BY <3>1, <5>1
        <5> QED BY <3>1, <5>1, <5>2 DEF TestsOf
      <4> QED BY <4>1, <4>2
    <3> QED BY <3>1, <3>2 DEF TestsOf
  <2>4. first.tests \subseteq Gate!AllJava /\ (first.java \/ first.tests = {})
    BY <2>2 DEF GateCommands
  <2>5. /\ UNCHANGED <<gate_change, gate_verdict>> /\ gate_executed' = gate_executed + 1
        /\ gate_failed' \in BOOLEAN /\ (gate_failed => gate_failed')
    BY <1>0, <1>1 DEF GateShape, Gate!RunCommand, Gate!MvnwTest
  <2>6. /\ gate_passed' \subseteq Gate!AllJava /\ gate_skipped' \subseteq Gate!AllJava
        /\ ~gate_failed' =>
             gate_passed \cup gate_skipped \cup first.tests \subseteq gate_passed' \cup gate_skipped'
    <3>1. CASE first.java /\ Gate!MvnwTest(first.tests)
      BY <1>0, <2>4, <3>1 DEF GateShape, Gate!MvnwTest
    <3>2. CASE ~first.java /\ UNCHANGED <<gate_passed, gate_skipped>>
      BY <1>0, <2>4, <3>2 DEF GateShape
    <3> QED BY <1>1, <3>1, <3>2 DEF Gate!RunCommand
  <2>7. GateShape'
    BY <1>0, <2>2, <2>5, <2>6 DEF GateShape
  <2>8. NoneLeftOut'
    BY <1>0, <2>3, <2>5, <2>6 DEF NoneLeftOut
  <2>9. PassedOK'
    BY <1>0, <2>1, <2>5 DEF PassedOK
  <2> QED BY <2>7, <2>8, <2>9 DEF GateInv
<1>2. CASE Gate!Conclude
  BY <1>0, <1>2 DEF GateInv, GateShape, NoneLeftOut, PassedOK, Gate!Conclude
<1>3. CASE UNCHANGED Gate!vars
  BY <1>0, <1>3 DEF GateInv, GateShape, NoneLeftOut, PassedOK, Gate!vars
<1> QED BY <1>1, <1>2, <1>3 DEF Gate!Next

\* The verification of a change, whatever its files: what it still has to run, what it
\* has run and its verdict agree.
THEOREM Verifications == Spec => []GateInv
<1>1. Init => GateInv
  BY GateInit DEF Init
<1>2. GateInv /\ [Next]_vars => GateInv'
  <2> SUFFICES ASSUME GateInv, [Next]_vars PROVE GateInv'
    OBVIOUS
  <2>1. Gate!Next \/ UNCHANGED Gate!vars
    BY DEF Next, vars, gate, Gate!vars
  <2> QED BY <2>1, GateStep
<1> QED BY <1>1, <1>2, PTL DEF Spec

\* A change without an unrecognized file is PASSED (verify_change.execute) only if every
\* test that one of its files calls for was run or skipped itself, and, with a file of
\* high risk, none was skipped.
THEOREM VerifiedByTests == Spec => []PassedIsVerified
<1>1. GateInv => PassedIsVerified
  <2> SUFFICES ASSUME GateInv, gate_verdict = "PASSED", Gate!Unrecognized(gate_change) = {}
               PROVE  /\ \A f \in gate_change : Gate!Calls[f] \subseteq gate_passed \cup gate_skipped
                      /\ "errors" \in gate_change => gate_passed \cup gate_skipped = Gate!AllJava
                      /\ (\E f \in gate_change : Gate!High(f)) => gate_skipped = {} /\ gate_executed > 0
    BY DEF PassedIsVerified, Gate!PassedIsVerified
  <2>1. /\ gate_change \in (SUBSET Files) \ {{}} /\ gate_executed \in Nat
        /\ gate_passed \subseteq Gate!AllJava /\ gate_skipped \subseteq Gate!AllJava
        /\ gate_todo = <<>> /\ ~gate_failed /\ NoneLeftOut
        /\ Gate!IsHighRisk(gate_change) => gate_executed # 0 /\ gate_skipped = {}
    BY DEF GateInv, GateShape, PassedOK
  <2>2. gate_change \subseteq DOMAIN Gate!RULES /\ gate_change \subseteq Gate!Kinds
    BY <2>1, GateConstants DEF Gate!Unrecognized
  <2>3. TestsOf(Gate!Plan(gate_change)) \subseteq gate_passed \cup gate_skipped
    <3>1. TestsOf(<<>>) = {}
      BY DEF TestsOf
    <3> QED BY <2>1, <3>1 DEF NoneLeftOut
  <2>4. \A f \in gate_change : Gate!Calls[f] \subseteq gate_passed \cup gate_skipped
    BY <2>2, <2>3, PlannedTests
  <2>5. ASSUME "errors" \in gate_change PROVE gate_passed \cup gate_skipped = Gate!AllJava
    <3>1. Gate!RULES["errors"][2] >= 3
      BY DEF Gate!RULES
    <3>2. Gate!Radius(gate_change) \in {"CROSS_MODULE", "SYSTEM"}
      BY <2>2, <2>5, <3>1, StrictRule
    <3>3. Gate!JavaTests(gate_change) = Gate!AllJava
      BY <2>5, <3>2 DEF Gate!JavaTests, Gate!JavaMain
    <3> QED BY <2>1, <2>2, <2>3, <3>3, PlannedTests
  <2>6. ASSUME NEW f \in gate_change, Gate!High(f)
        PROVE  gate_skipped = {} /\ gate_executed > 0
    BY <2>1, <2>2, <2>6, StrictRule
  <2> QED BY <2>4, <2>5, <2>6
<1> QED BY <1>1, Verifications, PTL

-----------------------------------------------------------------------------
(* The backend change *)

Deployments == [text : {Baseline, Probe, Foreign}, status : {"BUILDING", "SUCCESS", "FAILED"},
                by : {"probe", "restore", None}]
BackendShape ==
  /\ backend_at \in Backend!Steps \cup {"aborted", "failed", "PASS"}
  /\ backend_cycle \in {"probe", "restore"}
  /\ backend_passed \in [{"probe", "restore"} -> BOOLEAN \cup {None}]
  /\ backend_source \in {Baseline, Foreign, None}
  /\ backend_deploys \in Seq(Deployments)
  /\ backend_live \in Nat /\ backend_live <= Len(backend_deploys)

Probes == {i \in DOMAIN backend_deploys : backend_deploys[i].text = Probe}
Before == {"start", "analysis", "clone", "build", "commit", "trigger"}

\* The probe is deployed once, by the first cycle, and only the second cycle decides.
ProbeOK ==
  /\ \A i, j \in Probes : i = j
  /\ backend_cycle = "probe" => backend_passed["probe"] = None /\ backend_at # "PASS"
  /\ backend_cycle = "probe" /\ backend_at \in Before => Probes = {}
  /\ backend_cycle = "restore" => backend_passed["probe"] \in BOOLEAN

\* A first cycle that passed has seen the probe: production never goes back to it.
SeenOK ==
  /\ backend_cycle = "restore" /\ backend_passed["probe"] = TRUE =>
       \A i \in Probes : i <= backend_live
  /\ backend_at = "PASS" =>
       backend_cycle = "restore" /\ backend_passed["probe"] = TRUE /\ Backend!Live # Probe

BackendInv == BackendShape /\ ProbeOK /\ SeenOK

-----------------------------------------------------------------------------

\* What is assumed of the constants.
LEMMA BackendConstants ==
  Probe # Baseline /\ Probe # Foreign /\ Probe # None
<1>1. Cardinality({Baseline, Probe, Foreign, None}) = 4
  <2>1. Backend!Cardinality({Baseline, Probe, Foreign, None}) = 4
    BY PlatformAssumption DEF PlatformAssumption, Backend!BackendAssumption
  <2>2. \A S : Backend!Cardinality(S) = Cardinality(S)
    BY DEF Backend!Cardinality, Cardinality
  <2> QED BY <2>1, <2>2
<1>2. ASSUME NEW a, NEW b, NEW c PROVE Cardinality({a, b, c}) # 4
  <2>1. IsFiniteSet({a}) /\ Cardinality({a}) = 1
    BY FS_Singleton
  <2>2. IsFiniteSet({a, b}) /\ Cardinality({a, b}) \in 1..2
    <3>1. {a, b} = {a} \cup {b}
      OBVIOUS
    <3> QED BY <2>1, <3>1, FS_AddElement
  <2>3. Cardinality({a, b, c}) \in 1..3
    <3>1. {a, b, c} = {a, b} \cup {c}
      OBVIOUS
    <3> QED BY <2>2, <3>1, FS_AddElement
  <2> QED BY <2>3
<1>3. ASSUME Probe \in {Baseline, Foreign, None} PROVE FALSE
  <2>1. {Baseline, Probe, Foreign, None} = {Baseline, Foreign, None}
    BY <1>3
  <2> QED BY <1>1, <1>2, <2>1
<1> QED BY <1>3

\* The invariant holds at the start.
LEMMA BackendInit == Backend!Init => BackendInv
<1> SUFFICES ASSUME Backend!Init PROVE BackendInv
  OBVIOUS
<1>1. BackendShape
  BY DEF Backend!Init, BackendShape, Backend!Steps
<1>2. Probes = {}
  BY DEF Backend!Init, Probes
<1> QED BY <1>1, <1>2 DEF Backend!Init, BackendInv, ProbeOK, SeenOK

\* What the platform and the others do to the deployments, and a trigger.
LEMMA Deployed ==
  ASSUME BackendShape, NEW d \in Deployments, backend_deploys' = Append(backend_deploys, d)
  PROVE  /\ backend_deploys' \in Seq(Deployments)
         /\ Len(backend_deploys') = Len(backend_deploys) + 1 /\ Len(backend_deploys) \in Nat
         /\ Probes' = IF d.text = Probe THEN Probes \cup {Len(backend_deploys')} ELSE Probes
         /\ \A i \in DOMAIN backend_deploys : backend_deploys'[i] = backend_deploys[i]
<1>1. backend_deploys \in Seq(Deployments)
  BY DEF BackendShape
<1>2. /\ backend_deploys' \in Seq(Deployments)
      /\ Len(backend_deploys') = Len(backend_deploys) + 1 /\ Len(backend_deploys) \in Nat
      /\ DOMAIN backend_deploys' = 1..(Len(backend_deploys) + 1)
      /\ DOMAIN backend_deploys = 1..Len(backend_deploys)
      /\ \A i \in DOMAIN backend_deploys : backend_deploys'[i] = backend_deploys[i]
      /\ backend_deploys'[Len(backend_deploys) + 1] = d
  BY <1>1
<1>3. Probes' = IF d.text = Probe THEN Probes \cup {Len(backend_deploys')} ELSE Probes
  BY <1>2 DEF Probes
<1> QED BY <1>2, <1>3

\* The end of a cycle.
LEMMA Ended ==
  ASSUME BackendInv, NEW from, NEW ok \in BOOLEAN, Backend!End(from, ok), from \in Backend!Steps,
         ok => from = "verify" /\ Backend!Live = Backend!Target[backend_cycle]
  PROVE  BackendInv'
<1>1. /\ UNCHANGED <<backend_source, backend_deploys, backend_live>> /\ backend_at = from
      /\ backend_passed' = [backend_passed EXCEPT ![backend_cycle] = ok]
      /\ IF backend_cycle = "probe" THEN backend_cycle' = "restore" /\ backend_at' = "clone"
         ELSE /\ backend_cycle' = backend_cycle
              /\ backend_at' = IF backend_passed'["probe"] /\ backend_passed'["restore"]
                               THEN "PASS" ELSE "failed"
  BY DEF Backend!End, Backend!platform, Backend!Verdict
<1>2. BackendShape /\ Probes' = Probes /\ Backend!Live' = Backend!Live
  BY <1>1 DEF BackendInv, Probes, Backend!Live
<1>3. backend_passed' \in [{"probe", "restore"} -> BOOLEAN \cup {None}]
      /\ backend_passed'[backend_cycle] = ok
      /\ \A c \in {"probe", "restore"} : c # backend_cycle => backend_passed'[c] = backend_passed[c]
  BY <1>1, <1>2 DEF BackendShape
<1>4. CASE backend_cycle = "probe"
  <2>1. BackendShape' /\ backend_cycle' = "restore" /\ backend_at' = "clone"
        /\ backend_passed'["probe"] = ok
    BY <1>1, <1>2, <1>3, <1>4 DEF BackendShape, Backend!Steps
  <2>2. ASSUME ok, NEW i \in Probes PROVE i <= backend_live
    <3>1. Backend!Live = Probe
      BY <1>4, <2>2 DEF Backend!Target
    <3>2. backend_live \in Probes
      BY <1>2, <3>1, BackendConstants DEF Backend!Live, Probes, BackendShape
    <3>3. i = backend_live
      BY <2>2, <3>2 DEF BackendInv, ProbeOK
    <3> QED BY <1>2, <3>3 DEF BackendShape
  <2> QED BY <1>1, <1>2, <2>1, <2>2 DEF BackendInv, ProbeOK, SeenOK
<1>5. CASE backend_cycle = "restore"
  <2>1. backend_passed["probe"] \in BOOLEAN /\ backend_passed'["probe"] = backend_passed["probe"]
    BY <1>3, <1>5 DEF BackendInv, ProbeOK
  <2>2. backend_at' = "PASS" => backend_passed["probe"] = TRUE /\ ok = TRUE
    BY <1>1, <1>3, <1>5, <2>1
  <2>3. ok => Backend!Live = Baseline
    BY <1>5 DEF Backend!Target
  <2>4. backend_at' \in {"PASS", "failed"} /\ backend_cycle' = "restore"
    BY <1>1, <1>5
  <2>5. BackendShape'
    BY <1>1, <1>2, <1>3, <2>4 DEF BackendShape
  <2> QED BY <1>1, <1>2, <2>1, <2>2, <2>3, <2>4, <2>5, BackendConstants
          DEF BackendInv, ProbeOK, SeenOK, Before
<1> QED BY <1>2, <1>4, <1>5 DEF BackendShape

\* Every step keeps the invariant of the acceptance.
LEMMA BackendStep ==
  ASSUME BackendInv, Backend!Next \/ UNCHANGED backend
  PROVE  BackendInv'
<1> DEFINE kept == UNCHANGED <<backend_passed, backend_deploys, backend_live>>
<1>a. ASSUME kept, UNCHANGED <<backend_cycle>>, backend_source' \in {Baseline, Foreign, None},
             \/ backend_at' = backend_at
             \/ backend_at \in Backend!Steps /\ backend_at' \in Backend!Steps \cup {"aborted", "failed"}
             \/ backend_at = "PASS" /\ backend_at' = "PASS",
             backend_at' \in Before => backend_at \in Before
      PROVE  BackendInv'
  <2>1. Probes' = Probes /\ Backend!Live' = Backend!Live
    BY <1>a DEF Probes, Backend!Live
  <2>2. BackendShape'
    BY <1>a DEF BackendInv, BackendShape
  <2>3. backend_at' = "PASS" => backend_at = "PASS"
    BY <1>a DEF Backend!Steps
  <2> QED BY <1>a, <2>1, <2>2, <2>3 DEF BackendInv, ProbeOK, SeenOK
<1>0. BackendShape
  BY DEF BackendInv
<1>1. ASSUME Backend!CheckBaseline PROVE BackendInv'
  BY <1>0, <1>1, <1>a DEF Backend!CheckBaseline, Backend!Go, Backend!platform,
                          Backend!Steps, Before, BackendShape
<1>2. ASSUME Backend!Advise PROVE BackendInv'
  BY <1>0, <1>2, <1>a DEF Backend!Advise, Backend!Go, Backend!platform,
                          Backend!Steps, Before, BackendShape
<1>3. ASSUME Backend!Clone PROVE BackendInv'
  <2>1. CASE Backend!End("clone", FALSE)
    BY <2>1, Ended DEF Backend!Steps
  <2>2. CASE ~Backend!End("clone", FALSE)
    BY <1>0, <1>3, <2>2, <1>a DEF Backend!Clone, Backend!Go, Backend!platform,
                                  Backend!Steps, Before, BackendShape
  <2> QED BY <2>1, <2>2
<1>4. ASSUME Backend!Build PROVE BackendInv'
  <2>1. CASE Backend!End("build", FALSE)
    BY <2>1, Ended DEF Backend!Steps
  <2>2. CASE ~Backend!End("build", FALSE)
    BY <1>0, <1>4, <2>2, <1>a DEF Backend!Build, Backend!Go, Backend!platform,
                                  Backend!Steps, Before, BackendShape
  <2> QED BY <2>1, <2>2
<1>5. ASSUME Backend!Commit PROVE BackendInv'
  <2>1. CASE Backend!End("commit", FALSE)
    BY <2>1, Ended DEF Backend!Steps
  <2>2. CASE ~Backend!End("commit", FALSE)
    BY <1>0, <1>5, <2>2, <1>a DEF Backend!Commit, Backend!Go, Backend!platform,
                                  Backend!Steps, Before, BackendShape
  <2> QED BY <2>1, <2>2
<1>6. ASSUME Backend!Trigger PROVE BackendInv'
  <2> DEFINE d == Backend!Deployment
  <2>1. /\ backend_at = "trigger" /\ UNCHANGED <<backend_source, backend_live>>
        /\ backend_deploys' \in {backend_deploys, Append(backend_deploys, d)}
        /\ \/ backend_at' = "wait" /\ UNCHANGED <<backend_cycle, backend_passed>>
           \/ /\ backend_passed' = [backend_passed EXCEPT ![backend_cycle] = FALSE]
              /\ IF backend_cycle = "probe" THEN backend_cycle' = "restore" /\ backend_at' = "clone"
                 ELSE backend_cycle' = backend_cycle /\ backend_at' = "failed"
    BY <1>6 DEF Backend!Trigger, Backend!Go
  <2>2. d \in Deployments /\ (d.text = Probe <=> backend_cycle = "probe")
    BY <1>0, BackendConstants DEF Deployments, Backend!Deployment, Backend!Target,
                                  BackendShape
  <2> HIDE DEF d
  <2>3. /\ backend_deploys' \in Seq(Deployments) /\ Len(backend_deploys') \in Nat
        /\ Len(backend_deploys') >= Len(backend_deploys) /\ Len(backend_deploys) \in Nat
        /\ \/ Probes' = Probes
           \/ backend_cycle = "probe" /\ Probes' = Probes \cup {Len(backend_deploys')}
    <3>1. CASE backend_deploys' = backend_deploys
      BY <1>0, <3>1 DEF BackendShape, Probes
    <3>2. CASE backend_deploys' = Append(backend_deploys, d)
      <4>1. /\ backend_deploys' \in Seq(Deployments)
            /\ Len(backend_deploys') = Len(backend_deploys) + 1 /\ Len(backend_deploys) \in Nat
            /\ Probes' = IF d.text = Probe THEN Probes \cup {Len(backend_deploys')} ELSE Probes
        BY <1>0, <2>2, <3>2, Deployed
      <4> QED BY <2>2, <4>1
    <3> QED BY <2>1, <3>1, <3>2
  <2>4. /\ backend_passed' \in [{"probe", "restore"} -> BOOLEAN \cup {None}]
        /\ backend_cycle = "restore" => backend_passed'["probe"] = backend_passed["probe"]
        /\ backend_cycle = "probe" => \/ backend_cycle' = "restore" /\ backend_passed'["probe"] = FALSE
                                      \/ /\ backend_cycle' = "probe" /\ backend_at' = "wait"
                                         /\ backend_passed' = backend_passed
        /\ backend_cycle = "restore" => backend_cycle' = "restore"
        /\ backend_at' \in {"wait", "clone", "failed"}
    <3>1. CASE backend_at' = "wait" /\ UNCHANGED <<backend_cycle, backend_passed>>
      BY <1>0, <3>1 DEF BackendShape
    <3>2. CASE /\ backend_passed' = [backend_passed EXCEPT ![backend_cycle] = FALSE]
               /\ IF backend_cycle = "probe" THEN backend_cycle' = "restore" /\ backend_at' = "clone"
                  ELSE backend_cycle' = backend_cycle /\ backend_at' = "failed"
      BY <1>0, <3>2 DEF BackendShape
    <3> QED BY <2>1, <3>1, <3>2
  <2>5. BackendShape'
    BY <1>0, <2>1, <2>3, <2>4 DEF BackendShape, Backend!Steps
  <2>6. backend_cycle = "probe" => Probes = {} /\ backend_passed["probe"] = None
    BY <2>1 DEF BackendInv, ProbeOK, Before
  <2>7. backend_cycle = "restore" => Probes' = Probes /\ backend_passed["probe"] \in BOOLEAN
    BY <2>3 DEF BackendInv, ProbeOK
  <2>8. ProbeOK'
    BY <1>0, <2>3, <2>4, <2>6, <2>7 DEF BackendInv, ProbeOK, Before, BackendShape
  <2>9. SeenOK'
    BY <1>0, <2>1, <2>4, <2>6, <2>7 DEF BackendInv, SeenOK, BackendShape
  <2> QED BY <2>5, <2>8, <2>9 DEF BackendInv
<1>7. ASSUME Backend!Wait PROVE BackendInv'
  <2>1. CASE Backend!End("wait", FALSE)
    BY <2>1, Ended DEF Backend!Steps
  <2>2. CASE ~Backend!End("wait", FALSE)
    BY <1>0, <1>7, <2>2, <1>a DEF Backend!Wait, Backend!Go, Backend!platform,
                                  Backend!Steps, Before, BackendShape
  <2> QED BY <2>1, <2>2
<1>8. ASSUME Backend!Verify PROVE BackendInv'
  BY <1>8, Ended DEF Backend!Verify, Backend!Steps
<1>9. ASSUME Backend!Raise PROVE BackendInv'
  BY <1>0, <1>9, <1>a DEF Backend!Raise, Backend!platform, Backend!Steps, Before,
                          BackendShape
<1>10. ASSUME Backend!Built PROVE BackendInv'
  <2>1. PICK i \in DOMAIN backend_deploys, s \in {"SUCCESS", "FAILED"} :
          backend_deploys' = [backend_deploys EXCEPT ![i].status = s]
    BY <1>10 DEF Backend!Built
  <2>2. UNCHANGED <<backend_at, backend_cycle, backend_passed, backend_source, backend_live>>
    BY <1>10 DEF Backend!Built
  <2>3. backend_deploys \in Seq(Deployments)
    BY <1>0 DEF BackendShape
  <2>4. backend_deploys[i] \in Deployments
    BY <2>3
  <2>5. [backend_deploys[i] EXCEPT !.status = s] \in Deployments
        /\ [backend_deploys[i] EXCEPT !.status = s].text = backend_deploys[i].text
    BY <2>4 DEF Deployments
  <2>6. backend_deploys' = [backend_deploys EXCEPT ![i] = [backend_deploys[i] EXCEPT !.status = s]]
    BY <2>1
  <2>7. /\ backend_deploys' \in Seq(Deployments) /\ Len(backend_deploys') = Len(backend_deploys)
        /\ DOMAIN backend_deploys' = DOMAIN backend_deploys
        /\ \A j \in DOMAIN backend_deploys : backend_deploys'[j].text = backend_deploys[j].text
    BY <2>3, <2>5, <2>6
  <2>8. Probes' = Probes
    BY <2>7 DEF Probes
  <2>9. Backend!Live' = Backend!Live
    <3>1. backend_live = 0 \/ backend_live \in DOMAIN backend_deploys
      BY <1>0, <2>3 DEF BackendShape
    <3> QED BY <2>2, <2>7, <3>1 DEF Backend!Live
  <2>10. BackendShape'
    BY <1>0, <2>2, <2>7 DEF BackendShape
  <2> QED BY <2>2, <2>8, <2>9, <2>10 DEF BackendInv, ProbeOK, SeenOK
<1>11. ASSUME Backend!Cutover PROVE BackendInv'
  <2>1. PICK i \in DOMAIN backend_deploys : i > backend_live /\ backend_live' = i
    BY <1>11 DEF Backend!Cutover
  <2>2. UNCHANGED <<backend_at, backend_cycle, backend_passed, backend_source, backend_deploys>>
    BY <1>11 DEF Backend!Cutover
  <2>3. backend_deploys \in Seq(Deployments) /\ backend_live \in Nat /\ i \in Nat
        /\ i <= Len(backend_deploys) /\ Len(backend_deploys) \in Nat /\ i # 0
    BY <1>0, <2>1 DEF BackendShape
  <2>4. BackendShape' /\ Probes' = Probes
    BY <1>0, <2>1, <2>2, <2>3 DEF BackendShape, Probes
  <2>5. \A j \in Probes : j \in Nat
    BY <2>3 DEF Probes
  <2>6. backend_cycle = "restore" /\ backend_passed["probe"] = TRUE =>
          i \notin Probes /\ \A j \in Probes : j <= i
    BY <2>1, <2>3, <2>5 DEF BackendInv, SeenOK
  <2>7. backend_cycle = "restore" /\ backend_passed["probe"] = TRUE => Backend!Live' # Probe
    BY <2>1, <2>2, <2>3, <2>6 DEF Backend!Live, Probes
  <2> QED BY <2>1, <2>2, <2>4, <2>6, <2>7 DEF BackendInv, ProbeOK, SeenOK
<1>12. ASSUME Backend!ForeignDeploy PROVE BackendInv'
  <2> DEFINE d == [text |-> backend_source, status |-> "BUILDING", by |-> None]
  <2>1. /\ backend_source # None /\ backend_deploys' = Append(backend_deploys, d)
        /\ UNCHANGED <<backend_at, backend_cycle, backend_passed, backend_source, backend_live>>
    BY <1>12 DEF Backend!ForeignDeploy
  <2>2. d \in Deployments /\ d.text # Probe
    BY <1>0, <2>1, BackendConstants DEF Deployments, BackendShape
  <2> HIDE DEF d
  <2>3. /\ backend_deploys' \in Seq(Deployments)
        /\ Len(backend_deploys') = Len(backend_deploys) + 1 /\ Len(backend_deploys) \in Nat
        /\ Probes' = Probes
        /\ \A i \in DOMAIN backend_deploys : backend_deploys'[i] = backend_deploys[i]
    BY <1>0, <2>1, <2>2, Deployed
  <2>4. Backend!Live' = Backend!Live
    <3>1. backend_live = 0 \/ backend_live \in DOMAIN backend_deploys
      BY <1>0 DEF BackendShape
    <3> QED BY <2>1, <2>3, <3>1 DEF Backend!Live
  <2>5. BackendShape'
    BY <1>0, <2>1, <2>3 DEF BackendShape
  <2> QED BY <2>1, <2>3, <2>4, <2>5 DEF BackendInv, ProbeOK, SeenOK
<1>13. ASSUME Backend!MasterMoves PROVE BackendInv'
  BY <1>13, <1>a DEF Backend!MasterMoves, Backend!platform
<1>14. CASE UNCHANGED backend
  BY <1>0, <1>14, <1>a DEF backend, BackendShape
<1> QED BY <1>1, <1>2, <1>3, <1>4, <1>5, <1>6, <1>7, <1>8, <1>9, <1>10, <1>11, <1>12, <1>13, <1>14
        DEF Backend!Next

\* The acceptance of the backend deploys its probe once, and what passed has seen it go by
\* (backend_acceptance.py, main; backend_execution.run_one_cycle).
THEOREM Acceptances == Spec => []BackendInv
<1>1. Init => BackendInv
  BY BackendInit DEF Init
<1>2. BackendInv /\ [Next]_vars => BackendInv'
  <2> SUFFICES ASSUME BackendInv, [Next]_vars PROVE BackendInv'
    OBVIOUS
  <2>1. Backend!Next \/ UNCHANGED backend
    BY DEF Next, vars
  <2> QED BY <2>1, BackendStep
<1> QED BY <1>1, <1>2, PTL DEF Spec

\* After a PASS the probe is gone for good, whatever others deployed meanwhile, however many
\* deployments there are, and however late the platform switches (main, the final verdict).
THEOREM NoProbeAfterPass == Spec => []ProbeIsGone
<1>1. BackendInv => ProbeIsGone
  <2> SUFFICES ASSUME BackendInv, backend_at = "PASS"
               PROVE  /\ Backend!Live # Probe
                      /\ \A i \in DOMAIN backend_deploys :
                           i > backend_live => backend_deploys[i].text # Probe
    BY DEF ProbeIsGone, Backend!ProbeIsGone
  <2>1. \A i \in Probes : i <= backend_live /\ i \in Nat
    BY DEF BackendInv, SeenOK, BackendShape, Probes
  <2>2. backend_live \in Nat
    BY DEF BackendInv, BackendShape
  <2> QED BY <2>1, <2>2 DEF BackendInv, SeenOK, Probes
<1> QED BY <1>1, Acceptances, PTL

-----------------------------------------------------------------------------
(* Whom the calls of models are charged to *)

RunPlaces == {"idle", "reserved", "running", "ended", "released", "summarized", "done"}
ChargeShape ==
  /\ charge_at \in [Charges!Runs -> RunPlaces] /\ charge_start \in [Charges!Runs -> Nat]
  /\ charge_since \in [Charges!Runs -> Nat]
  /\ charge_events \in Seq([by : Charges!Callers, real : {TRUE}])
  /\ charge_phase \in [Charges!Callers -> {"idle", "sent", "recorded"}]
  /\ charge_asked \in [Charges!Callers -> BOOLEAN]
  /\ DOMAIN charge_streamed = Charges!Runs /\ DOMAIN charge_history = Charges!Runs

\* The slot is the run's between its start and its end, and an agent run has a call under
\* way only while it runs.
HoldsOK ==
  /\ \A r \in Charges!Runs : charge_at[r] \in {"reserved", "running", "ended"} => charge_slot = r
  /\ \A a \in Agents : charge_phase[a] # "idle" => charge_at[a] = "running"

From(r) == (charge_start[r] + 1)..Len(charge_events)
Waiting == {"idle", "reserved"}

\* The first event of a run comes after its start, and its start after its slot.
StartOK ==
  \A r \in Charges!Runs :
    /\ charge_since[r] <= Len(charge_events) /\ charge_start[r] <= Len(charge_events)
    /\ charge_at[r] \notin Waiting => charge_since[r] <= charge_start[r]
    /\ Charges!OwnCalls(r) \subseteq From(r)
    /\ charge_at[r] \in Waiting => Charges!OwnCalls(r) = {}

\* A summary of a run is made after its end, the record after the summary.
SummaryOK ==
  \A r \in Charges!Runs :
    /\ charge_streamed[r] # None => /\ charge_at[r] \in {"summarized", "done"}
                                    /\ charge_streamed[r] \subseteq From(r)
    /\ charge_history[r] # None => charge_at[r] = "done"

ChargeInv == ChargeShape /\ HoldsOK /\ StartOK /\ SummaryOK /\ Charges!OwnCallsAreCharged

-----------------------------------------------------------------------------

\* What is assumed of the constants.
LEMMA ChargeConstants ==
  /\ None \notin Charges!Runs \cup Visitors /\ Charges!Runs \cap Visitors = {}
  /\ Agents \cap Trainers = {} /\ Charges!Runs = Agents \cup Trainers
  /\ Charges!Callers = Agents \cup Visitors
BY PlatformAssumption DEF PlatformAssumption, Charges!UsageAssumption, Charges!Runs,
                          Charges!Callers

\* Every step keeps the shape.
LEMMA ChargeShapeKept ==
  ASSUME ChargeInv, Charges!Next
  PROVE  ChargeShape'
<1> USE ChargeConstants DEF ChargeInv, ChargeShape, RunPlaces
<1>1. ASSUME NEW v \in Visitors, NEW listed \in BOOLEAN, NEW double \in BOOLEAN,
             NEW key \in BOOLEAN, Charges!Ask(v, listed, double, key)
      PROVE  ChargeShape'
  BY <1>1 DEF Charges!Ask, Charges!Goes, Charges!Moves, Charges!calling,
              Charges!reports
<1>2. ASSUME NEW r \in Agents, Charges!AskInLoop(r) PROVE ChargeShape'
  BY <1>2 DEF Charges!AskInLoop, Charges!Goes, Charges!Moves, Charges!calling,
              Charges!reports
<1>3. ASSUME NEW c \in Charges!Callers, NEW used \in BOOLEAN, Charges!Answered(c, used)
      PROVE  ChargeShape'
  <2>1. CASE charge_events' = charge_events
    BY <1>3, <2>1 DEF Charges!Answered, Charges!Goes, Charges!Moves,
                      Charges!calling, Charges!reports
  <2>2. CASE /\ ~charge_asked[c]
             /\ charge_events' = Append(charge_events, [by |-> c, real |-> ~charge_asked[c]])
    <3>1. charge_events' = Append(charge_events, [by |-> c, real |-> TRUE])
      BY <2>2
    <3>2. charge_events' \in Seq([by : Charges!Callers, real : {TRUE}])
      BY <3>1
    <3> QED BY <1>3, <3>2 DEF Charges!Answered, Charges!Goes, Charges!Moves,
                              Charges!calling, Charges!reports
  <2> QED BY <1>3, <2>1, <2>2 DEF Charges!Answered, Charges!Recorded
<1>4. ASSUME NEW c \in Charges!Callers, Charges!Bridge(c) PROVE ChargeShape'
  BY <1>4 DEF Charges!Bridge, Charges!Goes, Charges!Moves, Charges!calling,
              Charges!reports
<1>5. ASSUME NEW c \in Charges!Callers, Charges!CallRaises(c) PROVE ChargeShape'
  BY <1>5 DEF Charges!CallRaises, Charges!Goes, Charges!Moves, Charges!calling,
              Charges!reports
<1>6. ASSUME Charges!Switch PROVE ChargeShape'
  BY <1>6 DEF Charges!Switch, Charges!Goes, Charges!Moves, Charges!calling,
              Charges!reports
<1>7. ASSUME NEW r \in Charges!Runs, Charges!Reserve(r) PROVE ChargeShape'
  BY <1>7 DEF Charges!Reserve, Charges!Goes, Charges!Moves, Charges!calling,
              Charges!reports
<1>8. ASSUME NEW r \in Charges!Runs, Charges!Begin(r) PROVE ChargeShape'
  BY <1>8 DEF Charges!Begin, Charges!Goes, Charges!Moves, Charges!calling,
              Charges!reports, Charges!StartIndex
<1>9. ASSUME NEW r \in Charges!Runs, Charges!Work(r) PROVE ChargeShape'
  BY <1>9 DEF Charges!Work, Charges!Goes, Charges!Moves, Charges!calling,
              Charges!reports
<1>10. ASSUME NEW r \in Charges!Runs, Charges!Release(r) PROVE ChargeShape'
  BY <1>10 DEF Charges!Release, Charges!Goes, Charges!Moves, Charges!calling,
               Charges!reports
<1>11. ASSUME NEW r \in Charges!Runs, Charges!Summarize(r) PROVE ChargeShape'
  BY <1>11 DEF Charges!Summarize, Charges!Goes, Charges!Moves, Charges!calling,
               Charges!reports
<1>12. ASSUME NEW r \in Charges!Runs, Charges!PersistRunHistory(r)
       PROVE  ChargeShape'
  BY <1>12 DEF Charges!PersistRunHistory, Charges!Goes, Charges!Moves,
               Charges!calling, Charges!reports
<1> HIDE ChargeConstants DEF ChargeInv, ChargeShape, RunPlaces
<1> QED BY <1>1, <1>2, <1>3, <1>4, <1>5, <1>6, <1>7, <1>8, <1>9, <1>10, <1>11, <1>12 DEF
   Charges!Next

\* Every step keeps what is known of who holds the slot.
LEMMA HoldsKept ==
  ASSUME ChargeInv, Charges!Next
  PROVE  HoldsOK'
<1> USE ChargeConstants DEF ChargeInv, ChargeShape, RunPlaces, HoldsOK
<1>1. ASSUME NEW v \in Visitors, NEW listed \in BOOLEAN, NEW double \in BOOLEAN,
             NEW key \in BOOLEAN, Charges!Ask(v, listed, double, key)
      PROVE  HoldsOK'
  BY <1>1 DEF Charges!Ask, Charges!Goes, Charges!Moves, Charges!calling,
              Charges!reports
<1>2. ASSUME NEW r \in Agents, Charges!AskInLoop(r) PROVE HoldsOK'
  BY <1>2 DEF Charges!AskInLoop, Charges!Goes, Charges!Moves, Charges!calling,
              Charges!reports
<1>3. ASSUME NEW c \in Charges!Callers, NEW used \in BOOLEAN, Charges!Answered(c, used)
      PROVE  HoldsOK'
  BY <1>3 DEF Charges!Answered, Charges!Goes, Charges!Moves, Charges!calling,
              Charges!reports
<1>4. ASSUME NEW c \in Charges!Callers, Charges!Bridge(c) PROVE HoldsOK'
  BY <1>4 DEF Charges!Bridge, Charges!Goes, Charges!Moves, Charges!calling,
              Charges!reports
<1>5. ASSUME NEW c \in Charges!Callers, Charges!CallRaises(c) PROVE HoldsOK'
  BY <1>5 DEF Charges!CallRaises, Charges!Goes, Charges!Moves, Charges!calling,
              Charges!reports
<1>6. ASSUME Charges!Switch PROVE HoldsOK'
  BY <1>6 DEF Charges!Switch, Charges!Goes, Charges!Moves, Charges!calling,
              Charges!reports
<1>7. ASSUME NEW r \in Charges!Runs, Charges!Reserve(r) PROVE HoldsOK'
  BY <1>7 DEF Charges!Reserve, Charges!Goes, Charges!Moves, Charges!calling,
              Charges!reports
<1>8. ASSUME NEW r \in Charges!Runs, Charges!Begin(r) PROVE HoldsOK'
  BY <1>8 DEF Charges!Begin, Charges!Goes, Charges!Moves, Charges!calling,
              Charges!reports, Charges!StartIndex
<1>9. ASSUME NEW r \in Charges!Runs, Charges!Work(r) PROVE HoldsOK'
  BY <1>9 DEF Charges!Work, Charges!Goes, Charges!Moves, Charges!calling,
              Charges!reports
<1>10. ASSUME NEW r \in Charges!Runs, Charges!Release(r) PROVE HoldsOK'
  BY <1>10 DEF Charges!Release, Charges!Goes, Charges!Moves, Charges!calling,
               Charges!reports
<1>11. ASSUME NEW r \in Charges!Runs, Charges!Summarize(r) PROVE HoldsOK'
  BY <1>11 DEF Charges!Summarize, Charges!Goes, Charges!Moves, Charges!calling,
               Charges!reports
<1>12. ASSUME NEW r \in Charges!Runs, Charges!PersistRunHistory(r) PROVE HoldsOK'
  BY <1>12 DEF Charges!PersistRunHistory, Charges!Goes, Charges!Moves,
               Charges!calling, Charges!reports
<1> HIDE ChargeConstants DEF ChargeInv, ChargeShape, RunPlaces, HoldsOK
<1> QED BY <1>1, <1>2, <1>3, <1>4, <1>5, <1>6, <1>7, <1>8, <1>9, <1>10, <1>11, <1>12 DEF
   Charges!Next

\* The list of usage changes by an answer alone.
LEMMA EventsOnly ==
  ASSUME Charges!Next
  PROVE  \/ charge_events' = charge_events
         \/ \E c \in Charges!Callers : \E used \in BOOLEAN : Charges!Answered(c, used)
<1> DEFINE goal == \/ charge_events' = charge_events
                  \/ \E c \in Charges!Callers : \E used \in BOOLEAN : Charges!Answered(c, used)
<1>1. ASSUME NEW v \in Visitors, NEW listed \in BOOLEAN, NEW double \in BOOLEAN,
             NEW key \in BOOLEAN, Charges!Ask(v, listed, double, key)
      PROVE  goal
  BY <1>1 DEF Charges!Ask, Charges!Goes, Charges!Moves, Charges!calling,
              Charges!reports
<1>2. ASSUME NEW r \in Agents, Charges!AskInLoop(r) PROVE goal
  BY <1>2 DEF Charges!AskInLoop, Charges!Goes, Charges!Moves, Charges!calling,
              Charges!reports
<1>3. ASSUME NEW c \in Charges!Callers, NEW used \in BOOLEAN, Charges!Answered(c, used)
      PROVE  goal
  BY <1>3
<1>4. ASSUME NEW c \in Charges!Callers, Charges!Bridge(c) PROVE goal
  BY <1>4 DEF Charges!Bridge, Charges!Goes, Charges!Moves, Charges!calling,
              Charges!reports
<1>5. ASSUME NEW c \in Charges!Callers, Charges!CallRaises(c) PROVE goal
  BY <1>5 DEF Charges!CallRaises, Charges!Goes, Charges!Moves, Charges!calling,
              Charges!reports
<1>6. ASSUME Charges!Switch PROVE goal
  BY <1>6 DEF Charges!Switch, Charges!Goes, Charges!Moves, Charges!calling,
              Charges!reports
<1>7. ASSUME NEW r \in Charges!Runs, Charges!Reserve(r) PROVE goal
  BY <1>7 DEF Charges!Reserve, Charges!Goes, Charges!Moves, Charges!calling,
              Charges!reports
<1>8. ASSUME NEW r \in Charges!Runs, Charges!Begin(r) PROVE goal
  BY <1>8 DEF Charges!Begin, Charges!Goes, Charges!Moves, Charges!calling,
              Charges!reports, Charges!StartIndex
<1>9. ASSUME NEW r \in Charges!Runs, Charges!Work(r) PROVE goal
  BY <1>9 DEF Charges!Work, Charges!Goes, Charges!Moves, Charges!calling,
              Charges!reports
<1>10. ASSUME NEW r \in Charges!Runs, Charges!Release(r) PROVE goal
  BY <1>10 DEF Charges!Release, Charges!Goes, Charges!Moves, Charges!calling,
               Charges!reports
<1>11. ASSUME NEW r \in Charges!Runs, Charges!Summarize(r) PROVE goal
  BY <1>11 DEF Charges!Summarize, Charges!Goes, Charges!Moves, Charges!calling,
               Charges!reports
<1>12. ASSUME NEW r \in Charges!Runs, Charges!PersistRunHistory(r) PROVE goal
  BY <1>12 DEF Charges!PersistRunHistory, Charges!Goes, Charges!Moves,
               Charges!calling, Charges!reports
<1> HIDE DEF goal
<1>99. goal BY <1>1, <1>2, <1>3, <1>4, <1>5, <1>6, <1>7, <1>8, <1>9, <1>10, <1>11, <1>12 DEF Charges!Next
<1> QED BY <1>99 DEF goal

\* It only grows, by a call that was asked.
LEMMA EventsGrow ==
  ASSUME ChargeInv, Charges!Next
  PROVE  /\ Len(charge_events) \in Nat /\ Len(charge_events') \in Nat
         /\ Len(charge_events') >= Len(charge_events)
         /\ \A i \in 1..Len(charge_events) : charge_events'[i] = charge_events[i]
         /\ \/ charge_events' = charge_events
            \/ \E c \in Charges!Callers : /\ Len(charge_events') = Len(charge_events) + 1
                                          /\ charge_events'[Len(charge_events')].by = c
                                          /\ charge_phase[c] # "idle"
<1>0. charge_events \in Seq([by : Charges!Callers, real : {TRUE}])
  BY DEF ChargeInv, ChargeShape
<1>1. CASE charge_events' = charge_events
  BY <1>0, <1>1
<1>2. ASSUME NEW c \in Charges!Callers, NEW used \in BOOLEAN, Charges!Answered(c, used)
      PROVE  \/ charge_events' = charge_events
             \/ /\ charge_phase[c] # "idle"
                /\ charge_events' = Append(charge_events, [by |-> c, real |-> ~charge_asked[c]])
  BY <1>2 DEF Charges!Answered, Charges!Moves
<1>3. ASSUME NEW c \in Charges!Callers, charge_phase[c] # "idle",
             charge_events' = Append(charge_events, [by |-> c, real |-> ~charge_asked[c]])
      PROVE  /\ Len(charge_events) \in Nat /\ Len(charge_events') = Len(charge_events) + 1
             /\ \A i \in 1..Len(charge_events) : charge_events'[i] = charge_events[i]
             /\ charge_events'[Len(charge_events')].by = c
  BY <1>0, <1>3
<1>4. \/ charge_events' = charge_events
      \/ \E c \in Charges!Callers : \E used \in BOOLEAN : Charges!Answered(c, used)
  BY EventsOnly
<1>5. CASE \E c \in Charges!Callers : \E used \in BOOLEAN : Charges!Answered(c, used)
  <2>1. PICK c \in Charges!Callers, used \in BOOLEAN : Charges!Answered(c, used)
    BY <1>5
  <2>2. CASE charge_phase[c] # "idle"
              /\ charge_events' = Append(charge_events, [by |-> c, real |-> ~charge_asked[c]])
    <3>1. /\ Len(charge_events) \in Nat /\ Len(charge_events') = Len(charge_events) + 1
          /\ \A i \in 1..Len(charge_events) : charge_events'[i] = charge_events[i]
          /\ charge_events'[Len(charge_events')].by = c
      BY <1>3, <2>2
    <3> QED BY <2>2, <3>1
  <2> QED BY <1>1, <1>2, <2>1, <2>2
<1> QED BY <1>1, <1>4, <1>5

\* So do the calls of a run, while it runs.
LEMMA OwnGrow ==
  ASSUME ChargeInv, Charges!Next, NEW r \in Charges!Runs
  PROVE  /\ Charges!OwnCalls(r) \subseteq Charges!OwnCalls(r)'
         /\ charge_at[r] # "running" => Charges!OwnCalls(r)' = Charges!OwnCalls(r)
         /\ Charges!OwnCalls(r)' \subseteq Charges!OwnCalls(r) \cup {Len(charge_events')}
<1>1. CASE charge_events' = charge_events
  BY <1>1 DEF Charges!OwnCalls
<1>2. CASE charge_events' # charge_events
  <2>1. PICK c \in Charges!Callers : /\ Len(charge_events') = Len(charge_events) + 1
                                     /\ charge_events'[Len(charge_events')].by = c
                                     /\ charge_phase[c] # "idle"
    BY <1>2, EventsGrow
  <2>2. /\ Len(charge_events) \in Nat
        /\ \A i \in 1..Len(charge_events) : charge_events'[i] = charge_events[i]
    BY EventsGrow
  <2>3. \A i \in 1..Len(charge_events') : i \in 1..Len(charge_events) \/ i = Len(charge_events')
    BY <2>1, <2>2
  <2>4. \A i \in 1..Len(charge_events) : i \in 1..Len(charge_events')
    BY <2>1, <2>2
  <2>5. charge_at[r] # "running" => c # r
    BY <2>1, ChargeConstants DEF ChargeInv, HoldsOK
  <2> QED BY <2>1, <2>2, <2>3, <2>4, <2>5 DEF Charges!OwnCalls
<1> QED BY <1>1, <1>2

\* Every step keeps that a run's window starts before its first call.
LEMMA StartKept ==
  ASSUME ChargeInv, Charges!Next
  PROVE  StartOK'
<1>0. ChargeShape /\ HoldsOK /\ StartOK
  BY DEF ChargeInv
<1>n. Len(charge_events) \in Nat /\ Len(charge_events') \in Nat
      /\ Len(charge_events') >= Len(charge_events)
  BY EventsGrow
<1>w. ASSUME UNCHANGED <<charge_start, charge_since, charge_events>>,
             \A r \in Charges!Runs : charge_at'[r] \in Waiting <=> charge_at[r] \in Waiting
      PROVE  StartOK'
  BY <1>0, <1>w DEF StartOK, From, Charges!OwnCalls
<1> USE ChargeConstants
<1>1. ASSUME NEW v \in Visitors, NEW listed \in BOOLEAN, NEW double \in BOOLEAN,
             NEW key \in BOOLEAN, Charges!Ask(v, listed, double, key)
      PROVE  StartOK'
  BY <1>1, <1>0, <1>w DEF Charges!Ask, Charges!Goes, Charges!Moves, Charges!calling,
                          Charges!reports, ChargeShape, RunPlaces, HoldsOK, Waiting
<1>2. ASSUME NEW r \in Agents, Charges!AskInLoop(r) PROVE StartOK'
  BY <1>2, <1>0, <1>w DEF Charges!AskInLoop, Charges!Goes, Charges!Moves,
                          Charges!calling, Charges!reports, ChargeShape, RunPlaces,
                          HoldsOK, Waiting
<1>3. ASSUME NEW c \in Charges!Callers, NEW used \in BOOLEAN, Charges!Answered(c, used)
      PROVE  StartOK'
  <2>1. UNCHANGED <<charge_start, charge_since, charge_at>>
    BY <1>3 DEF Charges!Answered, Charges!reports
  <2>2. ASSUME NEW r \in Charges!Runs
        PROVE  /\ Charges!OwnCalls(r)' \subseteq From(r)'
               /\ charge_at[r] \in Waiting => Charges!OwnCalls(r)' = {}
    <3>1. charge_start[r] <= Len(charge_events) /\ charge_start[r] \in Nat
          /\ Charges!OwnCalls(r) \subseteq From(r)
      BY <1>0, <2>2 DEF StartOK, ChargeShape
    <3>2. charge_at[r] # "running" => Charges!OwnCalls(r)' = Charges!OwnCalls(r)
      BY <2>2, OwnGrow
    <3>3. Charges!OwnCalls(r)' \subseteq Charges!OwnCalls(r) \cup {Len(charge_events')}
      BY <2>2, OwnGrow
    <3>4. charge_at[r] \in Waiting => Charges!OwnCalls(r) = {}
      BY <1>0, <2>2 DEF StartOK
    <3>5. CASE charge_events' = charge_events
      BY <2>1, <3>1, <3>4, <3>5 DEF From, Charges!OwnCalls
    <3>6. CASE charge_events' # charge_events
      <4>1. Len(charge_events') = Len(charge_events) + 1
        BY <3>6, EventsGrow
      <4>2. From(r) \cup {Len(charge_events')} \subseteq From(r)'
        BY <1>n, <2>1, <3>1, <4>1 DEF From
      <4> QED BY <3>1, <3>2, <3>3, <3>4, <4>2 DEF Waiting
    <3> QED BY <3>5, <3>6
  <2>3. \A r \in Charges!Runs : /\ charge_since[r] <= Len(charge_events')
                                /\ charge_start[r] <= Len(charge_events')
    BY <1>0, <1>n DEF StartOK, ChargeShape
  <2> QED BY <1>0, <2>1, <2>2, <2>3 DEF StartOK
<1>4. ASSUME NEW c \in Charges!Callers, Charges!Bridge(c) PROVE StartOK'
  BY <1>4, <1>0, <1>w DEF Charges!Bridge, Charges!Goes, Charges!Moves,
                          Charges!calling, Charges!reports, ChargeShape, RunPlaces,
                          HoldsOK, Waiting
<1>5. ASSUME NEW c \in Charges!Callers, Charges!CallRaises(c) PROVE StartOK'
  BY <1>5, <1>0, <1>w DEF Charges!CallRaises, Charges!Goes, Charges!Moves,
                          Charges!calling, Charges!reports, ChargeShape, RunPlaces,
                          HoldsOK, Waiting
<1>6. ASSUME Charges!Switch PROVE StartOK'
  BY <1>6, <1>0, <1>w DEF Charges!Switch, Charges!Goes, Charges!Moves,
                          Charges!calling, Charges!reports, ChargeShape, RunPlaces,
                          HoldsOK, Waiting
<1>7. ASSUME NEW r \in Charges!Runs, Charges!Reserve(r) PROVE StartOK'
  <2>1. /\ charge_at[r] = "idle" /\ charge_at' = [charge_at EXCEPT ![r] = "reserved"]
        /\ charge_since' = [charge_since EXCEPT ![r] = Len(charge_events)]
        /\ UNCHANGED <<charge_start, charge_events>>
    BY <1>7 DEF Charges!Reserve, Charges!Goes
  <2>2. ASSUME NEW s \in Charges!Runs
        PROVE  /\ charge_since'[s] <= Len(charge_events')
               /\ charge_at'[s] \notin Waiting => charge_since'[s] <= charge_start[s]
               /\ charge_at'[s] \in Waiting => charge_at[s] \in Waiting
    BY <1>0, <1>n, <2>1, <2>2 DEF ChargeShape, StartOK, Waiting
  <2> QED BY <1>0, <2>1, <2>2 DEF StartOK, From, Charges!OwnCalls
<1>8. ASSUME NEW r \in Charges!Runs, Charges!Begin(r) PROVE StartOK'
  <2>1. /\ charge_at[r] = "reserved" /\ charge_at' = [charge_at EXCEPT ![r] = "running"]
        /\ charge_start' = [charge_start EXCEPT ![r] = Len(charge_events)]
        /\ UNCHANGED <<charge_since, charge_events>>
    BY <1>8 DEF Charges!Begin, Charges!Goes, Charges!StartIndex
  <2>2. ASSUME NEW s \in Charges!Runs
        PROVE  /\ charge_since[s] <= Len(charge_events) /\ charge_start'[s] <= Len(charge_events)
               /\ charge_at'[s] \notin Waiting => charge_since[s] <= charge_start'[s]
               /\ Charges!OwnCalls(s) \subseteq (charge_start'[s] + 1)..Len(charge_events)
               /\ charge_at'[s] \in Waiting => Charges!OwnCalls(s) = {}
    <3>1. CASE s = r
      BY <1>0, <1>n, <2>1, <3>1 DEF ChargeShape, StartOK, Waiting
    <3>2. CASE s # r
      BY <1>0, <1>n, <2>1, <3>2 DEF ChargeShape, StartOK, Waiting, From
    <3> QED BY <3>1, <3>2
  <2> QED BY <2>1, <2>2 DEF StartOK, From, Charges!OwnCalls
<1>9. ASSUME NEW r \in Charges!Runs, Charges!Work(r) PROVE StartOK'
  BY <1>9, <1>0, <1>w DEF Charges!Work, Charges!Goes, Charges!Moves,
                          Charges!calling, Charges!reports, ChargeShape, RunPlaces,
                          HoldsOK, Waiting
<1>10. ASSUME NEW r \in Charges!Runs, Charges!Release(r) PROVE StartOK'
  BY <1>10, <1>0, <1>w DEF Charges!Release, Charges!Goes, Charges!Moves,
                           Charges!calling, Charges!reports, ChargeShape, RunPlaces,
                           HoldsOK, Waiting
<1>11. ASSUME NEW r \in Charges!Runs, Charges!Summarize(r) PROVE StartOK'
  BY <1>11, <1>0, <1>w DEF Charges!Summarize, Charges!Goes, Charges!Moves,
                           Charges!calling, Charges!reports, ChargeShape, RunPlaces,
                           HoldsOK, Waiting
<1>12. ASSUME NEW r \in Charges!Runs, Charges!PersistRunHistory(r) PROVE StartOK'
  BY <1>12, <1>0, <1>w DEF Charges!PersistRunHistory, Charges!Goes, Charges!Moves,
                           Charges!calling, Charges!reports, ChargeShape, RunPlaces,
                           HoldsOK, Waiting
<1> QED BY <1>1, <1>2, <1>3, <1>4, <1>5, <1>6, <1>7, <1>8, <1>9, <1>10, <1>11, <1>12 DEF
   Charges!Next

\* The window of a run only grows.
LEMMA FromGrows ==
  ASSUME ChargeInv, Charges!Next, NEW r \in Charges!Runs, charge_start'[r] = charge_start[r]
  PROVE  From(r) \subseteq From(r)'
<1>1. charge_start[r] \in Nat
  BY DEF ChargeInv, ChargeShape
<1>2. Len(charge_events) \in Nat /\ Len(charge_events') \in Nat
      /\ Len(charge_events') >= Len(charge_events)
  BY EventsGrow
<1> QED BY <1>1, <1>2 DEF From

\* Every step keeps what is known of the summaries.
LEMMA SummaryKept ==
  ASSUME ChargeInv, Charges!Next
  PROVE  SummaryOK'
<1>0. ChargeShape /\ HoldsOK /\ SummaryOK
  BY DEF ChargeInv
<1>g. \A r \in Charges!Runs : charge_start'[r] = charge_start[r] => From(r) \subseteq From(r)'
  BY FromGrows
<1> USE ChargeConstants
<1>1. ASSUME NEW v \in Visitors, NEW listed \in BOOLEAN, NEW double \in BOOLEAN,
             NEW key \in BOOLEAN, Charges!Ask(v, listed, double, key)
      PROVE  SummaryOK'
  BY <1>1, <1>0, <1>g DEF Charges!Ask, Charges!Goes, Charges!Moves, Charges!calling,
                          Charges!reports, ChargeShape, RunPlaces, HoldsOK,
                          SummaryOK
<1>2. ASSUME NEW r \in Agents, Charges!AskInLoop(r) PROVE SummaryOK'
  BY <1>2, <1>0, <1>g DEF Charges!AskInLoop, Charges!Goes, Charges!Moves,
                          Charges!calling, Charges!reports, ChargeShape, RunPlaces,
                          HoldsOK, SummaryOK
<1>3. ASSUME NEW c \in Charges!Callers, NEW used \in BOOLEAN, Charges!Answered(c, used)
      PROVE  SummaryOK'
  BY <1>3, <1>0, <1>g DEF Charges!Answered, Charges!Goes, Charges!Moves,
                          Charges!calling, Charges!reports, ChargeShape, RunPlaces,
                          HoldsOK, SummaryOK
<1>4. ASSUME NEW c \in Charges!Callers, Charges!Bridge(c) PROVE SummaryOK'
  BY <1>4, <1>0, <1>g DEF Charges!Bridge, Charges!Goes, Charges!Moves,
                          Charges!calling, Charges!reports, ChargeShape, RunPlaces,
                          HoldsOK, SummaryOK
<1>5. ASSUME NEW c \in Charges!Callers, Charges!CallRaises(c) PROVE SummaryOK'
  BY <1>5, <1>0, <1>g DEF Charges!CallRaises, Charges!Goes, Charges!Moves,
                          Charges!calling, Charges!reports, ChargeShape, RunPlaces,
                          HoldsOK, SummaryOK
<1>6. ASSUME Charges!Switch PROVE SummaryOK'
  BY <1>6, <1>0, <1>g DEF Charges!Switch, Charges!Goes, Charges!Moves,
                          Charges!calling, Charges!reports, ChargeShape, RunPlaces,
                          HoldsOK, SummaryOK
<1>7. ASSUME NEW r \in Charges!Runs, Charges!Reserve(r) PROVE SummaryOK'
  BY <1>7, <1>0, <1>g DEF Charges!Reserve, Charges!Goes, Charges!Moves,
                          Charges!calling, Charges!reports, ChargeShape, RunPlaces,
                          HoldsOK, SummaryOK
<1>8. ASSUME NEW r \in Charges!Runs, Charges!Begin(r) PROVE SummaryOK'
  BY <1>8, <1>0, <1>g DEF Charges!Begin, Charges!Goes, Charges!Moves,
                          Charges!calling, Charges!reports, Charges!StartIndex,
                          ChargeShape, RunPlaces, HoldsOK, SummaryOK
<1>9. ASSUME NEW r \in Charges!Runs, Charges!Work(r) PROVE SummaryOK'
  BY <1>9, <1>0, <1>g DEF Charges!Work, Charges!Goes, Charges!Moves,
                          Charges!calling, Charges!reports, ChargeShape, RunPlaces,
                          HoldsOK, SummaryOK
<1>10. ASSUME NEW r \in Charges!Runs, Charges!Release(r) PROVE SummaryOK'
  BY <1>10, <1>0, <1>g DEF Charges!Release, Charges!Goes, Charges!Moves,
                           Charges!calling, Charges!reports, ChargeShape, RunPlaces,
                           HoldsOK, SummaryOK
<1>11. ASSUME NEW r \in Charges!Runs, Charges!Summarize(r) PROVE SummaryOK'
  <2>1. /\ charge_at[r] = "released" /\ charge_at' = [charge_at EXCEPT ![r] = "summarized"]
        /\ charge_streamed' = [charge_streamed EXCEPT ![r] = From(r)]
        /\ UNCHANGED <<charge_start, charge_events, charge_history>>
    BY <1>11 DEF Charges!Summarize, Charges!Goes, Charges!BuildUsageSummary, From
  <2>2. \A s \in Charges!Runs : From(s)' = From(s)
    BY <2>1 DEF From
  <2> QED BY <1>0, <2>1, <2>2 DEF SummaryOK, ChargeShape
<1>12. ASSUME NEW r \in Charges!Runs, Charges!PersistRunHistory(r) PROVE SummaryOK'
  <2>1. /\ charge_at[r] # "done" /\ charge_at' = [charge_at EXCEPT ![r] = "done"]
        /\ \A s \in Charges!Runs : s # r => charge_history'[s] = charge_history[s]
        /\ UNCHANGED <<charge_start, charge_events, charge_streamed>>
    BY <1>0, <1>12 DEF Charges!PersistRunHistory, Charges!Goes, ChargeShape
  <2>2. \A s \in Charges!Runs : From(s)' = From(s)
    BY <2>1 DEF From
  <2> QED BY <1>0, <2>1, <2>2 DEF SummaryOK, ChargeShape
<1> QED BY <1>1, <1>2, <1>3, <1>4, <1>5, <1>6, <1>7, <1>8, <1>9, <1>10, <1>11, <1>12 DEF
   Charges!Next

\* What is kept of a run that is done, or of one that is not.
LEMMA HistoryKept ==
  ASSUME ChargeInv, Charges!Next, NEW r \in Charges!Runs, charge_history'[r] # None
  PROVE  /\ Charges!OwnCalls(r)' \subseteq charge_history'[r]
         /\ charge_history'[r] \subseteq (charge_since'[r] + 1)..Len(charge_events')
         /\ charge_streamed'[r] # None => charge_streamed'[r] \subseteq charge_history'[r]
<1>0. ChargeShape /\ StartOK /\ SummaryOK /\ Charges!OwnCallsAreCharged
  BY DEF ChargeInv
<1>1. CASE charge_history'[r] = charge_history[r]
  <2>1. charge_history[r] # None /\ charge_at[r] = "done"
    BY <1>0, <1>1 DEF SummaryOK
  <2>2. charge_since'[r] = charge_since[r] /\ charge_streamed'[r] = charge_streamed[r]
    BY <1>0, <2>1 DEF Charges!Next, Charges!Ask, Charges!AskInLoop,
                      Charges!Answered,
       Charges!Bridge, Charges!CallRaises, Charges!Switch, Charges!Reserve, Charges!Begin, Charges!Work,
       Charges!Release, Charges!Summarize, Charges!PersistRunHistory, Charges!Goes,
       Charges!reports, ChargeShape
  <2>3. Charges!OwnCalls(r)' = Charges!OwnCalls(r)
    BY <2>1, OwnGrow
  <2>4. /\ Len(charge_events) \in Nat /\ Len(charge_events') \in Nat
        /\ Len(charge_events') >= Len(charge_events) /\ charge_since[r] \in Nat
    BY <1>0, EventsGrow DEF ChargeShape
  <2>5. (charge_since[r] + 1)..Len(charge_events) \subseteq (charge_since[r] + 1)..Len(charge_events')
    BY <2>4
  <2>6. /\ Charges!OwnCalls(r) \subseteq charge_history[r]
        /\ charge_history[r] \subseteq (charge_since[r] + 1)..Len(charge_events)
        /\ charge_streamed[r] # None => charge_streamed[r] \subseteq charge_history[r]
    BY <1>0, <2>1 DEF Charges!OwnCallsAreCharged
  <2> QED BY <1>1, <2>2, <2>3, <2>5, <2>6
<1>2. CASE charge_history'[r] # charge_history[r]
  <2>1. Charges!PersistRunHistory(r)
    BY <1>0, <1>2 DEF Charges!Next, Charges!Ask, Charges!AskInLoop,
                      Charges!Answered,
       Charges!Bridge, Charges!CallRaises, Charges!Switch, Charges!Reserve, Charges!Begin, Charges!Work,
       Charges!Release, Charges!Summarize, Charges!PersistRunHistory,
       Charges!reports, ChargeShape
  <2>2. /\ charge_history' = [charge_history EXCEPT ![r] = From(r)]
        /\ charge_at[r] \in {"summarized", "released"}
        /\ UNCHANGED <<charge_start, charge_events, charge_streamed, charge_since>>
    BY <1>2, <2>1 DEF Charges!PersistRunHistory, Charges!Goes,
                      Charges!BuildUsageSummary, From
  <2>3. charge_history'[r] = From(r)
    BY <1>0, <2>2 DEF ChargeShape
  <2>4. Charges!OwnCalls(r)' = Charges!OwnCalls(r)
    BY <2>2 DEF Charges!OwnCalls
  <2>5. Charges!OwnCalls(r) \subseteq From(r) /\ charge_since[r] <= charge_start[r]
    BY <1>0, <2>2 DEF StartOK, Waiting
  <2>6. From(r) \subseteq (charge_since[r] + 1)..Len(charge_events)
    <3>1. charge_since[r] \in Nat /\ charge_start[r] \in Nat
      BY <1>0 DEF ChargeShape
    <3>2. Len(charge_events) \in Nat
      BY EventsGrow
    <3> QED BY <2>5, <3>1, <3>2 DEF From
  <2>7. charge_streamed[r] # None => charge_streamed[r] \subseteq From(r)
    BY <1>0 DEF SummaryOK
  <2> QED BY <2>2, <2>3, <2>4, <2>5, <2>6, <2>7
<1> QED BY <1>1, <1>2

\* Every row of a run's own calls names the run.
LEMMA RowsKept ==
  ASSUME ChargeInv, Charges!Next
  PROVE  \A row \in charge_rows' : row.by \in Agents => row.run = row.by
<1>0. ChargeShape /\ HoldsOK /\ \A row \in charge_rows : row.by \in Agents => row.run = row.by
  BY DEF ChargeInv, Charges!OwnCallsAreCharged
<1>1. CASE \E c \in Charges!Callers : Charges!Bridge(c)
  <2>1. PICK c \in Charges!Callers : Charges!Bridge(c)
    BY <1>1
  <2>2. c \in Agents => charge_slot = c
    BY <1>0, <2>1, ChargeConstants DEF Charges!Bridge, Charges!Moves, HoldsOK
  <2> QED BY <1>0, <2>1, <2>2 DEF Charges!Bridge
<1>2. CASE charge_rows' = charge_rows
  BY <1>0, <1>2
<1>3. charge_rows' = charge_rows \/ \E c \in Charges!Callers : Charges!Bridge(c)
  BY DEF Charges!Next, Charges!Ask, Charges!AskInLoop, Charges!Answered,
       Charges!CallRaises, Charges!Switch, Charges!Reserve, Charges!Begin, Charges!Work,
       Charges!Release, Charges!Summarize, Charges!PersistRunHistory, Charges!reports
<1> QED BY <1>1, <1>2, <1>3

\* The invariant holds at the start.
LEMMA ChargeInit == Charges!Init => ChargeInv
<1> SUFFICES ASSUME Charges!Init PROVE ChargeInv
  OBVIOUS
<1>1. ChargeShape
  <2>1. charge_events \in Seq([by : Charges!Callers, real : {TRUE}])
    BY DEF Charges!Init
  <2> QED BY <2>1 DEF Charges!Init, ChargeShape, RunPlaces
<1>2. Len(charge_events) = 0
  BY DEF Charges!Init
<1>3. HoldsOK
  BY ChargeConstants DEF Charges!Init, HoldsOK
<1>4. \A r : Charges!OwnCalls(r) = {}
  BY <1>2 DEF Charges!OwnCalls
<1>5. StartOK
  BY <1>2, <1>4 DEF Charges!Init, StartOK, Waiting
<1>6. SummaryOK
  BY DEF Charges!Init, SummaryOK
<1>7. Charges!OwnCallsAreCharged
  BY <1>2 DEF Charges!Init, Charges!OwnCallsAreCharged
<1> QED BY <1>1, <1>3, <1>5, <1>6, <1>7 DEF ChargeInv

\* So every step keeps the invariant of the charges.
LEMMA ChargeStep ==
  ASSUME ChargeInv, Charges!Next \/ UNCHANGED charging
  PROVE  ChargeInv'
<1>1. CASE Charges!Next
  <2>1. ChargeShape' /\ HoldsOK' /\ StartOK' /\ SummaryOK'
    BY <1>1, ChargeShapeKept, HoldsKept, StartKept, SummaryKept
  <2>2. \A i \in 1..Len(charge_events') : charge_events'[i].real
    <3> DEFINE Event == [by : Charges!Callers, real : {TRUE}]
    <3>1. charge_events' \in Seq(Event)
      BY <2>1 DEF ChargeShape
    <3>2. ASSUME NEW i \in 1..Len(charge_events') PROVE charge_events'[i].real \in {TRUE}
      <4>1. charge_events'[i] \in Event
        <5> HIDE DEF Event
        <5> QED BY <3>1
      <4> QED BY <4>1
    <3>3. \A i \in 1..Len(charge_events') : charge_events'[i].real = TRUE
      BY <3>2
    <3> QED BY <3>3, Zenon
  <2>3. Charges!OwnCallsAreCharged'
    BY <1>1, <2>2, HistoryKept, RowsKept DEF Charges!OwnCallsAreCharged
  <2> QED BY <2>1, <2>3 DEF ChargeInv
<1>2. CASE UNCHANGED charging
  BY <1>2 DEF charging, ChargeInv, ChargeShape, HoldsOK, StartOK, SummaryOK, From,
       Charges!OwnCallsAreCharged, Charges!OwnCalls
<1> QED BY <1>1, <1>2

\* Whose calls are under way, since when, and what is kept of them (reasoning_gateway.py,
\* metrics.py, web_server._persist_run_history).
THEOREM Charged == Spec => [](part = "charge" => ChargeInv)
<1>1. Init => (part = "charge" => ChargeInv)
  BY ChargeInit DEF Init
<1>2. (part = "charge" => ChargeInv) /\ [Next]_vars => (part = "charge" => ChargeInv)'
  <2> SUFFICES ASSUME part = "charge" => ChargeInv, [Next]_vars, part' = "charge"
               PROVE  ChargeInv'
    OBVIOUS
  <2>1. part = "charge" /\ (Charges!Next \/ UNCHANGED charging)
    BY DEF Next, vars
  <2> QED BY <2>1, ChargeStep
<1> QED BY <1>1, <1>2, PTL DEF Spec

\* For any number of runs, visitors and calls: a run is charged all of its own calls and
\* none from before it had the slot, and no call of a test double is charged to anybody
\* (web_server._on_model_usage and _persist_run_history).
THEOREM OwnCharges == Spec => []OwnCallsAreCharged
<1>1. (part = "charge" => ChargeInv) => OwnCallsAreCharged
  BY DEF ChargeInv, OwnCallsAreCharged
<1> QED BY <1>1, Charged, PTL

-----------------------------------------------------------------------------
(* The match with a job description *)

MatchPlaces == {"idle", "extract", "shortlist", "classify", "done"}
MatchShape ==
  /\ match_at \in [Matches -> MatchPlaces]
  /\ DOMAIN match_reqs = Matches /\ DOMAIN match_short = Matches
  /\ DOMAIN match_rows = Matches /\ DOMAIN match_status = Matches
  /\ match_count \in Nat /\ match_days \in Nat /\ match_calls \in Nat

\* A shortlist names capabilities of the registry.
ListedOK ==
  \A m \in Matches : match_at[m] = "classify" =>
    \A r \in match_reqs[m] : match_short[m][r] \subseteq Capabilities

\* The rows of a match that is done.
EarnedOK(m) ==
  /\ DOMAIN match_rows[m] = match_reqs[m]
  /\ \A r \in match_reqs[m] : LET row == match_rows[m][r] IN
       /\ row.ids \subseteq match_short[m][r]
       /\ row.status > 1 => row.ids # {}
       /\ row.status = 3 => \E c \in row.ids : LevelOf[c] > 1
MatchedOK ==
  \A m \in Matches : match_status[m] = "MATCHED" => match_at[m] = "done" /\ EarnedOK(m)

\* What is under way may still call the model, twice or once.
Twice == {m \in Matches : match_at[m] = "extract"}
Once  == {m \in Matches : match_at[m] \in {"shortlist", "classify"}}
SpentOK ==
  /\ IsFiniteSet(Twice) /\ IsFiniteSet(Once) /\ match_count <= DailyCap
  /\ match_calls + 2 * Cardinality(Twice) + Cardinality(Once)
       <= 2 * (DailyCap * match_days + match_count)

MatchInv == MatchShape /\ ListedOK /\ MatchedOK /\ SpentOK

-----------------------------------------------------------------------------

\* What is assumed of the constants.
LEMMA MatchConstants ==
  /\ LevelOf \in [Capabilities -> 1..4] /\ DailyCap \in Nat /\ None # "MATCHED"
<1>1. Match!JdAssumption
  BY PlatformAssumption DEF PlatformAssumption
<1>2. Len(Match!Levels) = 4
  BY DEF Match!Levels
<1> QED BY <1>1, <1>2 DEF Match!JdAssumption

\* A row claims no more than the capabilities it names have on record.
LEMMA RowIsEarned ==
  ASSUME NEW m, NEW r, NEW a, match_short[m][r] \subseteq Capabilities
  PROVE  LET row == Match!Row(m, r, a) IN
           /\ row.ids \subseteq match_short[m][r]
           /\ row.status > 1 => row.ids # {}
           /\ row.status = 3 => \E c \in row.ids : LevelOf[c] > 1
<1> DEFINE ids == Match!Valid(m, r, a)
           best == Match!Best(ids)
           earned == IF ids = {} THEN 1
                     ELSE IF a.status > Match!MostFor(best) THEN Match!MostFor(best) ELSE a.status
           row == Match!Row(m, r, a)
<1>1. ids \subseteq match_short[m][r]
  BY DEF Match!Valid
<1>2. row.status = earned /\ row.ids = IF earned = 1 THEN {} ELSE ids
  BY DEF Match!Row
<1>3. ASSUME ids # {}, \A c \in ids : ~(LevelOf[c] > 1) PROVE best = 1
  <2>1. \A c \in ids : LevelOf[c] = 1
    BY <1>1, <1>3, MatchConstants
  <2>2. {LevelOf[c] : c \in ids} = {1}
    BY <1>3, <2>1
  <2>3. Match!Max({1}) = 1
    <3>1. \E x \in {1} : \A y \in {1} : x >= y
      OBVIOUS
    <3> QED BY <3>1 DEF Match!Max
  <2> QED BY <2>2, <2>3 DEF Match!Best
<1>4. earned = 3 => ids # {} /\ best # 1
  BY DEF Match!MostFor
<1> HIDE DEF earned, ids, best, row
<1>5. row.ids \subseteq match_short[m][r]
  BY <1>1, <1>2
<1>6. row.status > 1 => row.ids # {}
  <2>1. ids = {} => earned = 1
    BY DEF earned
  <2> QED BY <1>2, <2>1
<1>7. row.status = 3 => \E c \in row.ids : LevelOf[c] > 1
  BY <1>2, <1>3, <1>4
<1> QED BY <1>5, <1>6, <1>7 DEF row

\* Every step keeps the shape.
LEMMA MatchShapeKept ==
  ASSUME MatchInv, Match!Next
  PROVE  MatchShape'
<1> USE DEF MatchInv, MatchShape, MatchPlaces
<1>1. ASSUME NEW m \in Matches, Match!Admit(m) PROVE MatchShape'
  BY <1>1 DEF Match!Admit, Match!Counted, Match!Go, Match!Refuse, Match!budget
<1>2. ASSUME NEW m \in Matches, Match!Extract(m) PROVE MatchShape'
  BY <1>2 DEF Match!Extract, Match!Go, Match!Refuse, Match!budget
<1>3. ASSUME NEW m \in Matches, Match!Shortlist(m) PROVE MatchShape'
  BY <1>3 DEF Match!Shortlist, Match!Go, Match!Refuse, Match!budget
<1>4. ASSUME NEW m \in Matches, Match!Classify(m) PROVE MatchShape'
  BY <1>4 DEF Match!Classify, Match!Go, Match!Refuse, Match!budget
<1>5. ASSUME Match!CooldownPasses PROVE MatchShape'
  BY <1>5 DEF Match!CooldownPasses, Match!Go, Match!Refuse, Match!budget
<1>6. ASSUME Match!Midnight PROVE MatchShape'
  BY <1>6 DEF Match!Midnight, Match!Go, Match!Refuse, Match!budget
<1> QED BY <1>1, <1>2, <1>3, <1>4, <1>5, <1>6 DEF Match!Next

\* Every step lists rows of the shortlist.
LEMMA ListedKept ==
  ASSUME MatchInv, Match!Next
  PROVE  ListedOK'
<1> USE DEF MatchInv, MatchShape, MatchPlaces, ListedOK
<1>1. ASSUME NEW m \in Matches, Match!Admit(m) PROVE ListedOK'
  BY <1>1 DEF Match!Admit, Match!Go, Match!Refuse, Match!budget
<1>2. ASSUME NEW m \in Matches, Match!Extract(m) PROVE ListedOK'
  BY <1>2 DEF Match!Extract, Match!Go, Match!Refuse, Match!budget
<1>3. ASSUME NEW m \in Matches, Match!Shortlist(m) PROVE ListedOK'
  <2>1. PICK s \in [match_reqs[m] -> Match!kSubset(ShortlistSize, Capabilities)] :
          match_short' = [match_short EXCEPT ![m] = s]
    BY <1>3 DEF Match!Shortlist
  <2>2. match_short'[m] = s /\ \A r \in match_reqs[m] : s[r] \subseteq Capabilities
    BY <2>1 DEF Match!kSubset
  <2>3. \A n \in Matches : n # m => match_short'[n] = match_short[n] /\ match_at'[n] = match_at[n]
    BY <1>3, <2>1 DEF Match!Shortlist, Match!Go, Match!Refuse
  <2>4. UNCHANGED match_reqs
    BY <1>3 DEF Match!Shortlist
  <2> QED BY <2>2, <2>3, <2>4
<1>4. ASSUME NEW m \in Matches, Match!Classify(m) PROVE ListedOK'
  BY <1>4 DEF Match!Classify, Match!Go, Match!Refuse, Match!budget
<1>5. ASSUME Match!CooldownPasses PROVE ListedOK'
  BY <1>5 DEF Match!CooldownPasses, Match!Go, Match!Refuse, Match!budget
<1>6. ASSUME Match!Midnight PROVE ListedOK'
  BY <1>6 DEF Match!Midnight, Match!Go, Match!Refuse, Match!budget
<1> QED BY <1>1, <1>2, <1>3, <1>4, <1>5, <1>6 DEF Match!Next

\* Whatever is done to one request: the others keep their answers.
LEMMA MatchedKept ==
  ASSUME MatchInv, Match!Next
  PROVE  MatchedOK'
<1>0. MatchShape /\ ListedOK /\ MatchedOK
  BY DEF MatchInv
<1> USE MatchConstants
<1>a. ASSUME NEW m \in Matches, match_at[m] # "done",
             \A n \in Matches : n # m =>
               /\ match_at'[n] = match_at[n] /\ match_status'[n] = match_status[n]
               /\ match_reqs'[n] = match_reqs[n] /\ match_short'[n] = match_short[n]
               /\ match_rows'[n] = match_rows[n],
             match_status'[m] = "MATCHED" => match_at'[m] = "done" /\ EarnedOK(m)'
      PROVE  MatchedOK'
  <2>1. ASSUME NEW n \in Matches, match_status'[n] = "MATCHED"
        PROVE  match_at'[n] = "done" /\ EarnedOK(n)'
    <3>1. CASE n = m
      BY <1>a, <2>1, <3>1
    <3>2. CASE n # m
      <4>1. match_at[n] = "done" /\ EarnedOK(n)
        BY <1>0, <1>a, <2>1, <3>2 DEF MatchedOK
      <4> QED BY <1>a, <3>2, <4>1 DEF EarnedOK
    <3> QED BY <3>1, <3>2
  <2> QED BY <2>1 DEF MatchedOK
<1>1. ASSUME NEW m \in Matches, Match!Admit(m) PROVE MatchedOK'
  <2>1. /\ match_at[m] # "done" /\ UNCHANGED match_rows
        /\ \A n \in Matches : n # m =>
             /\ match_at'[n] = match_at[n] /\ match_status'[n] = match_status[n]
             /\ match_reqs'[n] = match_reqs[n] /\ match_short'[n] = match_short[n]
        /\ match_status'[m] = match_status[m] \/ match_status'[m] # "MATCHED"
    BY <1>0, <1>1 DEF Match!Admit, Match!Go, Match!Refuse, MatchShape, MatchPlaces
  <2>2. match_status'[m] # "MATCHED"
    BY <1>0, <2>1 DEF MatchedOK
  <2> QED BY <1>a, <2>1, <2>2
<1>2. ASSUME NEW m \in Matches, Match!Extract(m) PROVE MatchedOK'
  <2>1. /\ match_at[m] # "done" /\ UNCHANGED match_rows
        /\ \A n \in Matches : n # m =>
             /\ match_at'[n] = match_at[n] /\ match_status'[n] = match_status[n]
             /\ match_reqs'[n] = match_reqs[n] /\ match_short'[n] = match_short[n]
        /\ match_status'[m] = match_status[m] \/ match_status'[m] # "MATCHED"
    BY <1>0, <1>2 DEF Match!Extract, Match!Go, Match!Refuse, MatchShape, MatchPlaces
  <2>2. match_status'[m] # "MATCHED"
    BY <1>0, <2>1 DEF MatchedOK
  <2> QED BY <1>a, <2>1, <2>2
<1>3. ASSUME NEW m \in Matches, Match!Shortlist(m) PROVE MatchedOK'
  <2>1. /\ match_at[m] # "done" /\ UNCHANGED match_rows
        /\ \A n \in Matches : n # m =>
             /\ match_at'[n] = match_at[n] /\ match_status'[n] = match_status[n]
             /\ match_reqs'[n] = match_reqs[n] /\ match_short'[n] = match_short[n]
        /\ match_status'[m] = match_status[m] \/ match_status'[m] # "MATCHED"
    BY <1>0, <1>3 DEF Match!Shortlist, Match!Go, Match!Refuse, MatchShape,
                      MatchPlaces
  <2>2. match_status'[m] # "MATCHED"
    BY <1>0, <2>1 DEF MatchedOK
  <2> QED BY <1>a, <2>1, <2>2
<1>4. ASSUME NEW m \in Matches, Match!Classify(m) PROVE MatchedOK'
  <2>1. /\ match_at[m] = "classify" /\ match_at' = [match_at EXCEPT ![m] = "done"]
        /\ UNCHANGED <<match_reqs, match_short>>
        /\ \A n \in Matches : n # m =>
             /\ match_at'[n] = match_at[n] /\ match_status'[n] = match_status[n]
             /\ match_rows'[n] = match_rows[n]
    BY <1>0, <1>4 DEF Match!Classify, Match!Go, Match!Refuse, MatchShape
  <2>2. match_at'[m] = "done"
    BY <1>0, <2>1 DEF MatchShape
  <2>3. ASSUME match_status'[m] = "MATCHED" PROVE EarnedOK(m)'
    <3>1. CASE Match!Refuse(m, "classify", "TEMPORARILY_UNAVAILABLE")
      BY <1>0, <2>3, <3>1 DEF Match!Refuse, MatchShape
    <3>2. CASE ~Match!Refuse(m, "classify", "TEMPORARILY_UNAVAILABLE")
      <4> DEFINE Answer(said) ==
                   [r \in match_reqs[m] |-> Match!Row(m, r, Match!FirstOf(said, r))]
      <4>0. PICK shown \in {Answer(said) : said \in Match!SeqOf(Match!Assessments, 2)} :
              match_rows' = [match_rows EXCEPT ![m] = shown]
        BY <1>4, <3>2 DEF Match!Classify
      <4>1. PICK said : shown = Answer(said)
        BY <4>0
      <4>2. match_rows'[m] = [r \in match_reqs[m] |-> Match!Row(m, r, Match!FirstOf(said, r))]
        BY <1>0, <4>0, <4>1 DEF MatchShape
      <4>3. \A r \in match_reqs[m] : match_short[m][r] \subseteq Capabilities
        BY <1>0, <2>1 DEF ListedOK
      <4>4. \A r \in match_reqs[m] : match_rows'[m][r] = Match!Row(m, r, Match!FirstOf(said, r))
        BY <4>2
      <4>5. DOMAIN match_rows'[m] = match_reqs[m]
        BY <4>2
      <4>6. ASSUME NEW r \in match_reqs[m]
            PROVE  LET row == match_rows'[m][r] IN
                     /\ row.ids \subseteq match_short[m][r]
                     /\ row.status > 1 => row.ids # {}
                     /\ row.status = 3 => \E c \in row.ids : LevelOf[c] > 1
        BY <4>3, <4>4, RowIsEarned
      <4> QED BY <2>1, <4>5, <4>6 DEF EarnedOK
    <3> QED BY <3>1, <3>2
  <2> QED BY <1>a, <2>1, <2>2, <2>3
<1>5. ASSUME Match!CooldownPasses PROVE MatchedOK'
  BY <1>0, <1>5 DEF Match!CooldownPasses, MatchedOK, EarnedOK
<1>6. ASSUME Match!Midnight PROVE MatchedOK'
  BY <1>0, <1>6 DEF Match!Midnight, MatchedOK, EarnedOK
<1> QED BY <1>1, <1>2, <1>3, <1>4, <1>5, <1>6 DEF Match!Next

\* The invariant holds at the start.
LEMMA MatchInit == Match!Init => MatchInv
<1> SUFFICES ASSUME Match!Init PROVE MatchInv
  OBVIOUS
<1>1. MatchShape /\ ListedOK /\ MatchedOK
  BY MatchConstants DEF Match!Init, MatchShape, MatchPlaces, ListedOK, MatchedOK
<1>2. Twice = {} /\ Once = {}
  BY DEF Match!Init, Twice, Once
<1>3. SpentOK
  <2>1. Cardinality({}) = 0 /\ IsFiniteSet({})
    BY FS_EmptySet
  <2>2. match_count = 0 /\ match_days = 0 /\ match_calls = 0
    BY DEF Match!Init
  <2>3. DailyCap * 0 = 0 /\ DailyCap >= 0
    BY MatchConstants
  <2> QED BY <1>2, <2>1, <2>2, <2>3 DEF SpentOK
<1> QED BY <1>1, <1>3 DEF MatchInv

\* A match more or less.
LEMMA MatchCount ==
  ASSUME NEW S, IsFiniteSet(S), NEW m
  PROVE  /\ m \notin S => IsFiniteSet(S \cup {m}) /\ Cardinality(S \cup {m}) = Cardinality(S) + 1
         /\ m \in S => IsFiniteSet(S \ {m}) /\ Cardinality(S \ {m}) = Cardinality(S) - 1
<1>1. Cardinality(S) \in Nat
  BY FS_CardinalityType
<1>2. IsFiniteSet(S \cup {m}) /\ (m \notin S => Cardinality(S \cup {m}) = Cardinality(S) + 1)
  BY <1>1, FS_AddElement
<1>3. IsFiniteSet(S \ {m}) /\ (m \in S => Cardinality(S \ {m}) = Cardinality(S) - 1)
  BY <1>1, FS_RemoveElement
<1> QED BY <1>2, <1>3

\* Every step stays within the calls the budget allows.
LEMMA SpentKept ==
  ASSUME MatchInv, Match!Next
  PROVE  SpentOK'
<1> DEFINE two == Cardinality(Twice)
           one == Cardinality(Once)
           day == DailyCap * match_days
<1>a. MatchShape /\ SpentOK /\ DailyCap \in Nat
  BY MatchConstants DEF MatchInv
<1>b. two \in Nat /\ one \in Nat /\ day \in Nat
  <2>1. two \in Nat /\ one \in Nat
    BY <1>a, FS_CardinalityType DEF SpentOK
  <2> QED BY <1>a, <2>1 DEF MatchShape
<1>c. /\ IsFiniteSet(Twice) /\ IsFiniteSet(Once) /\ match_count <= DailyCap
      /\ match_calls + 2 * two + one <= 2 * (day + match_count)
      /\ match_count \in Nat /\ match_calls \in Nat /\ match_days \in Nat
      /\ DOMAIN match_at = Matches
  BY <1>a DEF SpentOK, MatchShape
<1>1. ASSUME NEW m \in Matches, Match!Admit(m) PROVE SpentOK'
  <2>1. CASE Match!Go(m, "idle", "extract")
    <3>1. match_at' = [match_at EXCEPT ![m] = "extract"] /\ match_at[m] = "idle"
      BY <2>1 DEF Match!Go
    <3>2. Twice' = Twice \cup {m} /\ Once' = Once
      BY <1>c, <3>1 DEF Twice, Once
    <3>3. /\ m \notin Twice /\ m \notin Once
      BY <1>c, <3>1 DEF Twice, Once
    <3>4. /\ IsFiniteSet(Twice') /\ IsFiniteSet(Once')
          /\ Cardinality(Twice') = two + 1 /\ Cardinality(Once') = one
      BY <1>c, <3>2, <3>3, MatchCount
    <3>5. /\ match_days' = match_days /\ match_count' = match_count + 1 /\ match_count < DailyCap
          /\ match_calls' = match_calls
      BY <1>c, <1>1, <2>1, <3>1 DEF Match!Admit, Match!Go, Match!Refuse,
                                    Match!budget, Match!Counted
    <3>6. /\ match_calls' + 2 * Cardinality(Twice') + Cardinality(Once')
               <= 2 * (day + match_count')
          /\ match_count' <= DailyCap
      <4> HIDE DEF two, one, day
      <4> QED BY <1>a, <1>b, <1>c, <3>4, <3>5
    <3> QED BY <3>4, <3>5, <3>6 DEF SpentOK
  <2>2. CASE Match!Go(m, "idle", "done")
    <3>1. match_at' = [match_at EXCEPT ![m] = "done"] /\ match_at[m] = "idle"
      BY <2>2 DEF Match!Go
    <3>2. Twice' = Twice /\ Once' = Once
      BY <1>c, <3>1 DEF Twice, Once
    <3>3. /\ m \notin Twice /\ m \notin Once
      BY <1>c, <3>1 DEF Twice, Once
    <3>4. /\ IsFiniteSet(Twice') /\ IsFiniteSet(Once')
          /\ Cardinality(Twice') = two /\ Cardinality(Once') = one
      BY <1>c, <3>2, <3>3, MatchCount
    <3>5. /\ match_days' = match_days /\ match_count' = match_count
          /\ match_calls' = match_calls
      BY <1>c, <1>1, <2>2, <3>1 DEF Match!Admit, Match!Go, Match!Refuse,
                                    Match!budget, Match!Counted
    <3>6. /\ match_calls' + 2 * Cardinality(Twice') + Cardinality(Once')
               <= 2 * (day + match_count')
          /\ match_count' <= DailyCap
      <4> HIDE DEF two, one, day
      <4> QED BY <1>a, <1>b, <1>c, <3>4, <3>5
    <3> QED BY <3>4, <3>5, <3>6 DEF SpentOK
  <2> QED BY <1>1, <2>1, <2>2 DEF Match!Admit, Match!Refuse
<1>2. ASSUME NEW m \in Matches, Match!Extract(m) PROVE SpentOK'
  <2>1. CASE Match!Go(m, "extract", "shortlist")
    <3>1. match_at' = [match_at EXCEPT ![m] = "shortlist"] /\ match_at[m] = "extract"
      BY <2>1 DEF Match!Go
    <3>2. Twice' = Twice \ {m} /\ Once' = Once \cup {m}
      BY <1>c, <3>1 DEF Twice, Once
    <3>3. /\ m \in Twice /\ m \notin Once
      BY <1>c, <3>1 DEF Twice, Once
    <3>4. /\ IsFiniteSet(Twice') /\ IsFiniteSet(Once')
          /\ Cardinality(Twice') = two - 1 /\ Cardinality(Once') = one + 1
      BY <1>c, <3>2, <3>3, MatchCount
    <3>5. /\ match_days' = match_days /\ match_count' = match_count
          /\ (match_calls' = match_calls \/ match_calls' = match_calls + 1)
      BY <1>c, <1>2, <2>1, <3>1 DEF Match!Extract, Match!Go, Match!Refuse,
                                    Match!budget, Match!Counted
    <3>6. /\ match_calls' + 2 * Cardinality(Twice') + Cardinality(Once')
               <= 2 * (day + match_count')
          /\ match_count' <= DailyCap
      <4> HIDE DEF two, one, day
      <4> QED BY <1>a, <1>b, <1>c, <3>4, <3>5
    <3> QED BY <3>4, <3>5, <3>6 DEF SpentOK
  <2>2. CASE Match!Go(m, "extract", "done")
    <3>1. match_at' = [match_at EXCEPT ![m] = "done"] /\ match_at[m] = "extract"
      BY <2>2 DEF Match!Go
    <3>2. Twice' = Twice \ {m} /\ Once' = Once
      BY <1>c, <3>1 DEF Twice, Once
    <3>3. /\ m \in Twice /\ m \notin Once
      BY <1>c, <3>1 DEF Twice, Once
    <3>4. /\ IsFiniteSet(Twice') /\ IsFiniteSet(Once')
          /\ Cardinality(Twice') = two - 1 /\ Cardinality(Once') = one
      BY <1>c, <3>2, <3>3, MatchCount
    <3>5. /\ match_days' = match_days /\ match_count' = match_count
          /\ (match_calls' = match_calls \/ match_calls' = match_calls + 1)
      BY <1>c, <1>2, <2>2, <3>1 DEF Match!Extract, Match!Go, Match!Refuse,
                                    Match!budget, Match!Counted
    <3>6. /\ match_calls' + 2 * Cardinality(Twice') + Cardinality(Once')
               <= 2 * (day + match_count')
          /\ match_count' <= DailyCap
      <4> HIDE DEF two, one, day
      <4> QED BY <1>a, <1>b, <1>c, <3>4, <3>5
    <3> QED BY <3>4, <3>5, <3>6 DEF SpentOK
  <2> QED BY <1>2, <2>1, <2>2 DEF Match!Extract, Match!Refuse
<1>3. ASSUME NEW m \in Matches, Match!Shortlist(m) PROVE SpentOK'
  <2>1. CASE Match!Go(m, "shortlist", "classify")
    <3>1. match_at' = [match_at EXCEPT ![m] = "classify"] /\ match_at[m] = "shortlist"
      BY <2>1 DEF Match!Go
    <3>2. Twice' = Twice /\ Once' = Once
      BY <1>c, <3>1 DEF Twice, Once
    <3>3. /\ m \notin Twice /\ m \in Once
      BY <1>c, <3>1 DEF Twice, Once
    <3>4. /\ IsFiniteSet(Twice') /\ IsFiniteSet(Once')
          /\ Cardinality(Twice') = two /\ Cardinality(Once') = one
      BY <1>c, <3>2, <3>3, MatchCount
    <3>5. /\ match_days' = match_days /\ match_count' = match_count
          /\ match_calls' = match_calls
      BY <1>c, <1>3, <2>1, <3>1 DEF Match!Shortlist, Match!Go, Match!Refuse,
                                    Match!budget, Match!Counted
    <3>6. /\ match_calls' + 2 * Cardinality(Twice') + Cardinality(Once')
               <= 2 * (day + match_count')
          /\ match_count' <= DailyCap
      <4> HIDE DEF two, one, day
      <4> QED BY <1>a, <1>b, <1>c, <3>4, <3>5
    <3> QED BY <3>4, <3>5, <3>6 DEF SpentOK
  <2>2. CASE Match!Go(m, "shortlist", "done")
    <3>1. match_at' = [match_at EXCEPT ![m] = "done"] /\ match_at[m] = "shortlist"
      BY <2>2 DEF Match!Go
    <3>2. Twice' = Twice /\ Once' = Once \ {m}
      BY <1>c, <3>1 DEF Twice, Once
    <3>3. /\ m \notin Twice /\ m \in Once
      BY <1>c, <3>1 DEF Twice, Once
    <3>4. /\ IsFiniteSet(Twice') /\ IsFiniteSet(Once')
          /\ Cardinality(Twice') = two /\ Cardinality(Once') = one - 1
      BY <1>c, <3>2, <3>3, MatchCount
    <3>5. /\ match_days' = match_days /\ match_count' = match_count
          /\ match_calls' = match_calls
      BY <1>c, <1>3, <2>2, <3>1 DEF Match!Shortlist, Match!Go, Match!Refuse,
                                    Match!budget, Match!Counted
    <3>6. /\ match_calls' + 2 * Cardinality(Twice') + Cardinality(Once')
               <= 2 * (day + match_count')
          /\ match_count' <= DailyCap
      <4> HIDE DEF two, one, day
      <4> QED BY <1>a, <1>b, <1>c, <3>4, <3>5
    <3> QED BY <3>4, <3>5, <3>6 DEF SpentOK
  <2> QED BY <1>3, <2>1, <2>2 DEF Match!Shortlist, Match!Refuse
<1>4. ASSUME NEW m \in Matches, Match!Classify(m) PROVE SpentOK'
  <2>1. CASE Match!Go(m, "classify", "done")
    <3>1. match_at' = [match_at EXCEPT ![m] = "done"] /\ match_at[m] = "classify"
      BY <2>1 DEF Match!Go
    <3>2. Twice' = Twice /\ Once' = Once \ {m}
      BY <1>c, <3>1 DEF Twice, Once
    <3>3. /\ m \notin Twice /\ m \in Once
      BY <1>c, <3>1 DEF Twice, Once
    <3>4. /\ IsFiniteSet(Twice') /\ IsFiniteSet(Once')
          /\ Cardinality(Twice') = two /\ Cardinality(Once') = one - 1
      BY <1>c, <3>2, <3>3, MatchCount
    <3>5. /\ match_days' = match_days /\ match_count' = match_count
          /\ (match_calls' = match_calls \/ match_calls' = match_calls + 1)
      BY <1>c, <1>4, <2>1, <3>1 DEF Match!Classify, Match!Go, Match!Refuse,
                                    Match!budget, Match!Counted
    <3>6. /\ match_calls' + 2 * Cardinality(Twice') + Cardinality(Once')
               <= 2 * (day + match_count')
          /\ match_count' <= DailyCap
      <4> HIDE DEF two, one, day
      <4> QED BY <1>a, <1>b, <1>c, <3>4, <3>5
    <3> QED BY <3>4, <3>5, <3>6 DEF SpentOK
  <2> QED BY <1>4, <2>1 DEF Match!Classify, Match!Refuse
<1>5. ASSUME Match!CooldownPasses PROVE SpentOK'
  <2>1. Twice' = Twice /\ Once' = Once /\ UNCHANGED <<match_count, match_days, match_calls>>
    BY <1>5 DEF Match!CooldownPasses, Twice, Once
  <2> QED BY <1>b, <1>c, <2>1 DEF SpentOK
<1>6. ASSUME Match!Midnight PROVE SpentOK'
  <2>1. /\ Twice' = Twice /\ Once' = Once /\ UNCHANGED match_calls
        /\ match_days' = match_days + 1 /\ match_count' = 0
    BY <1>6 DEF Match!Midnight, Twice, Once
  <2>2. DailyCap * match_days' = day + DailyCap
    BY <1>a, <1>c, <2>1
  <2>3. match_calls + 2 * two + one <= 2 * (day + DailyCap)
    BY <1>a, <1>b, <1>c
  <2>4. Cardinality(Twice') = two /\ Cardinality(Once') = one
    BY <2>1
  <2> HIDE DEF two, one, day
  <2>5. match_calls' + 2 * Cardinality(Twice') + Cardinality(Once')
          <= 2 * (DailyCap * match_days' + match_count')
    <3> HIDE DEF two, one, day
    <3>1. match_calls' + 2 * two + one <= 2 * ((day + DailyCap) + 0)
      BY <1>a, <1>b, <1>c, <2>1, <2>3
    <3> QED BY <2>1, <2>2, <2>4, <3>1
  <2> QED BY <1>a, <1>c, <2>1, <2>5 DEF SpentOK
<1> QED BY <1>1, <1>2, <1>3, <1>4, <1>5, <1>6 DEF Match!Next

\* So every step keeps the invariant of the matches.
LEMMA MatchStep ==
  ASSUME MatchInv, Match!Next \/ UNCHANGED Match!vars
  PROVE  MatchInv'
<1>1. CASE Match!Next
  <2>1. MatchShape' /\ ListedOK'
    BY <1>1, MatchShapeKept, ListedKept
  <2>2. MatchedOK'
    BY <1>1, MatchedKept
  <2>3. SpentOK'
    BY <1>1, SpentKept
  <2> QED BY <2>1, <2>2, <2>3 DEF MatchInv
<1>2. CASE UNCHANGED Match!vars
  BY <1>2 DEF Match!vars, Match!budget, MatchInv, MatchShape, ListedOK, MatchedOK,
              EarnedOK, SpentOK, Twice, Once
<1> QED BY <1>1, <1>2

\* However many requests are matched, by whatever a model answers: what is listed,
\* shown and spent keeps to the invariant.
THEOREM Matched == Spec => []MatchInv
<1>1. Init => MatchInv
  BY MatchInit DEF Init
<1>2. MatchInv /\ [Next]_vars => MatchInv'
  <2> SUFFICES ASSUME MatchInv, [Next]_vars PROVE MatchInv'
    OBVIOUS
  <2>1. Match!Next \/ UNCHANGED Match!vars
    BY DEF Next, vars, match, Match!vars, Match!budget
  <2> QED BY <2>1, MatchStep
<1> QED BY <1>1, <1>2, PTL DEF Spec

\* Code decides what is shown of a match (validate_assessments): no row claims more than
\* the capabilities of its own shortlist have on record, and the model is called no more
\* than twice for every match the daily cap allows.
THEOREM EarnedRows == Spec => []RowsAreEarned
<1>1. MatchInv => RowsAreEarned
  <2> SUFFICES ASSUME MatchInv PROVE RowsAreEarned
    OBVIOUS
  <2>1. MatchShape /\ MatchedOK /\ SpentOK
    BY DEF MatchInv
  <2> DEFINE day == DailyCap * match_days
             two == Cardinality(Twice)
             one == Cardinality(Once)
  <2>2. two \in Nat /\ one \in Nat
    BY <2>1, FS_CardinalityType DEF SpentOK
  <2>3. DailyCap \in Nat /\ match_days \in Nat /\ match_calls \in Nat /\ match_count \in Nat
    BY <2>1, MatchConstants DEF MatchShape
  <2>4. match_calls + 2 * two + one <= 2 * (day + match_count) /\ match_count <= DailyCap
    BY <2>1 DEF SpentOK
  <2>5. 2 * DailyCap * (match_days + 1) = 2 * (day + DailyCap) /\ day \in Nat
    BY <2>3
  <2> HIDE DEF day, two, one
  <2>6. match_calls <= 2 * DailyCap * (match_days + 1)
    BY <2>2, <2>3, <2>4, <2>5
  <2> QED BY <2>1, <2>6 DEF RowsAreEarned, Match!RowsAreEarned, MatchedOK, EarnedOK
<1> QED BY <1>1, Matched, PTL

-----------------------------------------------------------------------------
(* The published numbers *)

Snapshots == {"eval", "triage"}
PublishShape ==
  /\ DOMAIN publish_file = Snapshots \cup {"source"} /\ DOMAIN publish_snap = Snapshots
  /\ DOMAIN publish_run = Snapshots \cup {"page"}

\* A publisher whose inputs nobody touched has read what is in the tree.
PublisherOK ==
  /\ \A k \in Snapshots :
       publish_run[k] # None /\ k \notin publish_disturbed => publish_run[k].own = publish_file[k]
  /\ publish_run["page"] # None /\ "page" \notin publish_disturbed =>
       publish_run["page"].source = publish_file["source"]

\* What is written goes with the hash that is written beside it.
SnapshotOK ==
  \A k \in Snapshots : publish_snap[k] # None => LET s == publish_snap[k] IN
    /\ ~s.disturbed => s.measured.own = s.hash
    /\ s.measured.java = s.measured.own \/ s.old
PageOK ==
  publish_page # None =>
    /\ ~publish_page.disturbed => publish_page.source = publish_page.inputs.source
    /\ publish_page.quotes # None /\ ~publish_page.quotes.disturbed =>
         publish_page.quotes.sha = 1

PublishInv == PublishShape /\ PublisherOK /\ SnapshotOK /\ PageOK

-----------------------------------------------------------------------------

\* The invariant holds at the start.
LEMMA PublishInit == Publishers!Init => PublishInv
BY DEF Publishers!Init, Publishers!Hashed, Publishers!Publishers, PublishInv, PublishShape,
       PublisherOK, SnapshotOK, PageOK, Snapshots

\* Every step keeps the invariant of what is published.
LEMMA PublishStep ==
  ASSUME PublishInv, Publishers!Next \/ UNCHANGED Publishers!vars
  PROVE  PublishInv'
<1>0. PublishShape /\ PublisherOK /\ SnapshotOK /\ PageOK
  BY DEF PublishInv
<1>1. ASSUME NEW k \in Snapshots, Publishers!Measure(k) PROVE PublishInv'
  <2>1. PublishShape'
    BY <1>0, <1>1 DEF PublishShape, Snapshots, Publishers!Measure, Publishers!Reads,
                      Publishers!Evaluated, Publishers!Tested, Publishers!Starts,
                      Publishers!Ends, Publishers!Runs, Publishers!Disturbs
  <2>2. PublisherOK'
    BY <1>0, <1>1 DEF PublishShape, PublisherOK, Snapshots, Publishers!Measure,
                      Publishers!Reads, Publishers!Evaluated, Publishers!Tested,
                      Publishers!Starts, Publishers!Ends, Publishers!Runs,
                      Publishers!Disturbs
  <2>3. SnapshotOK'
    BY <1>0, <1>1 DEF PublishShape, SnapshotOK, Snapshots, Publishers!Measure,
                      Publishers!Reads, Publishers!Evaluated, Publishers!Tested,
                      Publishers!Starts, Publishers!Ends, Publishers!Runs,
                      Publishers!Disturbs
  <2>4. PageOK'
    BY <1>0, <1>1 DEF PublishShape, PageOK, Snapshots, Publishers!Measure,
                      Publishers!Reads, Publishers!Evaluated, Publishers!Tested,
                      Publishers!Starts, Publishers!Ends, Publishers!Runs,
                      Publishers!Disturbs
  <2> QED BY <2>1, <2>2, <2>3, <2>4 DEF PublishInv
<1>2. ASSUME NEW k \in Snapshots, Publishers!Publish(k) PROVE PublishInv'
  <2>1. PublishShape'
    BY <1>0, <1>2 DEF PublishShape, Snapshots, Publishers!Publish,
                      Publishers!Hashes, Publishers!Starts, Publishers!Ends,
                      Publishers!Runs, Publishers!Disturbs
  <2>2. PublisherOK'
    BY <1>0, <1>2 DEF PublishShape, PublisherOK, Snapshots, Publishers!Publish,
                      Publishers!Hashes, Publishers!Starts, Publishers!Ends,
                      Publishers!Runs, Publishers!Disturbs
  <2>3. SnapshotOK'
    <3> DEFINE new == [measured |-> publish_run[k], hash |-> Publishers!Hashes(k),
                       disturbed |-> k \in publish_disturbed,
                       old |-> publish_run[k].java # publish_run[k].own]
    <3>1. /\ publish_snap' = [publish_snap EXCEPT ![k] = new] /\ publish_run[k] # None
      BY <1>2 DEF Publishers!Publish, Publishers!Runs
    <3>2. /\ new.measured = publish_run[k] /\ new.hash = publish_file[k]
          /\ (new.disturbed <=> k \in publish_disturbed)
          /\ (new.old <=> publish_run[k].java # publish_run[k].own)
      BY DEF Publishers!Hashes
    <3> HIDE DEF new
    <3>3. /\ ~new.disturbed => new.measured.own = new.hash
          /\ new.measured.java = new.measured.own \/ new.old
      BY <1>0, <3>1, <3>2 DEF PublisherOK
    <3>4. publish_snap'[k] = new /\ \A j \in Snapshots : j # k => publish_snap'[j] = publish_snap[j]
      BY <1>0, <3>1 DEF PublishShape
    <3> QED BY <1>0, <3>3, <3>4 DEF SnapshotOK
  <2>4. PageOK'
    BY <1>0, <1>2 DEF PublishShape, PageOK, Snapshots, Publishers!Publish,
                      Publishers!Hashes, Publishers!Starts, Publishers!Ends,
                      Publishers!Runs, Publishers!Disturbs
  <2> QED BY <2>1, <2>2, <2>3, <2>4 DEF PublishInv
<1>3. ASSUME Publishers!JavaTests PROVE PublishInv'
  <2>1. PublishShape'
    BY <1>0, <1>3 DEF PublishShape, Snapshots, Publishers!JavaTests,
                      Publishers!Starts, Publishers!Ends, Publishers!Runs,
                      Publishers!Disturbs
  <2>2. PublisherOK'
    BY <1>0, <1>3 DEF PublishShape, PublisherOK, Snapshots, Publishers!JavaTests,
                      Publishers!Starts, Publishers!Ends, Publishers!Runs,
                      Publishers!Disturbs
  <2>3. SnapshotOK'
    BY <1>0, <1>3 DEF PublishShape, SnapshotOK, Snapshots, Publishers!JavaTests,
                      Publishers!Starts, Publishers!Ends, Publishers!Runs,
                      Publishers!Disturbs
  <2>4. PageOK'
    BY <1>0, <1>3 DEF PublishShape, PageOK, Snapshots, Publishers!JavaTests,
                      Publishers!Starts, Publishers!Ends, Publishers!Runs,
                      Publishers!Disturbs
  <2> QED BY <2>1, <2>2, <2>3, <2>4 DEF PublishInv
<1>4. ASSUME Publishers!Load PROVE PublishInv'
  <2>1. PublishShape'
    BY <1>0, <1>4 DEF PublishShape, Snapshots, Publishers!Load, Publishers!Starts,
                      Publishers!Ends, Publishers!Runs, Publishers!Disturbs
  <2>2. PublisherOK'
    BY <1>0, <1>4 DEF PublishShape, PublisherOK, Snapshots, Publishers!Load,
                      Publishers!Starts, Publishers!Ends, Publishers!Runs,
                      Publishers!Disturbs
  <2>3. SnapshotOK'
    BY <1>0, <1>4 DEF PublishShape, SnapshotOK, Snapshots, Publishers!Load,
                      Publishers!Starts, Publishers!Ends, Publishers!Runs,
                      Publishers!Disturbs
  <2>4. PageOK'
    BY <1>0, <1>4 DEF PublishShape, PageOK, Snapshots, Publishers!Load,
                      Publishers!Starts, Publishers!Ends, Publishers!Runs,
                      Publishers!Disturbs
  <2> QED BY <2>1, <2>2, <2>3, <2>4 DEF PublishInv
<1>5. ASSUME NEW b \in BOOLEAN, Publishers!Build(b) PROVE PublishInv'
  <2>1. PublishShape'
    BY <1>0, <1>5 DEF PublishShape, Snapshots, Publishers!Build, Publishers!Inputs,
                      Publishers!Verified, Publishers!KeptQuotes, Publishers!Starts,
                      Publishers!Ends, Publishers!Runs, Publishers!Disturbs
  <2>2. PublisherOK'
    BY <1>0, <1>5 DEF PublishShape, PublisherOK, Snapshots, Publishers!Build,
                      Publishers!Inputs, Publishers!Verified, Publishers!KeptQuotes,
                      Publishers!Starts, Publishers!Ends, Publishers!Runs,
                      Publishers!Disturbs
  <2>3. SnapshotOK'
    BY <1>0, <1>5 DEF PublishShape, SnapshotOK, Snapshots, Publishers!Build,
                      Publishers!Inputs, Publishers!Verified, Publishers!KeptQuotes,
                      Publishers!Starts, Publishers!Ends, Publishers!Runs,
                      Publishers!Disturbs
  <2>4. PageOK'
    <3> DEFINE new == publish_page'
    <3>1. /\ new.source = publish_run["page"].source /\ new.inputs.source = publish_file["source"]
          /\ new.quotes = IF b THEN Publishers!Verified ELSE Publishers!KeptQuotes
          /\ (new.disturbed <=> "page" \in publish_disturbed)
          /\ publish_run["page"] # None /\ (b => publish_run["page"].source \in {1})
      BY <1>5 DEF Publishers!Build, Publishers!Runs, Publishers!Inputs
    <3>2. ~new.disturbed => new.source = new.inputs.source
      BY <1>0, <3>1 DEF PublisherOK
    <3>3. CASE b
      <4> DEFINE made == [of |-> publish_run["page"].source, sha |-> publish_file["source"],
                          disturbed |-> "page" \in publish_disturbed]
      <4>0. made.sha = publish_file["source"] /\ (made.disturbed <=> "page" \in publish_disturbed)
        OBVIOUS
      <4>1. new.quotes = made
        BY <3>1, <3>3 DEF Publishers!Verified
      <4> HIDE DEF new, made
      <4>2. ~new.quotes.disturbed => new.quotes.sha = 1
        BY <1>0, <3>1, <3>3, <4>0, <4>1 DEF PublisherOK
      <4> QED BY <3>2, <4>2 DEF PageOK, new
    <3>4. CASE ~b
      <4>1. new.quotes = None \/ (publish_page # None /\ publish_page.quotes # None
                                  /\ new.quotes = publish_page.quotes)
        BY <3>1, <3>4 DEF Publishers!KeptQuotes
      <4>2. new.quotes # None /\ ~new.quotes.disturbed => new.quotes.sha = 1
        BY <1>0, <4>1 DEF PageOK
      <4> QED BY <3>2, <4>2 DEF PageOK
    <3> QED BY <3>3, <3>4
  <2> QED BY <2>1, <2>2, <2>3, <2>4 DEF PublishInv
<1>6. ASSUME NEW p \in Snapshots \cup {"page"}, Publishers!Fail(p) PROVE PublishInv'
  <2>1. PublishShape'
    BY <1>0, <1>6 DEF PublishShape, Snapshots, Publishers!Fail, Publishers!Starts,
                      Publishers!Ends, Publishers!Runs, Publishers!Disturbs
  <2>2. PublisherOK'
    BY <1>0, <1>6 DEF PublishShape, PublisherOK, Snapshots, Publishers!Fail,
                      Publishers!Starts, Publishers!Ends, Publishers!Runs,
                      Publishers!Disturbs
  <2>3. SnapshotOK'
    BY <1>0, <1>6 DEF PublishShape, SnapshotOK, Snapshots, Publishers!Fail,
                      Publishers!Starts, Publishers!Ends, Publishers!Runs,
                      Publishers!Disturbs
  <2>4. PageOK'
    BY <1>0, <1>6 DEF PublishShape, PageOK, Snapshots, Publishers!Fail,
                      Publishers!Starts, Publishers!Ends, Publishers!Runs,
                      Publishers!Disturbs
  <2> QED BY <2>1, <2>2, <2>3, <2>4 DEF PublishInv
<1>7. ASSUME NEW f \in Snapshots \cup {"source"}, NEW c, Publishers!Edit(f, c)
      PROVE  PublishInv'
  <2>1. PublishShape'
    BY <1>0, <1>7 DEF PublishShape, Snapshots, Publishers!Edit, Publishers!Starts,
                      Publishers!Ends, Publishers!Runs, Publishers!Disturbs
  <2>2. PublisherOK'
    BY <1>0, <1>7 DEF PublishShape, PublisherOK, Snapshots, Publishers!Edit,
                      Publishers!Starts, Publishers!Ends, Publishers!Runs,
                      Publishers!Disturbs
  <2>3. SnapshotOK'
    BY <1>0, <1>7 DEF PublishShape, SnapshotOK, Snapshots, Publishers!Edit,
                      Publishers!Starts, Publishers!Ends, Publishers!Runs,
                      Publishers!Disturbs
  <2>4. PageOK'
    BY <1>0, <1>7 DEF PublishShape, PageOK, Snapshots, Publishers!Edit,
                      Publishers!Starts, Publishers!Ends, Publishers!Runs,
                      Publishers!Disturbs
  <2> QED BY <2>1, <2>2, <2>3, <2>4 DEF PublishInv
<1>8. ASSUME NEW c, Publishers!EditUnhashed(c) PROVE PublishInv'
  <2>1. /\ UNCHANGED <<publish_file, publish_snap, publish_page, publish_run>>
        /\ publish_disturbed \subseteq publish_disturbed'
    BY <1>8 DEF Publishers!EditUnhashed, Publishers!Disturbs
  <2>2. PublishShape' /\ SnapshotOK' /\ PageOK'
    BY <1>0, <2>1 DEF PublishShape, SnapshotOK, PageOK
  <2>3. PublisherOK'
    BY <1>0, <2>1 DEF PublisherOK
  <2> QED BY <2>2, <2>3 DEF PublishInv
<1>9. ASSUME UNCHANGED Publishers!vars PROVE PublishInv'
  BY <1>0, <1>9 DEF Publishers!vars, PublishInv, PublishShape, PublisherOK,
                    SnapshotOK, PageOK
<1> QED BY <1>1, <1>2, <1>3, <1>4, <1>5, <1>6, <1>7, <1>8, <1>9 DEF Publishers!Next,
   Publishers!Hashed, Publishers!Publishers, Snapshots

\* The publishers, however often files are edited while they run: what is written of
\* undisturbed inputs goes with the hashes beside it.
THEOREM Published == Spec => []PublishInv
<1>1. Init => PublishInv
  BY PublishInit DEF Init
<1>2. PublishInv /\ [Next]_vars => PublishInv'
  <2> SUFFICES ASSUME PublishInv, [Next]_vars PROVE PublishInv'
    OBVIOUS
  <2>1. Publishers!Next \/ UNCHANGED Publishers!vars
    BY DEF Next, vars, publishing, Publishers!vars
  <2> QED BY <2>1, PublishStep
<1> QED BY <1>1, <1>2, PTL DEF Spec

\* When the tests of CI are green (test_eval_results_fresh.py,
\* test_publish_recruiters_page.py), the published numbers are of the hashed inputs in
\* the tree, the text and the quotes are those of the tree, and the verdict is that of
\* CI's own gate, unless something changed that no hash covers.
THEOREM GreenPages == Spec => []GreenIsTrue
<1>1. PublishInv => GreenIsTrue
  <2> SUFFICES ASSUME PublishInv, Publishers!Green
               PROVE  /\ \A k \in Snapshots : ~publish_snap[k].disturbed =>
                           /\ publish_page.numbers[k].own = publish_file[k]
                           /\ \/ publish_page.numbers[k].java = publish_file[k]
                              \/ publish_snap[k].old
                      /\ (~publish_snap["eval"].disturbed
                          /\ publish_page.numbers["eval"].unhashed = publish_unhashed) =>
                           (Publishers!OverallPassed(publish_page.numbers["eval"])
                              <=> Publishers!GatePasses)
                      /\ ~publish_page.disturbed => publish_page.source = publish_file["source"]
                      /\ ~publish_page.quotes.disturbed => publish_file["source"] \in {1}
    BY DEF GreenIsTrue, Publishers!GreenIsTrue, Snapshots
  <2>1. /\ \A k \in Snapshots : publish_snap[k] # None /\ publish_snap[k].hash = publish_file[k]
        /\ \A k \in Snapshots : publish_page.numbers[k] = publish_snap[k].measured
    BY DEF Publishers!Green, Publishers!SnapshotIsFresh, Publishers!PageIsFresh, Snapshots
  <2>2. /\ publish_page # None /\ publish_page.inputs.source = publish_file["source"]
        /\ publish_page.quotes # None /\ publish_page.quotes.sha = publish_file["source"]
    BY DEF Publishers!Green, Publishers!PageIsFresh, Publishers!Inputs
  <2>3. ASSUME NEW k \in Snapshots, ~publish_snap[k].disturbed
        PROVE  /\ publish_page.numbers[k].own = publish_file[k]
               /\ publish_page.numbers[k].java = publish_file[k] \/ publish_snap[k].old
    BY <2>1, <2>3 DEF PublishInv, SnapshotOK
  <2>4. ~publish_page.disturbed => publish_page.source = publish_file["source"]
    BY <2>2 DEF PublishInv, PageOK
  <2>5. ~publish_page.quotes.disturbed => publish_file["source"] \in {1}
    BY <2>2 DEF PublishInv, PageOK
  <2>6. ASSUME ~publish_snap["eval"].disturbed,
               publish_page.numbers["eval"].unhashed = publish_unhashed
        PROVE  Publishers!OverallPassed(publish_page.numbers["eval"]) <=> Publishers!GatePasses
    <3>1. /\ publish_page.numbers["eval"].own = publish_file["eval"]
          /\ publish_page.numbers["eval"].unhashed = publish_unhashed
      BY <2>3, <2>6 DEF Snapshots
    <3>2. None # Enough["security_case_accuracy"]
      BY PlatformAssumption DEF PlatformAssumption, Publishers!PublishingAssumption,
                                Enough
    <3> QED BY <3>1, <3>2 DEF Publishers!OverallPassed, Publishers!Passes,
              Publishers!GatePasses, Publishers!Metrics
  <2> QED BY <2>3, <2>4, <2>5, <2>6
<1> QED BY <1>1, Published, PTL

-----------------------------------------------------------------------------
(* Numbers and sequences *)

\* A set of numbers up to n that is not empty has a greatest one.
LEMMA Greatest ==
  ASSUME NEW n \in Nat, NEW T, T \subseteq 1..n, T # {}
  PROVE  \E m \in T : \A k \in T : k <= m
<1> DEFINE R == OpToRel(<, Nat)
           D == {n - k : k \in T}
<1>1. D \subseteq Nat /\ D # {}
  <2>1. ASSUME NEW k \in T PROVE n - k \in Nat
    <3>1. k \in 1..n
      OBVIOUS
    <3> QED BY <3>1
  <2>2. PICK k \in T : TRUE
    OBVIOUS
  <2> QED BY <2>1, <2>2
<1>2. IsWellFoundedOn(R, Nat)
  BY NatLessThanWellFounded
<1>3. R = {ss \in Nat \X Nat : ss[1] < ss[2]}
  BY DEF OpToRel
<1> HIDE DEF R
<1>4. PICK d \in D : \A y \in D : <<y, d>> \notin R
  BY <1>1, <1>2, WFMin
<1>5. ASSUME NEW y \in D PROVE d <= y
  <2>1. <<y, d>> \in Nat \X Nat /\ <<y, d>>[1] = y /\ <<y, d>>[2] = d
    BY <1>1
  <2>2. ~(<<y, d>>[1] < <<y, d>>[2])
    BY <1>3, <1>4, <2>1, Zenon
  <2> QED BY <1>1, <2>1, <2>2
<1>6. PICK m \in T : d = n - m
  OBVIOUS
<1>7. ASSUME NEW k \in T PROVE k <= m
  <2>1. n - k \in D
    OBVIOUS
  <2> QED BY <1>5, <1>6, <2>1
<1> QED BY <1>7

\* A set of numbers that is not empty has a least one.
LEMMA LeastOne ==
  ASSUME NEW T, T \subseteq Nat, T # {}
  PROVE  \E m \in T : \A k \in T : m <= k
<1> DEFINE R == OpToRel(<, Nat)
<1>1. IsWellFoundedOn(R, Nat)
  BY NatLessThanWellFounded
<1>2. R = {ss \in Nat \X Nat : ss[1] < ss[2]}
  BY DEF OpToRel
<1> HIDE DEF R
<1>3. PICK m \in T : \A y \in T : <<y, m>> \notin R
  BY <1>1, WFMin
<1>4. ASSUME NEW k \in T PROVE m <= k
  <2>1. <<k, m>> \in Nat \X Nat /\ <<k, m>>[1] = k /\ <<k, m>>[2] = m
    OBVIOUS
  <2>2. ~(<<k, m>>[1] < <<k, m>>[2])
    BY <1>2, <1>3, <2>1, Zenon
  <2> QED BY <2>1, <2>2
<1> QED BY <1>4

\* Quotient and remainder are told by their sum.
LEMMA Quotient ==
  ASSUME NEW q \in Int, NEW r \in Int, NEW s \in Nat, s > 0, 0 <= r, r < s,
         NEW k, k = s * q + r
  PROVE  k % s = r /\ k \div s = q
OBVIOUS

\* What stands in two sequences behind one another.
LEMMA JoinedAre ==
  ASSUME NEW S, NEW a \in Seq(S), NEW b \in Seq(S)
  PROVE  /\ a \o b \in Seq(S) /\ Len(a \o b) = Len(a) + Len(b)
         /\ \A j \in 1..Len(a) : (a \o b)[j] = a[j]
         /\ \A j \in 1..Len(b) : (a \o b)[Len(a) + j] = b[j]
<1>1. Len(a) \in Nat /\ Len(b) \in Nat
  OBVIOUS
<1>2. /\ a \o b \in Seq(S) /\ Len(a \o b) = Len(a) + Len(b)
      /\ \A i \in 1..(Len(a) + Len(b)) :
           (a \o b)[i] = IF i <= Len(a) THEN a[i] ELSE b[i - Len(a)]
  BY ConcatProperties
<1>3. \A j \in 1..Len(a) : j \in 1..(Len(a) + Len(b)) /\ j <= Len(a)
  BY <1>1
<1>4. \A j \in 1..Len(b) : /\ Len(a) + j \in 1..(Len(a) + Len(b)) /\ ~(Len(a) + j <= Len(a))
                           /\ (Len(a) + j) - Len(a) = j
  BY <1>1
<1> QED BY <1>2, <1>3, <1>4

\* A sequence is its first element and the rest.
LEMMA FirstAndRest ==
  ASSUME NEW S, NEW x \in S, NEW b \in Seq(S), NEW c \in Seq(S), Len(c) = Len(b) + 1,
         c[1] = x, \A j \in 1..Len(b) : c[j + 1] = b[j]
  PROVE  <<x>> \o b = c
<1>1. PICK a \in Seq(S) : a = <<x>> /\ Len(a) = 1 /\ a[1] = x
  <2>1. <<x>> \in Seq(S) /\ Len(<<x>>) = 1 /\ <<x>>[1] = x
    OBVIOUS
  <2> QED BY <2>1, Zenon
<1>2. Len(b) \in Nat
  OBVIOUS
<1>3. /\ a \o b \in Seq(S) /\ Len(a \o b) = Len(a) + Len(b)
      /\ \A i \in 1..(Len(a) + Len(b)) :
           (a \o b)[i] = IF i <= Len(a) THEN a[i] ELSE b[i - Len(a)]
  BY ConcatProperties
<1>4. PICK d : d = a \o b
  OBVIOUS
<1>5. d \in Seq(S) /\ Len(d) = Len(c)
  BY <1>1, <1>2, <1>3, <1>4
<1>6. ASSUME NEW i \in 1..Len(d) PROVE d[i] = c[i]
  <2>1. i \in 1..(Len(a) + Len(b))
    BY <1>3, <1>4
  <2>2. d[i] = IF i <= Len(a) THEN a[i] ELSE b[i - Len(a)]
    BY <1>3, <1>4, <2>1
  <2>3. CASE i = 1
    BY <1>1, <2>2, <2>3
  <2>4. CASE i # 1
    <3>1. i - 1 \in 1..Len(b) /\ (i - 1) + 1 = i /\ ~(i <= 1)
      BY <1>1, <1>2, <2>1, <2>4
    <3> QED BY <1>1, <2>2, <3>1
  <2> QED BY <2>3, <2>4
<1>7. d = c
  BY <1>5, <1>6, SeqEqual
<1> QED BY <1>1, <1>4, <1>7

\* The rests of a text.
LEMMA RestsAre ==
  ASSUME NEW S, NEW v \in Seq(S)
  PROVE  /\ SubSeq(v, Len(v) + 1, Len(v)) = <<>> /\ SubSeq(v, 1, Len(v)) = v
         /\ \A k \in 1..Len(v) : <<v[k]>> \o SubSeq(v, k + 1, Len(v)) = SubSeq(v, k, Len(v))
<1> DEFINE n == Len(v)
<1>1. n \in Nat /\ v = [i \in 1..n |-> v[i]] /\ \A i \in 1..n : v[i] \in S
  OBVIOUS
<1>2. \A k \in 1..(n + 1) : /\ SubSeq(v, k, n) \in Seq(S) /\ Len(SubSeq(v, k, n)) = n - k + 1
                            /\ \A j \in 1..(n - k + 1) : SubSeq(v, k, n)[j] = v[k + j - 1]
  <2> TAKE k \in 1..(n + 1)
  <2>1. k \in 1..(Len(v) + 1) /\ n \in k - 1..Len(v)
    BY <1>1
  <2>2. /\ SubSeq(v, k, n) \in Seq(S)
        /\ Len(SubSeq(v, k, n)) = IF k <= n THEN n - k + 1 ELSE 0
        /\ \A i \in 1..(n - k + 1) : SubSeq(v, k, n)[i] = v[k + i - 1]
    BY <2>1, SubSeqProperties
  <2> QED BY <1>1, <2>2
<1>3. SubSeq(v, n + 1, n) = <<>>
  <2>1. n + 1 \in 1..(n + 1) /\ n - (n + 1) + 1 = 0
    BY <1>1
  <2>2. SubSeq(v, n + 1, n) \in Seq(S) /\ Len(SubSeq(v, n + 1, n)) = 0
    BY <1>2, <2>1
  <2> QED BY <2>2, EmptySeq
<1>4. SubSeq(v, 1, n) = v
  <2>1. 1 \in 1..(n + 1) /\ n - 1 + 1 = n
    BY <1>1
  <2>2. /\ SubSeq(v, 1, n) \in Seq(S) /\ Len(SubSeq(v, 1, n)) = Len(v)
        /\ \A j \in 1..Len(v) : SubSeq(v, 1, n)[j] = v[j]
    BY <1>1, <1>2, <2>1
  <2> QED BY <2>2, SeqEqual
<1>5. ASSUME NEW k \in 1..n PROVE <<v[k]>> \o SubSeq(v, k + 1, n) = SubSeq(v, k, n)
  <2> DEFINE b == SubSeq(v, k + 1, n)
             c == SubSeq(v, k, n)
  <2>1. k + 1 \in 1..(n + 1) /\ k \in 1..(n + 1) /\ n - (k + 1) + 1 = n - k /\ n - k \in Nat
    BY <1>1
  <2>2. /\ b \in Seq(S) /\ Len(b) = n - k /\ \A j \in 1..(n - k) : b[j] = v[(k + 1) + j - 1]
        /\ c \in Seq(S) /\ Len(c) = n - k + 1 /\ \A j \in 1..(n - k + 1) : c[j] = v[k + j - 1]
    BY <1>2, <2>1
  <2>3. v[k] \in S
    BY <1>1
  <2> HIDE DEF b, c
  <2>4. Len(c) = Len(b) + 1
    BY <2>1, <2>2
  <2>5. c[1] = v[k]
    <3>1. 1 \in 1..(n - k + 1) /\ k + 1 - 1 = k
      BY <1>1, <2>1
    <3>2. c[1] = v[k + 1 - 1]
      BY <2>2, <3>1
    <3> QED BY <3>1, <3>2
  <2>6. ASSUME NEW j \in 1..Len(b) PROVE c[j + 1] = b[j]
    <3>1. j \in 1..(n - k) /\ j + 1 \in 1..(n - k + 1) /\ k + (j + 1) - 1 = (k + 1) + j - 1
      <4>1. PICK d \in Nat : d = n - k
        BY <2>1
      <4>2. j \in 1..d
        BY <2>2, <4>1
      <4>3. j \in 1..d /\ j + 1 \in 1..(d + 1)
        BY <4>2
      <4> QED BY <1>1, <4>1, <4>3
    <3> QED BY <2>2, <3>1
  <2>7. <<v[k]>> \o b = c
    BY <2>2, <2>3, <2>4, <2>5, <2>6, FirstAndRest
  <2> QED BY <2>7 DEF b, c
<1> QED BY <1>3, <1>4, <1>5
=============================================================================
