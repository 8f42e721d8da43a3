------------------------------ MODULE LabProofs ------------------------------
(***************************************************************************)
(* Proofs about the Triage Lab and the interview beside it: what the       *)
(* public questions and the model steps may cost, and what passes their    *)
(* gates; the enrollments of ContractPlanService and the scenarios that    *)
(* replay them: one event for each change of a plan, a 409 and never an    *)
(* index error for who loses the race, and a verdict about the code a      *)
(* reproduction ran.  For every set of requests, visitors, scenarios,      *)
(* terms, resets and expiries, every budget and any number of days.  SI is *)
(* Interview, Lab TriageRepair and Scene TriageScenario, as MCWorkbench    *)
(* instantiates them.                                                      *)
(***************************************************************************)
EXTENDS MCWorkbench, FiniteSetTheorems, TLAPS

-----------------------------------------------------------------------------
(* The interview *)

\* What the counters per visitor say is of no concern to the budget of the day.
Outcomes == {None, "daily_cap", "cooldown", "visitor_cap", "no_corpus", "private_topic",
             "ungrounded", "model_unavailable", "no_model", "model_empty_reply",
             "ungrounded_model_declined", "leak_blocked", "voice_rejected", "answered"}
InterviewShape ==
  /\ si_at \in [Asks -> {"idle", "retrieving", "asking model", "leak retry", "voice retry",
                         "recording", "done"}]
  /\ si_who \in [Asks -> SI!Keys \cup {None}]
  /\ si_text \in [Asks -> SI!Replies \cup {SI!NoText}]
  /\ si_outcome \in [Asks -> Outcomes]
  /\ si_reached \in [Asks -> SI!Keys \cup {None}]
  /\ si_answers \in Nat

\* An answer is shown by a request that is through with the model, in words that passed.
CleanOK ==
  \A a \in Asks : si_outcome[a] = "answered" =>
    /\ si_at[a] \in {"recording", "done"}
    /\ si_text[a] # SI!NoText /\ si_text[a].leak = "none" /\ si_text[a].voice # "hard"

\* What reached the model is recorded as what it was, and will be counted.
ReachedOK ==
  \A a \in Asks : si_reached[a] \in Visitors =>
    /\ si_reached[a] = si_who[a]
    /\ si_at[a] \in {"leak retry", "voice retry", "recording", "done"}
    /\ si_at[a] = "recording" => si_outcome[a] \notin SI!Uncounted

\* The requests of visitors that reached the model today and were answered.
Settled == {a \in Asks : si_reached[a] \in Visitors /\ si_at[a] = "done"}
Pending(a) == SI!InFlight(a) /\ si_who[a] # Operator

\* As long as nothing overlapped, one visitor at most is being answered, and the budget
\* still has room for that answer, whatever day it was asked on.
RoomOK ==
  /\ IsFiniteSet(Settled) /\ Cardinality(Settled) <= si_answers
  /\ ~si_overlapped =>
       /\ Cardinality(Settled) <= DailyMax
       /\ \A a \in Asks : Pending(a) =>
            Cardinality(Settled) < DailyMax /\ \A b \in Asks : Pending(b) => a = b

InterviewInv == InterviewShape /\ CleanOK /\ ReachedOK /\ RoomOK

-----------------------------------------------------------------------------
\* What is assumed of the constants.
LEMMA InterviewConstants ==
  /\ Operator \notin Visitors /\ None \notin Visitors \cup {Operator}
  /\ None \notin {"daily_cap", "cooldown", "visitor_cap", "answered"} /\ DailyMax \in Nat
BY WorkbenchAssumption DEF WorkbenchAssumption, SI!InterviewAssumption

\* The budget and the answers counted are numbers.
LEMMA Numbers ==
  ASSUME InterviewShape
  PROVE  si_answers \in Nat /\ DailyMax \in Nat
BY InterviewConstants DEF InterviewShape

\* What is recorded of an answer.
LEMMA Counting ==
  ASSUME InterviewShape, NEW a \in Asks, SI!Record(a)
  PROVE  /\ si_answers' = IF si_outcome[a] \in SI!Uncounted THEN si_answers ELSE si_answers + 1
         /\ si_answers' \in Nat
<1>1. si_answers' = IF si_outcome[a] \in SI!Uncounted THEN si_answers ELSE si_answers + 1
  <2>1. CASE si_outcome[a] \in SI!Uncounted
    BY <2>1 DEF SI!Record, SI!budget
  <2>2. CASE si_outcome[a] \notin SI!Uncounted
    BY Zenon, <2>2 DEF SI!Record
  <2> QED BY <2>1, <2>2
<1> QED BY <1>1, Numbers

\* Every step keeps the shape.
LEMMA InterviewShapeKept ==
  ASSUME InterviewShape, SI!Next
  PROVE  InterviewShape'
<1> USE DEF InterviewShape, Outcomes
<1>1. ASSUME NEW a \in Asks, NEW v \in SI!Keys, SI!Ask(a, v) PROVE InterviewShape'
  BY <1>1 DEF SI!Ask, SI!Refusal, SI!budget
<1>2. ASSUME NEW a \in Asks, SI!Retrieve(a) PROVE InterviewShape'
  BY <1>2 DEF SI!Retrieve, SI!Returns, SI!GoOn, SI!budget
<1>3. ASSUME NEW a \in Asks, SI!Unreachable(a) PROVE InterviewShape'
  BY <1>3 DEF SI!Unreachable, SI!Returns, SI!budget
<1>4. ASSUME NEW a \in Asks, SI!Record(a) PROVE InterviewShape'
  <2>1. si_answers' \in Nat
    BY <1>4, Counting
  <2> QED BY <1>4, <2>1 DEF SI!Record
<1>5. ASSUME NEW a \in Asks, NEW r \in SI!Replies \cup {SI!NoText}, SI!FirstReply(a, r)
      PROVE  InterviewShape'
  BY <1>5 DEF SI!FirstReply, SI!Returns, SI!GoOn, SI!Judge, SI!budget
<1>6. ASSUME NEW a \in Asks, NEW r \in SI!Replies \cup {SI!NoText}, SI!LeakRetry(a, r)
      PROVE  InterviewShape'
  BY <1>6 DEF SI!LeakRetry, SI!Returns, SI!GoOn, SI!Judge, SI!Clean, SI!budget
<1>7. ASSUME NEW a \in Asks, NEW r \in SI!Replies \cup {SI!NoText}, SI!VoiceRetry(a, r)
      PROVE  InterviewShape'
  BY <1>7 DEF SI!VoiceRetry, SI!Returns, SI!Clean, SI!budget
<1>8. ASSUME NEW v \in SI!Keys, SI!GapPasses(v) PROVE InterviewShape'
  BY <1>8 DEF SI!GapPasses, SI!budget
<1>9. ASSUME SI!Midnight PROVE InterviewShape'
  BY <1>9 DEF SI!Midnight, SI!budget
<1> QED BY <1>1, <1>2, <1>3, <1>4, <1>5, <1>6, <1>7, <1>8, <1>9 DEF SI!Next

\* A text that is shown was read by the scan on the way there.
LEMMA CleanKept ==
  ASSUME InterviewShape, CleanOK, SI!Next
  PROVE  CleanOK'
<1> USE InterviewConstants DEF InterviewShape, CleanOK
<1>1. ASSUME NEW a \in Asks, NEW v \in SI!Keys, SI!Ask(a, v) PROVE CleanOK'
  BY <1>1 DEF SI!Ask, SI!Refusal, SI!budget
<1>2. ASSUME NEW a \in Asks, SI!Retrieve(a) PROVE CleanOK'
  BY <1>2 DEF SI!Retrieve, SI!Returns, SI!GoOn, SI!budget
<1>3. ASSUME NEW a \in Asks, SI!Unreachable(a) PROVE CleanOK'
  BY <1>3 DEF SI!Unreachable, SI!Returns, SI!budget
<1>4. ASSUME NEW a \in Asks, SI!Record(a) PROVE CleanOK'
  BY <1>4 DEF SI!Record, SI!budget
<1>5. ASSUME NEW a \in Asks, NEW r \in SI!Replies \cup {SI!NoText}, SI!FirstReply(a, r)
      PROVE  CleanOK'
  <2>1. CASE r # SI!NoText /\ ~r.declines /\ r.leak = "none"
    BY <1>5, <2>1 DEF SI!FirstReply, SI!Returns, SI!GoOn, SI!Judge, SI!Replies
  <2>2. CASE ~(r # SI!NoText /\ ~r.declines /\ r.leak = "none")
    BY <1>5, <2>2, ZenonT(40) DEF SI!FirstReply, SI!Returns, SI!GoOn, SI!Replies
  <2> QED BY <2>1, <2>2
<1>6. ASSUME NEW a \in Asks, NEW r \in SI!Replies \cup {SI!NoText}, SI!LeakRetry(a, r)
      PROVE  CleanOK'
  BY <1>6 DEF SI!LeakRetry, SI!Returns, SI!GoOn, SI!Judge, SI!Clean, SI!budget
<1>7. ASSUME NEW a \in Asks, NEW r \in SI!Replies \cup {SI!NoText}, SI!VoiceRetry(a, r)
      PROVE  CleanOK'
  BY <1>7 DEF SI!VoiceRetry, SI!Returns, SI!Clean, SI!budget
<1>8. ASSUME NEW v \in SI!Keys, SI!GapPasses(v) PROVE CleanOK'
  BY <1>8 DEF SI!GapPasses, SI!budget
<1>9. ASSUME SI!Midnight PROVE CleanOK'
  BY <1>9 DEF SI!Midnight, SI!budget
<1> QED BY <1>1, <1>2, <1>3, <1>4, <1>5, <1>6, <1>7, <1>8, <1>9 DEF SI!Next

\* Every step keeps what a visit knows where it is.
LEMMA ReachedKept ==
  ASSUME InterviewShape, ReachedOK, SI!Next
  PROVE  ReachedOK'
<1> USE InterviewConstants DEF InterviewShape, ReachedOK, SI!Uncounted
<1>1. ASSUME NEW a \in Asks, NEW v \in SI!Keys, SI!Ask(a, v) PROVE ReachedOK'
  BY <1>1 DEF SI!Ask, SI!budget
<1>2. ASSUME NEW a \in Asks, SI!Retrieve(a) PROVE ReachedOK'
  BY <1>2 DEF SI!Retrieve, SI!Returns, SI!GoOn, SI!budget
<1>3. ASSUME NEW a \in Asks, SI!Unreachable(a) PROVE ReachedOK'
  BY <1>3 DEF SI!Unreachable, SI!Returns, SI!budget
<1>4. ASSUME NEW a \in Asks, SI!Record(a) PROVE ReachedOK'
  BY <1>4 DEF SI!Record, SI!budget
<1>5. ASSUME NEW a \in Asks, NEW r \in SI!Replies \cup {SI!NoText}, SI!FirstReply(a, r)
      PROVE  ReachedOK'
  <2>1. \/ \E to \in {"leak retry", "voice retry"} :
             si_at' = [si_at EXCEPT ![a] = to] /\ si_outcome' = si_outcome
        \/ \E o \in {"model_empty_reply", "ungrounded_model_declined", "leak_blocked", "answered"} :
             /\ si_at' = [si_at EXCEPT ![a] = "recording"]
             /\ si_outcome' = [si_outcome EXCEPT ![a] = o]
    BY <1>5 DEF SI!FirstReply, SI!Returns, SI!GoOn, SI!Judge
  <2>2. si_reached' = [si_reached EXCEPT ![a] = si_who[a]] /\ si_who' = si_who
    BY <1>5 DEF SI!FirstReply
  <2> QED BY <2>1, <2>2
<1>6. ASSUME NEW a \in Asks, NEW r \in SI!Replies \cup {SI!NoText}, SI!LeakRetry(a, r)
      PROVE  ReachedOK'
  BY <1>6, ZenonT(40) DEF SI!LeakRetry, SI!Returns, SI!GoOn, SI!Judge, SI!Clean, SI!budget
<1>7. ASSUME NEW a \in Asks, NEW r \in SI!Replies \cup {SI!NoText}, SI!VoiceRetry(a, r)
      PROVE  ReachedOK'
  BY <1>7 DEF SI!VoiceRetry, SI!Returns, SI!Clean, SI!budget
<1>8. ASSUME NEW v \in SI!Keys, SI!GapPasses(v) PROVE ReachedOK'
  BY <1>8 DEF SI!GapPasses, SI!budget
<1>9. ASSUME SI!Midnight PROVE ReachedOK'
  BY <1>9 DEF SI!Midnight, SI!budget
<1> QED BY <1>1, <1>2, <1>3, <1>4, <1>5, <1>6, <1>7, <1>8, <1>9 DEF SI!Next

\* Only recording an answer of a visitor settles a request, and the answer is counted;
\* at midnight nothing is settled.
SettledSteps ==
  \/ Settled' = Settled /\ si_answers' >= si_answers
  \/ Settled' = {} /\ si_answers' = 0
  \/ \E a \in Asks : /\ Pending(a) /\ ~Pending(a)' /\ a \notin Settled
                     /\ Settled' = Settled \cup {a}
                     /\ si_answers' = si_answers + 1

\* How a step may end a visit.
LEMMA Settling ==
  ASSUME InterviewShape, ReachedOK, SI!Next
  PROVE  SettledSteps
<1>1. ASSUME NEW a \in Asks, NEW v \in SI!Keys, SI!Ask(a, v) PROVE SettledSteps
  <2>1. Settled' = Settled
    BY <1>1 DEF SI!Ask, SI!budget, Settled, InterviewShape, ReachedOK
  <2>2. si_answers' = si_answers
    BY <1>1 DEF SI!Ask, SI!budget
  <2> QED BY <2>1, <2>2, Numbers DEF SettledSteps
<1>2. ASSUME NEW a \in Asks, SI!Retrieve(a) PROVE SettledSteps
  <2>1. Settled' = Settled
    BY <1>2 DEF SI!Retrieve, SI!Returns, SI!GoOn, Settled, InterviewShape, ReachedOK
  <2>2. si_answers' = si_answers
    BY <1>2 DEF SI!Retrieve, SI!budget
  <2> QED BY <2>1, <2>2, Numbers DEF SettledSteps
<1>3. ASSUME NEW a \in Asks, SI!Unreachable(a) PROVE SettledSteps
  <2>1. Settled' = Settled
    BY <1>3 DEF SI!Unreachable, SI!Returns, Settled, InterviewShape, ReachedOK
  <2>2. si_answers' = si_answers
    BY <1>3 DEF SI!Unreachable, SI!budget
  <2> QED BY <2>1, <2>2, Numbers DEF SettledSteps
<1>4. ASSUME NEW a \in Asks, SI!Record(a) PROVE SettledSteps
  <2>1. CASE si_reached[a] \in Visitors
    <3>1. Settled' = Settled \cup {a} /\ a \notin Settled
      BY <1>4, <2>1 DEF SI!Record, Settled, InterviewShape
    <3>2. Pending(a) /\ ~Pending(a)'
      BY <1>4, <2>1, InterviewConstants DEF SI!Record, Pending, SI!InFlight,
         InterviewShape, ReachedOK
    <3>3. si_answers' = si_answers + 1
      BY <1>4, <2>1, Counting DEF InterviewShape, ReachedOK, SI!Record
    <3> QED BY <3>1, <3>2, <3>3 DEF SettledSteps
  <2>2. CASE si_reached[a] \notin Visitors
    <3>1. Settled' = Settled
      BY <1>4, <2>2 DEF SI!Record, Settled, InterviewShape
    <3>2. si_answers' >= si_answers
      BY <1>4, Counting, Numbers
    <3> QED BY <3>1, <3>2 DEF SettledSteps
  <2> QED BY <2>1, <2>2
<1>5. ASSUME NEW a \in Asks, NEW r \in SI!Replies \cup {SI!NoText}, SI!FirstReply(a, r)
      PROVE  SettledSteps
  <2>1. Settled' = Settled
    BY <1>5 DEF SI!FirstReply, SI!Returns, SI!GoOn, SI!Judge, Settled,
                InterviewShape, ReachedOK
  <2>2. si_answers' = si_answers
    BY <1>5 DEF SI!FirstReply, SI!budget
  <2> QED BY <2>1, <2>2, Numbers DEF SettledSteps
<1>6. ASSUME NEW a \in Asks, NEW r \in SI!Replies \cup {SI!NoText}, SI!LeakRetry(a, r)
      PROVE  SettledSteps
  <2>1. Settled' = Settled
    BY <1>6 DEF SI!LeakRetry, SI!Returns, SI!GoOn, SI!Judge, SI!Clean, Settled,
                InterviewShape, ReachedOK
  <2>2. si_answers' = si_answers
    BY <1>6 DEF SI!LeakRetry, SI!budget
  <2> QED BY <2>1, <2>2, Numbers DEF SettledSteps
<1>7. ASSUME NEW a \in Asks, NEW r \in SI!Replies \cup {SI!NoText}, SI!VoiceRetry(a, r)
      PROVE  SettledSteps
  <2>1. Settled' = Settled
    BY <1>7 DEF SI!VoiceRetry, SI!Returns, SI!Clean, Settled, InterviewShape,
                ReachedOK
  <2>2. si_answers' = si_answers
    BY <1>7 DEF SI!VoiceRetry, SI!budget
  <2> QED BY <2>1, <2>2, Numbers DEF SettledSteps
<1>8. ASSUME NEW v \in SI!Keys, SI!GapPasses(v) PROVE SettledSteps
  <2>1. Settled' = Settled
    BY <1>8 DEF SI!GapPasses, SI!budget, Settled, InterviewShape, ReachedOK
  <2>2. si_answers' = si_answers
    BY <1>8 DEF SI!GapPasses, SI!budget
  <2> QED BY <2>1, <2>2, Numbers DEF SettledSteps
<1>9. ASSUME SI!Midnight PROVE SettledSteps
  BY <1>9, InterviewConstants DEF SI!Midnight, SettledSteps, Settled
<1> QED BY <1>1, <1>2, <1>3, <1>4, <1>5, <1>6, <1>7, <1>8, <1>9 DEF SI!Next

\* Who is being answered after a step was so before, but for the visitor who is let in.
PendingSteps ==
  \/ /\ \A b \in Asks : Pending(b)' => Pending(b)
     /\ ~si_overlapped' => ~si_overlapped
  \/ /\ ~si_overlapped' => ~si_overlapped /\ \A b \in Asks : ~Pending(b)
     /\ \E a \in Asks : \A b \in Asks : Pending(b)' => b = a \/ Pending(b)
     /\ si_answers < DailyMax /\ Settled' = Settled

\* How a step may change the answers that are still to be recorded.
LEMMA PendingKinds ==
  ASSUME InterviewShape, ReachedOK, SI!Next
  PROVE  PendingSteps
<1>1. ASSUME NEW a \in Asks, NEW v \in SI!Keys, SI!Ask(a, v) PROVE PendingSteps
  <2> USE DEF InterviewShape, PendingSteps, Pending, SI!InFlight
  <2>1. CASE v = Operator
    BY <1>1, <2>1 DEF SI!Ask
  <2>2. CASE v # Operator /\ SI!Refusal(v) # None
    BY <1>1, <2>2 DEF SI!Ask
  <2>3. CASE v # Operator /\ SI!Refusal(v) = None
    <3>1. si_answers < DailyMax
      <4>1. CASE si_answers >= DailyMax
        BY <2>3, <4>1, InterviewConstants DEF SI!Refusal
      <4> HIDE DEF InterviewShape
      <4> QED BY <4>1, Numbers
    <3>2. Settled' = Settled
      BY <1>1, <2>3 DEF SI!Ask, Settled, ReachedOK
    <3> QED BY <1>1, <2>3, <3>1, <3>2 DEF SI!Ask
  <2> QED BY <2>1, <2>2, <2>3
<1>2. ASSUME NEW a \in Asks, SI!Retrieve(a) PROVE PendingSteps
  BY <1>2 DEF SI!Retrieve, SI!Returns, SI!GoOn, SI!budget, InterviewShape,
              PendingSteps, Pending, SI!InFlight
<1>3. ASSUME NEW a \in Asks, SI!Unreachable(a) PROVE PendingSteps
  BY <1>3 DEF SI!Unreachable, SI!Returns, SI!budget, InterviewShape, PendingSteps,
              Pending, SI!InFlight
<1>4. ASSUME NEW a \in Asks, SI!Record(a) PROVE PendingSteps
  BY <1>4 DEF SI!Record, SI!budget, InterviewShape, PendingSteps, Pending,
              SI!InFlight
<1>5. ASSUME NEW a \in Asks, NEW r \in SI!Replies \cup {SI!NoText}, SI!FirstReply(a, r)
      PROVE  PendingSteps
  BY <1>5 DEF SI!FirstReply, SI!Returns, SI!GoOn, SI!Judge, SI!budget,
              InterviewShape, PendingSteps, Pending, SI!InFlight
<1>6. ASSUME NEW a \in Asks, NEW r \in SI!Replies \cup {SI!NoText}, SI!LeakRetry(a, r)
      PROVE  PendingSteps
  BY <1>6 DEF SI!LeakRetry, SI!Returns, SI!GoOn, SI!Judge, SI!Clean, SI!budget,
              InterviewShape, PendingSteps, Pending, SI!InFlight
<1>7. ASSUME NEW a \in Asks, NEW r \in SI!Replies \cup {SI!NoText}, SI!VoiceRetry(a, r)
      PROVE  PendingSteps
  BY <1>7 DEF SI!VoiceRetry, SI!Returns, SI!Clean, SI!budget, InterviewShape,
              PendingSteps, Pending, SI!InFlight
<1>8. ASSUME NEW v \in SI!Keys, SI!GapPasses(v) PROVE PendingSteps
  BY <1>8 DEF SI!GapPasses, SI!budget, InterviewShape, PendingSteps, Pending,
              SI!InFlight
<1>9. ASSUME SI!Midnight PROVE PendingSteps
  BY <1>9 DEF SI!Midnight, SI!budget, InterviewShape, PendingSteps, Pending,
              SI!InFlight
<1> QED BY <1>1, <1>2, <1>3, <1>4, <1>5, <1>6, <1>7, <1>8, <1>9 DEF SI!Next

\* Every step leaves room for the answer that is being given.
LEMMA RoomKept ==
  ASSUME InterviewShape, ReachedOK, RoomOK, SI!Next
  PROVE  RoomOK'
<1>1. SettledSteps /\ PendingSteps /\ InterviewShape'
  BY Settling, PendingKinds, InterviewShapeKept
<1>2. IsFiniteSet(Settled) /\ Cardinality(Settled) \in Nat
  BY FS_CardinalityType DEF RoomOK
<1>3. DailyMax \in Nat /\ si_answers \in Nat /\ si_answers' \in Nat
  BY <1>1, InterviewConstants DEF InterviewShape
<1>4. CASE Settled' = Settled /\ si_answers' >= si_answers
  BY <1>1, <1>2, <1>3, <1>4 DEF PendingSteps, RoomOK
<1>5. CASE Settled' = {} /\ si_answers' = 0
  BY <1>1, <1>2, <1>3, <1>5, FS_EmptySet DEF PendingSteps, RoomOK
<1>6. ASSUME NEW a \in Asks, Pending(a), ~Pending(a)', a \notin Settled,
             Settled' = Settled \cup {a}, si_answers' = si_answers + 1
      PROVE  RoomOK'
  <2>1. IsFiniteSet(Settled') /\ Cardinality(Settled') \in Nat
        /\ Cardinality(Settled') <= Cardinality(Settled) + 1
    BY <1>2, <1>6, FS_AddElement
  <2> QED BY <1>1, <1>2, <1>3, <1>6, <2>1 DEF PendingSteps, RoomOK
<1> QED BY <1>1, <1>4, <1>5, <1>6 DEF SettledSteps

\* The invariant holds at the start.
LEMMA InterviewInit == SI!Init => InterviewInv
<1> SUFFICES ASSUME SI!Init PROVE InterviewInv
  OBVIOUS
<1>1. Settled = {}
  BY DEF Settled, SI!Init
<1>2. RoomOK
  BY <1>1, FS_EmptySet, InterviewConstants DEF RoomOK, SI!Init, Pending, SI!InFlight
<1> QED BY <1>2, InterviewConstants
        DEF InterviewInv, InterviewShape, Outcomes, CleanOK, ReachedOK, SI!Init, SI!NoText

\* So every step keeps the invariant of the interview.
LEMMA InterviewStep ==
  ASSUME InterviewInv, SI!Next \/ UNCHANGED interview
  PROVE  InterviewInv'
<1>1. CASE SI!Next
  BY <1>1, InterviewShapeKept, CleanKept, ReachedKept, RoomKept DEF InterviewInv
<1>2. CASE UNCHANGED interview
  <2>1. Settled' = Settled
    BY <1>2 DEF interview, Settled
  <2>2. RoomOK'
    BY <1>2, <2>1 DEF interview, InterviewInv, RoomOK, Pending, SI!InFlight
  <2> QED BY <1>2, <2>2 DEF interview, InterviewInv, InterviewShape, CleanOK,
                            ReachedOK
<1> QED BY <1>1, <1>2

\* The budget of the interview and the scan of its answers, at every step of any number of
\* requests over any number of days (si_budget.check, standing_interview.answer).
THEOREM Interviews == Spec => [](part = "interview" => InterviewInv)
<1>1. Init => (part = "interview" => InterviewInv)
  BY InterviewInit DEF Init
<1>2. (part = "interview" => InterviewInv) /\ [Next]_vars => (part = "interview" => InterviewInv)'
  <2> SUFFICES ASSUME part = "interview" => InterviewInv, [Next]_vars, part' = "interview"
               PROVE  InterviewInv'
    OBVIOUS
  <2>1. part = "interview" /\ (SI!Next \/ UNCHANGED interview)
    BY DEF Next, vars
  <2> QED BY <2>1, InterviewStep
<1> QED BY <1>1, <1>2, PTL DEF Spec

-----------------------------------------------------------------------------
(* The model steps of the Triage Lab *)

LabPlaces == {"idle", "reserved", "generated", "preflighted", "compiled", "tested", "done"}
LabShape ==
  /\ lab_at \in [Clicks -> LabPlaces]
  /\ lab_request \in [Clicks -> Lab!Requests \cup {None}]
  /\ lab_verdict \in [Clicks -> [environment : BOOLEAN \cup {None},
                                 compile : BOOLEAN \cup {None}, test : BOOLEAN \cup {None}]]
  /\ lab_candidates \in [Scenarios -> Clicks \cup {None}]
  /\ lab_total \in Nat /\ lab_days \in Nat

\* A call that was made, or may still be made, was counted on its day.
Spent == lab_calls \cup {c \in Clicks : lab_at[c] = "reserved"}
CapOK ==
  /\ lab_total <= DailyMax
  /\ IsFiniteSet(Spent) /\ Cardinality(Spent) <= DailyMax * lab_days + lab_total

\* What a candidate has passed where it stands.
PassedOK ==
  \A c \in Clicks :
    /\ lab_at[c] \notin {"idle"} => lab_request[c] \in Lab!Requests
    /\ lab_at[c] \in {"compiled", "tested"} => lab_verdict[c].environment = TRUE
    /\ lab_at[c] = "tested" =>
         lab_verdict[c].compile = TRUE /\ lab_verdict[c].test \in BOOLEAN

\* Nothing befalls a candidate that is kept.
KeptOK ==
  \A s \in Scenarios : lab_candidates[s] # None =>
    LET c == lab_candidates[s]
    IN  /\ lab_at[c] = "done" /\ lab_request[c].scenario = s
        /\ lab_verdict[c] = [environment |-> TRUE, compile |-> TRUE, test |-> TRUE]

LabInv == LabShape /\ CapOK /\ PassedOK /\ KeptOK

-----------------------------------------------------------------------------
\* What is assumed of the constants.
LEMMA LabConstants ==
  /\ None \notin Clicks \cup Scenarios \cup Visitors \cup {Operator} /\ Operator \notin Visitors
  /\ None \notin {"DAILY_CAP_REACHED", "COOLDOWN", "VISITOR_DAILY_CAP_REACHED"}
  /\ DailyMax \in Nat
BY WorkbenchAssumption DEF WorkbenchAssumption, Lab!TriageAssumption

\* Every step keeps the shape.
LEMMA LabShapeKept ==
  ASSUME LabShape, PassedOK, Lab!Next
  PROVE  LabShape'
<1> USE DEF LabShape, LabPlaces
<1>1. ASSUME NEW c \in Clicks, NEW r \in Lab!Requests, Lab!Reserve(c, r)
      PROVE  LabShape'
  BY <1>1 DEF Lab!Reserve, Lab!Counted, Lab!Ends, Lab!GoOn
<1>2. ASSUME NEW c \in Clicks, Lab!Denied(c) PROVE LabShape'
  BY <1>2 DEF Lab!Denied, Lab!Ends, Lab!GoOn, Lab!budget
<1>3. ASSUME NEW c \in Clicks, Lab!Diagnose(c) PROVE LabShape'
  BY <1>3 DEF Lab!Diagnose, Lab!Ends, Lab!GoOn, Lab!budget, Lab!Calls
<1>4. ASSUME NEW c \in Clicks, Lab!Generate(c) PROVE LabShape'
  BY <1>4 DEF Lab!Generate, Lab!Ends, Lab!GoOn, Lab!budget, Lab!Calls
<1>5. ASSUME NEW c \in Clicks, Lab!Preflight(c) PROVE LabShape'
  BY <1>5 DEF Lab!Preflight, Lab!Ends, Lab!GoOn, Lab!budget, Lab!Look
<1>6. ASSUME NEW c \in Clicks, Lab!Compile(c) PROVE LabShape'
  BY <1>6 DEF Lab!Compile, Lab!Ends, Lab!GoOn, Lab!budget, Lab!Look
<1>7. ASSUME NEW c \in Clicks, Lab!Test(c) PROVE LabShape'
  BY <1>7 DEF Lab!Test, Lab!Ends, Lab!GoOn, Lab!budget, Lab!Look
<1>8. ASSUME NEW c \in Clicks, Lab!Conclude(c) PROVE LabShape'
  <2>1. lab_request[c] \in Lab!Requests
    BY <1>8 DEF Lab!Conclude, PassedOK
  <2>2. lab_candidates' \in [Scenarios -> Clicks \cup {None}]
    BY <1>8, <2>1 DEF Lab!Conclude, Lab!Kept, Lab!Requests
  <2> QED BY <1>8, <2>2 DEF Lab!Conclude, Lab!Ends, Lab!GoOn, Lab!budget
<1>9. ASSUME NEW v \in Visitors, Lab!CooldownPasses(v) PROVE LabShape'
  BY <1>9 DEF Lab!CooldownPasses, Lab!Ends, Lab!GoOn, Lab!budget
<1>10. ASSUME Lab!Midnight PROVE LabShape'
  BY <1>10 DEF Lab!Midnight, Lab!Ends, Lab!GoOn, Lab!budget
<1> QED BY <1>1, <1>2, <1>3, <1>4, <1>5,
           <1>6, <1>7, <1>8, <1>9, <1>10 DEF Lab!Next

\* Every step of the Lab keeps only what passed its gates.
LEMMA PassedKept ==
  ASSUME LabShape, PassedOK, Lab!Next
  PROVE  PassedOK'
<1> USE DEF LabShape, LabPlaces, PassedOK
<1>1. ASSUME NEW c \in Clicks, NEW r \in Lab!Requests, Lab!Reserve(c, r)
      PROVE  PassedOK'
  BY <1>1 DEF Lab!Reserve, Lab!Ends, Lab!GoOn
<1>2. ASSUME NEW c \in Clicks, Lab!Denied(c) PROVE PassedOK'
  BY <1>2 DEF Lab!Denied, Lab!Ends, Lab!GoOn, Lab!budget
<1>3. ASSUME NEW c \in Clicks, Lab!Diagnose(c) PROVE PassedOK'
  BY <1>3 DEF Lab!Diagnose, Lab!Ends, Lab!GoOn, Lab!budget, Lab!Calls
<1>4. ASSUME NEW c \in Clicks, Lab!Generate(c) PROVE PassedOK'
  BY <1>4 DEF Lab!Generate, Lab!Ends, Lab!GoOn, Lab!budget, Lab!Calls
<1>5. ASSUME NEW c \in Clicks, Lab!Preflight(c) PROVE PassedOK'
  BY <1>5 DEF Lab!Preflight, Lab!Ends, Lab!GoOn, Lab!budget, Lab!Look
<1>6. ASSUME NEW c \in Clicks, Lab!Compile(c) PROVE PassedOK'
  BY <1>6 DEF Lab!Compile, Lab!Ends, Lab!GoOn, Lab!budget, Lab!Look
<1>7. ASSUME NEW c \in Clicks, Lab!Test(c) PROVE PassedOK'
  BY <1>7 DEF Lab!Test, Lab!Ends, Lab!GoOn, Lab!budget, Lab!Look
<1>8. ASSUME NEW c \in Clicks, Lab!Conclude(c) PROVE PassedOK'
  BY <1>8 DEF Lab!Conclude, Lab!Ends, Lab!GoOn, Lab!budget
<1>9. ASSUME NEW v \in Visitors, Lab!CooldownPasses(v) PROVE PassedOK'
  BY <1>9 DEF Lab!CooldownPasses, Lab!Ends, Lab!GoOn, Lab!budget
<1>10. ASSUME Lab!Midnight PROVE PassedOK'
  BY <1>10 DEF Lab!Midnight, Lab!Ends, Lab!GoOn, Lab!budget
<1> QED BY <1>1, <1>2, <1>3, <1>4, <1>5,
           <1>6, <1>7, <1>8, <1>9, <1>10 DEF Lab!Next

\* What is kept is over and done with, so no step of a request changes it.
LEMMA CandidatesKept ==
  ASSUME LabShape, PassedOK, KeptOK, Lab!Next
  PROVE  KeptOK'
<1> USE LabConstants DEF LabShape, LabPlaces, KeptOK
<1>1. ASSUME NEW c \in Clicks, NEW r \in Lab!Requests, Lab!Reserve(c, r)
      PROVE  KeptOK'
  BY <1>1 DEF Lab!Reserve, Lab!Ends, Lab!GoOn
<1>2. ASSUME NEW c \in Clicks, Lab!Denied(c) PROVE KeptOK'
  BY <1>2 DEF Lab!Denied, Lab!Ends, Lab!GoOn, Lab!budget
<1>3. ASSUME NEW c \in Clicks, Lab!Diagnose(c) PROVE KeptOK'
  BY <1>3 DEF Lab!Diagnose, Lab!Ends, Lab!GoOn, Lab!budget, Lab!Calls
<1>4. ASSUME NEW c \in Clicks, Lab!Generate(c) PROVE KeptOK'
  BY <1>4 DEF Lab!Generate, Lab!Ends, Lab!GoOn, Lab!budget, Lab!Calls
<1>5. ASSUME NEW c \in Clicks, Lab!Preflight(c) PROVE KeptOK'
  BY <1>5 DEF Lab!Preflight, Lab!Ends, Lab!GoOn, Lab!budget, Lab!Look
<1>6. ASSUME NEW c \in Clicks, Lab!Compile(c) PROVE KeptOK'
  BY <1>6 DEF Lab!Compile, Lab!Ends, Lab!GoOn, Lab!budget, Lab!Look
<1>7. ASSUME NEW c \in Clicks, Lab!Test(c) PROVE KeptOK'
  BY <1>7 DEF Lab!Test, Lab!Ends, Lab!GoOn, Lab!budget, Lab!Look
<1>8. ASSUME NEW c \in Clicks, Lab!Conclude(c) PROVE KeptOK'
  <2>1. lab_request[c] \in Lab!Requests
    BY <1>8 DEF Lab!Conclude, PassedOK
  <2>2. CASE Lab!StatusOf(lab_verdict[c]) # "COMPILE_VERIFIED"
    BY <1>8, <2>2 DEF Lab!Conclude, Lab!Kept, Lab!Ends, Lab!GoOn
  <2>3. CASE Lab!StatusOf(lab_verdict[c]) = "COMPILE_VERIFIED"
    <3>1. lab_verdict[c] = [environment |-> TRUE, compile |-> TRUE, test |-> TRUE]
      BY <1>8, <2>3 DEF Lab!Conclude, Lab!Failed, Lab!StatusOf, PassedOK
    <3> QED BY <1>8, <2>1, <2>3, <3>1, ZenonT(40)
            DEF Lab!Conclude, Lab!Kept, Lab!Ends, Lab!GoOn, Lab!Requests
  <2> QED BY <2>2, <2>3
<1>9. ASSUME NEW v \in Visitors, Lab!CooldownPasses(v) PROVE KeptOK'
  BY <1>9 DEF Lab!CooldownPasses, Lab!Ends, Lab!GoOn, Lab!budget
<1>10. ASSUME Lab!Midnight PROVE KeptOK'
  BY <1>10 DEF Lab!Midnight, Lab!Ends, Lab!GoOn, Lab!budget
<1> QED BY <1>1, <1>2, <1>3, <1>4, <1>5,
           <1>6, <1>7, <1>8, <1>9, <1>10 DEF Lab!Next

\* A call is reserved before it is made, and nothing but a reservation adds to what is
\* spent.
SpentSteps ==
  \/ Spent' \subseteq Spent /\ UNCHANGED <<lab_total, lab_days>>
  \/ Spent' = Spent /\ lab_total' = 0 /\ lab_days' = lab_days + 1
  \/ /\ \E c \in Clicks : Spent' = Spent \cup {c}
     /\ lab_total < DailyMax /\ lab_total' = lab_total + 1 /\ lab_days' = lab_days

\* How a step may spend.
LEMMA Spending ==
  ASSUME LabShape, Lab!Next
  PROVE  SpentSteps
<1> USE LabConstants DEF LabShape, SpentSteps, Spent
<1>1. ASSUME NEW c \in Clicks, NEW r \in Lab!Requests, Lab!Reserve(c, r)
      PROVE  SpentSteps
  <2>1. CASE Lab!Refusal(r.by) = None
    <3>1. lab_total < DailyMax
      BY <2>1 DEF Lab!Refusal
    <3>2. Spent' = Spent \cup {c}
      BY <1>1, <2>1 DEF Lab!Reserve, Lab!GoOn
    <3>3. lab_total' = lab_total + 1 /\ lab_days' = lab_days
      BY <1>1, <2>1 DEF Lab!Reserve, Lab!Counted
    <3> QED BY <3>1, <3>2, <3>3
  <2>2. CASE Lab!Refusal(r.by) # None
    BY <1>1, <2>2 DEF Lab!Reserve, Lab!Ends, Lab!GoOn
  <2> QED BY <2>1, <2>2
<1>2. ASSUME NEW c \in Clicks, Lab!Denied(c) PROVE SpentSteps
  BY <1>2 DEF Lab!Denied, Lab!Ends, Lab!GoOn, Lab!budget
<1>3. ASSUME NEW c \in Clicks, Lab!Diagnose(c) PROVE SpentSteps
  BY <1>3 DEF Lab!Diagnose, Lab!Ends, Lab!GoOn, Lab!budget, Lab!Calls
<1>4. ASSUME NEW c \in Clicks, Lab!Generate(c) PROVE SpentSteps
  BY <1>4 DEF Lab!Generate, Lab!Ends, Lab!GoOn, Lab!budget, Lab!Calls
<1>5. ASSUME NEW c \in Clicks, Lab!Preflight(c) PROVE SpentSteps
  BY <1>5 DEF Lab!Preflight, Lab!Ends, Lab!GoOn, Lab!budget, Lab!Look
<1>6. ASSUME NEW c \in Clicks, Lab!Compile(c) PROVE SpentSteps
  BY <1>6 DEF Lab!Compile, Lab!Ends, Lab!GoOn, Lab!budget, Lab!Look
<1>7. ASSUME NEW c \in Clicks, Lab!Test(c) PROVE SpentSteps
  BY <1>7 DEF Lab!Test, Lab!Ends, Lab!GoOn, Lab!budget, Lab!Look
<1>8. ASSUME NEW c \in Clicks, Lab!Conclude(c) PROVE SpentSteps
  BY <1>8 DEF Lab!Conclude, Lab!Ends, Lab!GoOn, Lab!budget
<1>9. ASSUME NEW v \in Visitors, Lab!CooldownPasses(v) PROVE SpentSteps
  BY <1>9 DEF Lab!CooldownPasses, Lab!Ends, Lab!GoOn, Lab!budget
<1>10. ASSUME Lab!Midnight PROVE SpentSteps
  BY <1>10 DEF Lab!Midnight, Lab!Ends, Lab!GoOn, Lab!budget
<1> QED BY <1>1, <1>2, <1>3, <1>4, <1>5,
           <1>6, <1>7, <1>8, <1>9, <1>10 DEF Lab!Next

\* Every step stays within the cap of the days so far.
LEMMA CapKept ==
  ASSUME LabShape, CapOK, Lab!Next
  PROVE  CapOK'
<1>1. SpentSteps
  BY Spending
<1>2. IsFiniteSet(Spent) /\ Cardinality(Spent) \in Nat
  BY FS_CardinalityType DEF CapOK
<1>3. DailyMax \in Nat /\ lab_total \in Nat /\ lab_days \in Nat
  BY LabConstants DEF LabShape
<1>4. CASE Spent' \subseteq Spent /\ UNCHANGED <<lab_total, lab_days>>
  <2>1. IsFiniteSet(Spent') /\ Cardinality(Spent') \in Nat
        /\ Cardinality(Spent') <= Cardinality(Spent)
    BY <1>2, <1>4, FS_Subset, FS_CardinalityType
  <2>2. DailyMax * lab_days + lab_total \in Nat
    BY <1>3
  <2> QED BY <1>2, <1>4, <2>1, <2>2 DEF CapOK
<1>5. CASE Spent' = Spent /\ lab_total' = 0 /\ lab_days' = lab_days + 1
  <2>1. DailyMax * (lab_days + 1) = DailyMax * lab_days + DailyMax
    BY <1>3
  <2>2. DailyMax * lab_days \in Nat
    BY <1>3
  <2> QED BY <1>2, <1>3, <1>5, <2>1, <2>2 DEF CapOK
<1>6. CASE /\ \E c \in Clicks : Spent' = Spent \cup {c}
           /\ lab_total < DailyMax /\ lab_total' = lab_total + 1 /\ lab_days' = lab_days
  <2>0. PICK c \in Clicks : Spent' = Spent \cup {c}
    BY <1>6
  <2>1. IsFiniteSet(Spent') /\ Cardinality(Spent') \in Nat
        /\ Cardinality(Spent') <= Cardinality(Spent) + 1
    BY <1>2, <2>0, FS_AddElement
  <2>2. DailyMax * lab_days \in Nat
    BY <1>3
  <2> QED BY <1>2, <1>3, <1>6, <2>1, <2>2 DEF CapOK
<1> QED BY <1>1, <1>4, <1>5, <1>6 DEF SpentSteps

\* The invariant holds at the start.
LEMMA LabInit == Lab!Init => LabInv
<1> SUFFICES ASSUME Lab!Init PROVE LabInv
  OBVIOUS
<1>1. Spent = {}
  BY DEF Spent, Lab!Init
<1>2. CapOK
  BY <1>1, FS_EmptySet, LabConstants DEF CapOK, Lab!Init
<1>3. LabShape
  BY DEF LabShape, LabPlaces, Lab!Init, Lab!Unknown
<1> QED BY <1>2, <1>3, LabConstants DEF LabInv, PassedOK, KeptOK, Lab!Init

\* So every step keeps the invariant of the Lab.
LEMMA LabStep ==
  ASSUME LabInv, Lab!Next \/ UNCHANGED lab
  PROVE  LabInv'
<1>1. CASE Lab!Next
  BY <1>1, LabShapeKept, PassedKept, CandidatesKept, CapKept DEF LabInv
<1>2. CASE UNCHANGED lab
  <2>1. Spent' = Spent
    BY <1>2 DEF lab, Spent
  <2>2. CapOK'
    BY <1>2, <2>1 DEF lab, LabInv, CapOK
  <2>3. KeptOK'
    BY <1>2 DEF lab, LabInv, KeptOK
  <2> QED BY <1>2, <2>2, <2>3 DEF lab, LabInv, LabShape, LabPlaces, PassedOK
<1> QED BY <1>1, <1>2

\* The budget of the Triage Lab and its gates, at every step of any number of requests
\* over any number of days (triage_budget.check_and_reserve, triage_generate_candidate).
THEOREM LabSteps == Spec => [](part = "lab" => LabInv)
<1>1. Init => (part = "lab" => LabInv)
  BY LabInit DEF Init
<1>2. (part = "lab" => LabInv) /\ [Next]_vars => (part = "lab" => LabInv)'
  <2> SUFFICES ASSUME part = "lab" => LabInv, [Next]_vars, part' = "lab" PROVE LabInv'
    OBVIOUS
  <2>1. part = "lab" /\ (Lab!Next \/ UNCHANGED lab)
    BY DEF Next, vars
  <2> QED BY <2>1, LabStep
<1> QED BY <1>1, <1>2, PTL DEF Spec

-----------------------------------------------------------------------------
\* Interview's and TriageRepair's Cardinality is the library's.
LEMMA LibraryCardinality ==
  \A S : SI!Cardinality(S) = Cardinality(S) /\ Lab!Cardinality(S) = Cardinality(S)
<1> SUFFICES ASSUME NEW S
             PROVE  SI!Cardinality(S) = Cardinality(S) /\ Lab!Cardinality(S) = Cardinality(S)
  OBVIOUS
<1>1. SI!Cardinality(S) = Cardinality(S)
  BY Zenon DEF Cardinality, SI!Cardinality
<1>2. Lab!Cardinality(S) = Cardinality(S)
  BY Zenon DEF Cardinality, Lab!Cardinality
<1> QED BY <1>1, <1>2

\* Those who reached the model today are settled, but for one who is being answered.
LEMMA BudgetFollows ==
  ASSUME InterviewInv
  PROVE  SI!BudgetHolds
<1> DEFINE Today == {a \in Asks : si_reached[a] \in Visitors}
<1> SUFFICES ASSUME ~si_overlapped PROVE Cardinality(Today) <= DailyMax
  BY LibraryCardinality DEF SI!BudgetHolds
<1>1. IsFiniteSet(Settled) /\ Cardinality(Settled) \in Nat /\ Cardinality(Settled) <= DailyMax
  BY FS_CardinalityType DEF InterviewInv, RoomOK
<1>2. \A a \in Asks : si_reached[a] \in Visitors => a \in Settled \/ Pending(a)
  BY InterviewConstants DEF InterviewInv, ReachedOK, Settled, Pending, SI!InFlight
<1>3. CASE Today \subseteq Settled
  <2>1. Cardinality(Today) <= Cardinality(Settled) /\ Cardinality(Today) \in Nat
    BY <1>1, <1>3, FS_Subset, FS_CardinalityType
  <2> QED BY <1>1, <2>1, InterviewConstants
<1>4. CASE \E a \in Today : a \notin Settled
  <2>1. PICK a \in Asks : a \in Today /\ Pending(a)
    BY <1>2, <1>4
  <2>2. Today \subseteq Settled \cup {a}
    BY <1>2, <2>1 DEF InterviewInv, RoomOK
  <2>3. IsFiniteSet(Settled \cup {a}) /\ Cardinality(Settled \cup {a}) \in Nat
    BY <1>1, FS_AddElement, FS_CardinalityType
  <2>7. Cardinality(Settled \cup {a}) =
          IF a \in Settled THEN Cardinality(Settled) ELSE Cardinality(Settled) + 1
    BY <1>1, FS_AddElement
  <2>6. Cardinality(Settled \cup {a}) <= Cardinality(Settled) + 1
    BY <1>1, <2>7
  <2>4. Cardinality(Today) <= Cardinality(Settled \cup {a}) /\ Cardinality(Today) \in Nat
    BY <2>2, <2>3, FS_Subset, FS_CardinalityType
  <2>5. Cardinality(Settled) < DailyMax
    BY <2>1 DEF InterviewInv, RoomOK
  <2> QED BY <1>1, <2>3, <2>4, <2>5, <2>6, InterviewConstants
<1> QED BY <1>3, <1>4

\* What the run checks of the cap follows from it.
LEMMA CapFollows ==
  ASSUME LabInv
  PROVE  Lab!CallsWithinCap
<1>1. IsFiniteSet(Spent) /\ Cardinality(Spent) \in Nat
  BY FS_CardinalityType DEF LabInv, CapOK
<1>2. Cardinality(lab_calls) <= Cardinality(Spent) /\ Cardinality(lab_calls) \in Nat
  BY <1>1, FS_Subset, FS_CardinalityType DEF Spent
<1>3. DailyMax \in Nat /\ lab_days \in Nat /\ lab_total \in Nat /\ lab_total <= DailyMax
      /\ Cardinality(Spent) <= DailyMax * lab_days + lab_total
  BY LabConstants DEF LabInv, LabShape, CapOK
<1>4. DailyMax * (lab_days + 1) = DailyMax * lab_days + DailyMax
      /\ DailyMax * lab_days \in Nat
  BY <1>3
<1>5. Cardinality(lab_calls) <= DailyMax * (lab_days + 1)
  BY <1>1, <1>2, <1>3, <1>4
<1> QED BY <1>5, LibraryCardinality DEF Lab!CallsWithinCap

\* However requests interleave, with one another and with midnight: the visitors of the
\* interview who are answered one after another never cost more answers than its budget,
\* what it shows passed the scan; the lab never calls the model more often than its cap
\* allows for the days it ran, and keeps only candidates that passed (si_budget.check,
\* standing_interview.answer, triage_budget.check_and_reserve, triage_generate_candidate).
THEOREM WithinBudget == Spec => []BudgetsAndGatesHold
<1>1. InterviewInv => SI!BudgetHolds /\ SI!ShownIsClean
  BY BudgetFollows DEF InterviewInv, CleanOK, SI!ShownIsClean
<1>2. LabInv => Lab!CallsWithinCap /\ Lab!KeptPassed
  BY CapFollows DEF LabInv, KeptOK, Lab!KeptPassed
<1>3. (part = "interview" => InterviewInv) /\ (part = "lab" => LabInv) => BudgetsAndGatesHold
  BY <1>1, <1>2 DEF BudgetsAndGatesHold
<1> QED BY <1>3, Interviews, LabSteps, PTL

-----------------------------------------------------------------------------
(* What the invariant says *)

Enrolling == {"acquire", "read", "write"}
Working   == Enrolling \cup {"branch", "again", "commit", "report"}
Places    == Working \cup {"idle", "done", "reset", "reproduce", "verify", "login", "approve"}
AnyTerms  == Offers \cup {Scene!LabTerms}
PlanType  == [rows : Nat, active : AnyTerms \cup {None}]
OwnType   == [rows : Nat, active : AnyTerms]
Tokens    == Visits \X {1, 2}

Codes     == {"200", "401", "409", "500", "502", "ENVIRONMENT_INVALID", "no mvnw", "passed",
              "failed"}
Results   == [status : Codes] \cup [status : Codes, defect : BOOLEAN, fixed : BOOLEAN]

SceneShape ==
  /\ scene_at \in [Visits -> Places]
  /\ scene_question \in [Visits -> Scene!Questions \cup {None}]
  /\ scene_on \in [Visits -> Scene!Customers \cup {None}]
  /\ scene_turn \in [Visits -> {1, 2}]
  /\ scene_read \in [Visits -> PlanType]
  /\ scene_own \in [Visits -> [Scene!Customers -> OwnType \cup {None}]]
  /\ scene_before \in [Visits -> Nat]
  /\ scene_ran \in [Visits -> BOOLEAN]
  /\ scene_plans \in [Scene!Customers -> PlanType]
  /\ scene_events \in [Scene!Customers -> Seq(AnyTerms)]
  /\ scene_lock \in [Scene!Customers -> Tokens \cup {None}]
  /\ scene_fixed \in [Scene!Stories -> BOOLEAN]
  /\ scene_customer \in Scene!Customers \cup {None}
  /\ scene_expiries \in Nat
  /\ scene_overlapped \subseteq Visits

Is(r, kind) == scene_question[r] # None /\ scene_question[r].kind = kind
Plan(r)     == Is(r, "enroll")
Played(r)   == Is(r, "reproduce")
Run(r)      == Played(r) /\ scene_question[r].scenario = "a"

ResultShape == scene_result \in [Visits -> Results \cup {None}]

\* Where a request is tells what it asks for, and which of its enrollments it is at.
AskedOK ==
  /\ scene_customer # Scene!Shopper
  /\ \A r \in Visits :
       /\ scene_at[r] # "idle" => scene_question[r] \in Scene!Questions
       /\ scene_at[r] \in Enrolling => Plan(r) \/ Run(r)
       /\ scene_at[r] \in {"branch", "again"} => Run(r)
       /\ scene_at[r] \in {"reproduce", "report"} => Played(r)
       /\ scene_at[r] = "commit" => Plan(r)
       /\ scene_at[r] = "reset" => Is(r, "reset")
       /\ scene_at[r] = "verify" => Is(r, "verify")
       /\ scene_at[r] \in {"login", "approve"} => Is(r, "approve")
       /\ scene_at[r] \in {"idle", "reproduce", "branch", "again"} => scene_turn[r] = 1
       /\ scene_at[r] \in {"idle", "reproduce"} => scene_before[r] = 0
       /\ Plan(r) => scene_turn[r] = 1
       /\ scene_at[r] \in Enrolling =>
            /\ Plan(r) => scene_on[r] = Scene!Shopper
            /\ Run(r) => scene_on[r] \in Scene!Customers \ {Scene!Shopper}
                         /\ scene_customer # None /\ scene_on[r] <= scene_customer
       /\ scene_at[r] \in Working /\ Run(r) => scene_customer # None
\* Customers the lab has not come to yet.
Ahead(c) == c # Scene!Shopper /\ (scene_customer = None \/ c > scene_customer)

\* Who counts: the old code of the lab writes no events.
Counts(r) == Plan(r) \/ scene_ran[r]

\* A customer has one writer at a time, who changes her plan for another.
WriterOK ==
  /\ \A r \in Visits, c \in Scene!Customers : scene_own[r][c] # None =>
       /\ scene_at[r] \in {"commit", "report", "again"}
          \/ (scene_at[r] \in Enrolling /\ scene_turn[r] = 2)
       /\ ~Ahead(c)
       /\ IF c = Scene!Shopper THEN Plan(r)
          ELSE Run(r) /\ scene_own[r][c].active = Scene!LabTerms
       /\ Counts(r) => scene_own[r][c].active # scene_plans[c].active
       /\ \A x \in Visits : scene_own[x][c] # None => x = r
  /\ \A r \in Visits : scene_at[r] = "write" /\ Counts(r) =>
       scene_read[r].active # Scene!WantedTerms(r)

\* The last event of a customer tells the plan she has.
EventsOK ==
  \A c \in Scene!Customers :
    /\ scene_events[c] # <<>> => scene_plans[c].active = scene_events[c][Len(scene_events[c])]
    /\ c # Scene!Shopper => scene_plans[c].active \in {None, Scene!LabTerms}
    /\ Ahead(c) => scene_plans[c].rows = 0
    /\ \A i \in 1..(Len(scene_events[c]) - 1) : scene_events[c][i] # scene_events[c][i + 1]

\* With the lock service there, and no lock run out, an enrollment owns its customer's
\* lock from the time it reads to its commit, and what it read is what is there.
HolderAt(r) ==
  Plan(r) =>
    /\ scene_at[r] \in {"read", "write", "commit"} => scene_lock[Scene!Shopper] = <<r, 1>>
    /\ scene_at[r] = "write" => scene_read[r] = scene_plans[Scene!Shopper]
    /\ scene_at[r] = "done" => scene_result[r].status # "500"
HolderOK == scene_redis /\ scene_expiries = 0 => \A r \in Visits : HolderAt(r)

\* The rows a run of scenario "a" has made so far, where nobody came between.
Made(r, n) == Scene!View(r, scene_customer).rows = scene_before[r] + n
Quiet(r) == r \notin scene_overlapped
FirstHalf(r)  == scene_at[r] = "branch" \/ (scene_at[r] \in Enrolling /\ scene_turn[r] = 1)
SecondHalf(r) == scene_at[r] = "again" \/ (scene_at[r] \in Enrolling /\ scene_turn[r] = 2)
CountAt(r) ==
  /\ Run(r) /\ scene_at[r] \in Enrolling => scene_on[r] = scene_customer
  /\ Run(r) /\ scene_at[r] \in Enrolling \cup {"again", "report"} =>
       scene_fixed["a"] = scene_ran[r]
  /\ Run(r) /\ FirstHalf(r) => Made(r, 0)
  /\ Run(r) /\ SecondHalf(r) =>
       IF scene_ran[r]
         THEN (Made(r, 0) \/ Made(r, 1))
              /\ Scene!View(r, scene_customer).active = Scene!LabTerms
         ELSE Made(r, 1)
  /\ Run(r) /\ scene_at[r] = "report" =>
       IF scene_ran[r] THEN Made(r, 0) \/ Made(r, 1) ELSE Made(r, 2)
  /\ Played(r) /\ ~Run(r) /\ scene_at[r] = "report" => scene_fixed["b"] = scene_ran[r]
  /\ Played(r) /\ scene_at[r] = "done" /\ scene_result[r].status = "200" =>
       scene_result[r].defect = ~scene_ran[r] /\ scene_result[r].fixed = scene_ran[r]
CountOK == \A r \in Visits : Quiet(r) => CountAt(r)

SceneInv == SceneShape /\ ResultShape /\ AskedOK /\ WriterOK /\ EventsOK /\ HolderOK
  /\ CountOK

-----------------------------------------------------------------------------
(* Types *)

\* A Python None is none of the things a variable holds instead of it.
LEMMA SceneConstants ==
  /\ None \notin Visits \cup AnyTerms \cup Scene!Questions /\ None \notin Nat
  /\ None \notin Tokens /\ None \notin PlanType /\ None \notin OwnType
BY WorkbenchAssumption
   DEF WorkbenchAssumption, Scene!ScenarioAssumption, AnyTerms, Tokens, PlanType,
       OwnType

\* The shopper and the customers of the reproductions are customers.
LEMMA SceneCustomers ==
  /\ Scene!Shopper \in Scene!Customers
  /\ \A c \in Scene!Customers : c \in Nat /\ (c # Scene!Shopper => c >= 1)
BY WorkbenchAssumption
   DEF WorkbenchAssumption, Scene!ScenarioAssumption, Scene!Customers, Scene!Shopper

\* What may be asked of the service.
LEMMA SceneQuestions ==
  \A q \in Scene!Questions :
    /\ q.kind \in {"enroll", "reset", "reproduce", "verify", "approve"}
    /\ q.kind = "enroll" => q.terms \in Offers
    /\ q.kind # "enroll" => q.scenario \in {"a", "b"}
BY DEF Scene!Questions, Scene!Stories

\* A reset of scenario "a" comes to a customer nobody had.
LEMMA NewCustomer ==
  ASSUME SceneShape, NEW s, Scene!ResetEffect(s)
  PROVE  \/ scene_customer' = scene_customer
         \/ /\ s = "a" /\ scene_customer' \in Scene!Customers \ {Scene!Shopper}
            /\ scene_customer' # None
            /\ scene_customer # None => scene_customer' = scene_customer + 1
<1>1. CASE s # "a"
  BY <1>1 DEF Scene!ResetEffect
<1>2. CASE s = "a"
  <2>1. scene_customer' = Scene!NextCustomer /\ Scene!NextCustomer \in Scene!Customers
    BY <1>2 DEF Scene!ResetEffect
  <2>2. scene_customer # None => scene_customer \in Nat
    BY SceneCustomers DEF SceneShape
  <2> QED BY <1>2, <2>1, <2>2, SceneConstants, SceneCustomers
          DEF Scene!NextCustomer, Scene!Shopper
<1> QED BY <1>1, <1>2

\* Where a request goes first.
LEMMA Asking ==
  ASSUME SceneShape, NEW r \in Visits, NEW q \in Scene!Questions, Scene!Ask(r, q)
  PROVE  /\ scene_at[r] = "idle" /\ scene_question' = [scene_question EXCEPT ![r] = q]
         /\ \E to \in {"acquire", "login", "reset", "reproduce", "verify"} :
              /\ scene_at' = [scene_at EXCEPT ![r] = to]
              /\ to = "acquire" <=> q.kind = "enroll"
              /\ to = "login" <=> q.kind = "approve"
              /\ \A k \in {"reset", "reproduce", "verify"} : to = k <=> q.kind = k
         /\ \E c \in Scene!Customers \cup {None} :
              /\ scene_on' = [scene_on EXCEPT ![r] = c]
              /\ q.kind = "enroll" => c = Scene!Shopper
         /\ UNCHANGED <<scene_redis, scene_lock, scene_expiries, scene_plans, scene_events,
                        scene_customer, scene_fixed, scene_turn, scene_read, scene_own,
                        scene_before, scene_ran, scene_result, scene_overlapped>>
<1>1. q.kind \in {"enroll", "reset", "reproduce", "verify", "approve"}
  BY SceneQuestions
<1>2. \E to \in {"acquire", "login", "reset", "reproduce", "verify"} :
        /\ scene_at' = [scene_at EXCEPT ![r] = to]
        /\ to = "acquire" <=> q.kind = "enroll"
        /\ to = "login" <=> q.kind = "approve"
        /\ \A k \in {"reset", "reproduce", "verify"} : to = k <=> q.kind = k
  <2>1. CASE q.kind = "enroll"
    BY <2>1 DEF Scene!Ask
  <2>2. CASE q.kind = "approve"
    BY <2>2 DEF Scene!Ask
  <2>3. CASE q.kind \in {"reset", "reproduce", "verify"}
    <3>1. scene_at' = [scene_at EXCEPT ![r] = q.kind]
      BY <2>3 DEF Scene!Ask
    <3> QED BY <2>3, <3>1
  <2> QED BY <1>1, <2>1, <2>2, <2>3
<1>3. \E c \in Scene!Customers \cup {None} :
        scene_on' = [scene_on EXCEPT ![r] = c] /\ (q.kind = "enroll" => c = Scene!Shopper)
  BY SceneCustomers DEF Scene!Ask
<1> QED BY <1>2, <1>3 DEF Scene!Ask, Scene!locks, Scene!tables, Scene!state,
                          Scene!local

\* What a request sees of a customer is a plan, and a lock of hers is a token or none.
LEMMA ViewType ==
  ASSUME SceneShape
  PROVE  \A r \in Visits, c \in Scene!Customers : Scene!View(r, c) \in PlanType
<1>1. OwnType \subseteq PlanType
  BY DEF OwnType, PlanType
<1> QED BY <1>1 DEF SceneShape, Scene!View

\* A lock that is given back leaves a table of locks.
LEMMA ReleasedType ==
  ASSUME SceneShape
  PROVE  \A r \in Visits : Scene!Released(r) \in [Scene!Customers -> Tokens \cup {None}]
<1>1. \A c \in Scene!Customers : scene_lock[c] \in Tokens \cup {None}
  BY DEF SceneShape
<1> QED BY <1>1 DEF Scene!Released

\* The end of a transaction, whether it is committed or not.
EndsAs(r) ==
  /\ scene_at' = [scene_at EXCEPT ![r] = "done"]
  /\ scene_own' = [scene_own EXCEPT ![r] = [c \in Scene!Customers |-> None]]
  /\ scene_lock' = Scene!Released(r)
  /\ UNCHANGED <<scene_redis, scene_expiries, scene_customer, scene_fixed, scene_question,
                 scene_on, scene_turn, scene_read, scene_before, scene_ran>>

\* The three ends of a transaction, and whom they disturb.
LEMMA Ending ==
  ASSUME NEW r, NEW x, Scene!End(r, x)
  PROVE  EndsAs(r) /\ scene_result' = [scene_result EXCEPT ![r] = x]
BY DEF Scene!End, EndsAs, Scene!Answers, Scene!state

\* A rollback leaves the tables alone.
LEMMA RollingBack ==
  ASSUME NEW r, NEW x, Scene!RollBack(r, x)
  PROVE  /\ EndsAs(r) /\ scene_result' = [scene_result EXCEPT ![r] = x]
         /\ UNCHANGED <<scene_plans, scene_events, scene_overlapped>>
BY Ending DEF Scene!RollBack, Scene!tables

CommitsAs(r) ==
  /\ EndsAs(r)
  /\ scene_plans' = [c \in Scene!Customers |-> Scene!View(r, c)]
  /\ scene_events' = [c \in Scene!Customers |->
       IF scene_own[r][c] # None /\ (scene_question[r].kind = "enroll" \/ scene_ran[r])
         THEN Append(scene_events[c], scene_own[r][c].active) ELSE scene_events[c]]

\* A commit is seen as the invariant speaks of it.
LEMMA Committing ==
  ASSUME NEW r, NEW x, Scene!Commit(r, x)
  PROVE  CommitsAs(r) /\ scene_result' = [scene_result EXCEPT ![r] = x]
BY Ending DEF Scene!Commit, CommitsAs

\* Who is in the way of a run.
LEMMA Disturbing ==
  ASSUME NEW r, NEW s, Scene!Disturbs(r, s)
  PROVE  scene_overlapped' = scene_overlapped \cup
           {x \in Visits \ {r} : Scene!IsRun(x, s) /\ scene_at[x] \notin {"idle", "done"}}
BY DEF Scene!Disturbs

\* An end keeps the types of what it changes.
LEMMA EndShape ==
  ASSUME SceneShape, NEW r \in Visits, EndsAs(r)
  PROVE  /\ scene_at' \in [Visits -> Places]
         /\ scene_own' \in [Visits -> [Scene!Customers -> OwnType \cup {None}]]
         /\ scene_lock' \in [Scene!Customers -> Tokens \cup {None}]
<1>1. [c \in Scene!Customers |-> None] \in [Scene!Customers -> OwnType \cup {None}]
  OBVIOUS
<1> QED BY <1>1, ReleasedType DEF EndsAs, SceneShape, Places

\* A rollback keeps the shape of all there is.
LEMMA RollBackShape ==
  ASSUME SceneShape, NEW r \in Visits, NEW x, Scene!RollBack(r, x)
  PROVE  SceneShape'
<1>1. EndsAs(r) /\ UNCHANGED <<scene_plans, scene_events, scene_overlapped>>
  BY RollingBack
<1>2. /\ scene_at' \in [Visits -> Places]
      /\ scene_own' \in [Visits -> [Scene!Customers -> OwnType \cup {None}]]
      /\ scene_lock' \in [Scene!Customers -> Tokens \cup {None}]
  BY <1>1, EndShape
<1> QED BY <1>1, <1>2 DEF EndsAs, SceneShape

\* A commit keeps the shape of plans and events.
LEMMA CommitShape ==
  ASSUME SceneShape, NEW r \in Visits, CommitsAs(r)
  PROVE  /\ scene_plans' \in [Scene!Customers -> PlanType]
         /\ scene_events' \in [Scene!Customers -> Seq(AnyTerms)]
<1>1. scene_plans' \in [Scene!Customers -> PlanType]
  BY ViewType DEF CommitsAs
<1>2. ASSUME NEW c \in Scene!Customers PROVE scene_events'[c] \in Seq(AnyTerms)
  <2>1. scene_events[c] \in Seq(AnyTerms) /\ (scene_own[r][c] # None =>
             scene_own[r][c].active \in AnyTerms)
    BY DEF SceneShape, OwnType
  <2>2. scene_events'[c] = IF scene_own[r][c] # None
          /\ (scene_question[r].kind = "enroll" \/ scene_ran[r])
                             THEN Append(scene_events[c], scene_own[r][c].active)
                             ELSE scene_events[c]
    BY DEF CommitsAs
  <2> QED BY <2>1, <2>2
<1>3. scene_events' = [c \in Scene!Customers |-> scene_events'[c]]
  BY DEF CommitsAs
<1> QED BY <1>1, <1>2, <1>3

-----------------------------------------------------------------------------
(* What a request is at *)

\* No step takes a request to a place its question does not lead to.
LEMMA AskedKept ==
  ASSUME SceneShape, AskedOK, Scene!Next
  PROVE  AskedOK'
<1> USE SceneConstants, SceneCustomers, SceneQuestions
    DEF SceneShape, AskedOK, Plan, Run, Played, Is, Enrolling, Working
<1>1. ASSUME NEW r \in Visits, NEW q \in Scene!Questions, Scene!Ask(r, q)
      PROVE  AskedOK'
  <2>1. PICK to \in {"acquire", "login", "reset", "reproduce", "verify"} :
          /\ scene_at' = [scene_at EXCEPT ![r] = to]
          /\ to = "acquire" <=> q.kind = "enroll"
          /\ to = "login" <=> q.kind = "approve"
          /\ \A k \in {"reset", "reproduce", "verify"} : to = k <=> q.kind = k
    BY <1>1, Asking
  <2>2. PICK c \in Scene!Customers \cup {None} :
          scene_on' = [scene_on EXCEPT ![r] = c] /\ (q.kind = "enroll" => c = Scene!Shopper)
    BY <1>1, Asking
  <2>3. /\ scene_at[r] = "idle" /\ scene_question' = [scene_question EXCEPT ![r] = q]
        /\ UNCHANGED <<scene_turn, scene_before, scene_customer>>
    BY <1>1, Asking
  <2> QED BY <2>1, <2>2, <2>3
<1>2. ASSUME NEW r \in Visits, Scene!Acquire(r) PROVE AskedOK'
  BY <1>2, SMTT(20) DEF Scene!Acquire, Scene!GoOn, Scene!Answers, Scene!Answer,
              Scene!RollBack, Scene!End, Scene!Released, Scene!locks, Scene!tables,
              Scene!state, Scene!local
<1>3. ASSUME NEW r \in Visits, Scene!ReadActive(r) PROVE AskedOK'
  BY <1>3 DEF Scene!ReadActive, Scene!GoOn, Scene!Answers, Scene!Answer,
              Scene!ReleasedAtReturn, Scene!IsSameTerms, Scene!IsOld, Scene!Next1,
              Scene!locks, Scene!tables, Scene!state, Scene!local
<1>4. ASSUME NEW r \in Visits, Scene!Write(r) PROVE AskedOK'
  BY <1>4 DEF Scene!Write, Scene!GoOn, Scene!Answers, Scene!Answer, Scene!RollBack,
              Scene!End, Scene!Released, Scene!ReleasedAtReturn, Scene!Next1,
              Scene!locks, Scene!tables, Scene!state, Scene!local
<1>5. ASSUME NEW r \in Visits, Scene!CommitEnrollment(r) PROVE AskedOK'
  BY <1>5 DEF Scene!CommitEnrollment, Scene!GoOn, Scene!Answers, Scene!Answer,
              Scene!Commit, Scene!End, Scene!Released, Scene!Disturbs, Scene!locks,
              Scene!tables, Scene!state, Scene!local
<1>6. ASSUME NEW r \in Visits, Scene!Reset(r) PROVE AskedOK'
  <2>1. scene_customer' = scene_customer \/
          (/\ scene_customer' \in Scene!Customers \ {Scene!Shopper} /\ scene_customer' # None
           /\ scene_customer # None => scene_customer' = scene_customer + 1)
    BY <1>6, NewCustomer DEF Scene!Reset
  <2> QED BY <1>6, <2>1 DEF Scene!Reset, Scene!GoOn, Scene!locks, Scene!tables,
                            Scene!local
<1>7. ASSUME NEW r \in Visits, Scene!Login(r) PROVE AskedOK'
  BY <1>7 DEF Scene!Login, Scene!GoOn, Scene!Answers, Scene!Answer, Scene!locks,
              Scene!tables, Scene!state, Scene!local
<1>8. ASSUME NEW r \in Visits, Scene!Approve(r) PROVE AskedOK'
  BY <1>8 DEF Scene!Approve, Scene!GoOn, Scene!Answers, Scene!Answer,
              Scene!Disturbs, Scene!locks, Scene!tables, Scene!state, Scene!local
<1>9. ASSUME NEW r \in Visits, Scene!Unreachable(r) PROVE AskedOK'
  BY <1>9 DEF Scene!Unreachable, Scene!GoOn, Scene!Answers, Scene!Answer,
              Scene!locks, Scene!tables, Scene!state, Scene!local
<1>10. ASSUME NEW r \in Visits, Scene!Verify(r) PROVE AskedOK'
  <2>1. /\ scene_at[r] = "verify" /\ scene_at' = [scene_at EXCEPT ![r] = "done"]
        /\ UNCHANGED <<scene_question, scene_on, scene_turn, scene_before, scene_customer>>
    BY <1>10 DEF Scene!Verify, Scene!GoOn, Scene!state, Scene!local
  <2> QED BY <2>1
<1>11. ASSUME NEW r \in Visits, Scene!CountBefore(r) PROVE AskedOK'
  <2>1. (scene_customer' = scene_customer /\ scene_customer # None) \/
          (/\ scene_customer' \in Scene!Customers \ {Scene!Shopper} /\ scene_customer' # None
           /\ scene_customer = None)
    <3>1. CASE scene_customer = None
      BY <1>11, <3>1 DEF Scene!CountBefore, Scene!ResetEffect, Scene!NextCustomer,
                         Scene!Shopper
    <3>2. CASE scene_customer # None
      BY <1>11, <3>2 DEF Scene!CountBefore, Scene!state
    <3> QED BY <3>1, <3>2
  <2> QED BY <1>11, <2>1 DEF Scene!CountBefore, Scene!IsRun, Scene!GoOn,
                             Scene!locks,
                         Scene!tables
<1>12. ASSUME NEW r \in Visits, Scene!Branch(r) PROVE AskedOK'
  BY <1>12 DEF Scene!Branch, Scene!locks, Scene!tables, Scene!state, Scene!local
<1>13. ASSUME NEW r \in Visits, Scene!Again(r) PROVE AskedOK'
  BY <1>13 DEF Scene!Again, Scene!GoOn, Scene!Answers, Scene!Answer, Scene!locks,
               Scene!tables, Scene!state, Scene!local
<1>14. ASSUME NEW r \in Visits, Scene!Report(r) PROVE AskedOK'
  BY <1>14 DEF Scene!Report, Scene!GoOn, Scene!Answers, Scene!Answer, Scene!Commit,
               Scene!End, Scene!Released, Scene!Disturbs, Scene!locks, Scene!tables,
               Scene!state, Scene!local
<1>15. ASSUME NEW c \in Scene!Customers, Scene!LockExpires(c) PROVE AskedOK'
  BY <1>15 DEF Scene!LockExpires, Scene!locks, Scene!tables, Scene!state,
               Scene!local
<1> QED BY <1>1, <1>2, <1>3, <1>4, <1>5, <1>6, <1>7, <1>8,
           <1>9, <1>10, <1>11, <1>12, <1>13, <1>14, <1>15 DEF Scene!Next


\* A new row is a plan, of terms somebody offers.
LEMMA Wanted ==
  ASSUME SceneShape, AskedOK, NEW r \in Visits, scene_at[r] \in Enrolling
  PROVE  Scene!WantedTerms(r) \in AnyTerms
BY SceneQuestions
   DEF AskedOK, Enrolling, Plan, Run, Played, Is, Scene!WantedTerms, AnyTerms

\* A new row is one.
LEMMA NewRow ==
  ASSUME SceneShape, AskedOK, NEW r \in Visits, scene_at[r] = "write"
  PROVE  [rows |-> scene_read[r].rows + 1, active |-> Scene!WantedTerms(r)] \in OwnType
<1>1. scene_read[r] \in PlanType
  BY DEF SceneShape
<1>2. Scene!WantedTerms(r) \in AnyTerms
  BY Wanted DEF Enrolling
<1> QED BY <1>1, <1>2 DEF OwnType, PlanType

-----------------------------------------------------------------------------
(* Types are kept *)

\* Every step keeps the shape.
LEMMA SceneShapeKept ==
  ASSUME SceneShape, AskedOK, Scene!Next
  PROVE  SceneShape'
<1> USE SceneConstants, SceneCustomers DEF SceneShape, Places, Working, Enrolling
<1>1. ASSUME NEW r \in Visits, NEW q \in Scene!Questions, Scene!Ask(r, q)
      PROVE  SceneShape'
  <2>1. PICK to \in {"acquire", "login", "reset", "reproduce", "verify"} :
          scene_at' = [scene_at EXCEPT ![r] = to]
    BY <1>1, Asking
  <2>2. PICK c \in Scene!Customers \cup {None} : scene_on' = [scene_on EXCEPT ![r] = c]
    BY <1>1, Asking
  <2>3. /\ scene_question' = [scene_question EXCEPT ![r] = q]
        /\ UNCHANGED <<scene_lock, scene_expiries, scene_plans, scene_events,
                        scene_customer, scene_fixed, scene_turn, scene_read, scene_own,
                        scene_before, scene_ran, scene_result, scene_overlapped>>
    BY <1>1, Asking
  <2> QED BY <2>1, <2>2, <2>3
<1>2. ASSUME NEW r \in Visits, Scene!Acquire(r) PROVE SceneShape'
  <2>1. CASE Scene!RollBack(r, Scene!Answer("409"))
    BY <1>2, <2>1, RollBackShape
  <2>2. CASE /\ Scene!GoOn(r, "acquire", "read")
             /\ scene_lock' = IF scene_redis
                                THEN [scene_lock EXCEPT ![scene_on[r]] = <<r, scene_turn[r]>>]
                                ELSE scene_lock
             /\ UNCHANGED <<scene_expiries, Scene!tables, Scene!state, scene_question,
                             Scene!local, scene_result, scene_overlapped>>
    <3>1. <<r, scene_turn[r]>> \in Tokens
      BY DEF Tokens
    <3>2. scene_lock' \in [Scene!Customers -> Tokens \cup {None}]
      BY <2>2, <3>1
    <3> QED BY <2>2, <3>2 DEF Scene!GoOn, Scene!tables, Scene!state, Scene!local
  <2> QED BY <1>2, <2>1, <2>2 DEF Scene!Acquire
<1>3. ASSUME NEW r \in Visits, Scene!ReadActive(r) PROVE SceneShape'
  <2>1. scene_read' \in [Visits -> PlanType]
    BY <1>3, ViewType DEF Scene!ReadActive, AskedOK
  <2>2. /\ \E to \in {"commit", "again", "report", "write"} :
                scene_at' = [scene_at EXCEPT ![r] = to]
        /\ scene_lock' = scene_lock
    BY <1>3 DEF Scene!ReadActive, Scene!GoOn, Scene!Next1, Scene!ReleasedAtReturn
  <2> QED BY <1>3, <2>1, <2>2 DEF Scene!ReadActive, Scene!tables, Scene!state
<1>4. ASSUME NEW r \in Visits, Scene!Write(r) PROVE SceneShape'
  <2>1. CASE Scene!RollBack(r, Scene!Answer("500"))
    BY <1>4, <2>1, RollBackShape
  <2>2. CASE ~Scene!RollBack(r, Scene!Answer("500"))
    <3>1. [rows |-> scene_read[r].rows + 1, active |-> Scene!WantedTerms(r)] \in OwnType
      BY <1>4, NewRow DEF Scene!Write
    <3>2. scene_own' = [scene_own EXCEPT ![r][scene_on[r]] =
                         [rows |-> scene_read[r].rows + 1, active |-> Scene!WantedTerms(r)]]
      BY <1>4, <2>2 DEF Scene!Write
    <3>3. scene_own' \in [Visits -> [Scene!Customers -> OwnType \cup {None}]]
      BY <3>1, <3>2
    <3>4. /\ \E to \in {"commit", "again", "report"} : scene_at' = [scene_at EXCEPT ![r] = to]
          /\ scene_lock' = scene_lock
      BY <1>4, <2>2 DEF Scene!Write, Scene!GoOn, Scene!Next1, Scene!ReleasedAtReturn
    <3> QED BY <1>4, <2>2, <3>3, <3>4 DEF Scene!Write, Scene!tables, Scene!state
  <2> QED BY <2>1, <2>2
<1>5. ASSUME NEW r \in Visits, Scene!CommitEnrollment(r) PROVE SceneShape'
  <2>1. CommitsAs(r) /\ EndsAs(r)
    BY <1>5, Committing DEF Scene!CommitEnrollment, CommitsAs
  <2>2. scene_overlapped' \subseteq Visits
    BY <1>5 DEF Scene!CommitEnrollment, Scene!Commit, Scene!Disturbs
  <2> QED BY <2>1, <2>2, EndShape, CommitShape DEF EndsAs
<1>6. ASSUME NEW r \in Visits, Scene!Reset(r) PROVE SceneShape'
  BY <1>6 DEF Scene!Reset, Scene!GoOn, Scene!Answers, Scene!Answer,
              Scene!ResetEffect, Scene!NextCustomer, Scene!Disturbs, Scene!locks,
              Scene!tables, Scene!state, Scene!local
<1>7. ASSUME NEW r \in Visits, Scene!Login(r) PROVE SceneShape'
  BY <1>7, ZenonT(40) DEF Scene!Login, Scene!GoOn, Scene!Answers, Scene!Answer, Scene!locks,
              Scene!tables, Scene!state, Scene!local
<1>8. ASSUME NEW r \in Visits, Scene!Approve(r) PROVE SceneShape'
  BY <1>8 DEF Scene!Approve, Scene!GoOn, Scene!Answers, Scene!Answer,
              Scene!Disturbs, Scene!locks, Scene!tables, Scene!state, Scene!local
<1>9. ASSUME NEW r \in Visits, Scene!Unreachable(r) PROVE SceneShape'
  BY <1>9 DEF Scene!Unreachable, Scene!GoOn, Scene!Answers, Scene!Answer,
              Scene!locks, Scene!tables, Scene!state, Scene!local
<1>10. ASSUME NEW r \in Visits, Scene!Verify(r) PROVE SceneShape'
  BY <1>10 DEF Scene!Verify, Scene!GoOn, Scene!Answers, Scene!Answer, Scene!locks,
               Scene!tables, Scene!state, Scene!local
<1>11. ASSUME NEW r \in Visits, Scene!CountBefore(r) PROVE SceneShape'
  <2>1. scene_before' \in [Visits -> Nat]
    <3>1. scene_customer # None => Scene!View(r, scene_customer).rows \in Nat
      BY ViewType DEF PlanType
    <3> QED BY <1>11, <3>1 DEF Scene!CountBefore
  <2>2. /\ scene_fixed' \in [Scene!Stories -> BOOLEAN]
        /\ scene_customer' \in Scene!Customers \cup {None}
    BY <1>11, NewCustomer, ZenonT(40) DEF Scene!CountBefore, Scene!ResetEffect, Scene!state
  <2>3. scene_overlapped' \subseteq Visits
    BY <1>11 DEF Scene!CountBefore, Scene!Disturbs
  <2> QED BY <1>11, <2>1, <2>2, <2>3 DEF Scene!CountBefore, Scene!GoOn, Scene!locks,
     Scene!tables
<1>12. ASSUME NEW r \in Visits, Scene!Branch(r) PROVE SceneShape'
  <2>1. scene_ran' \in [Visits -> BOOLEAN]
    BY <1>12, SceneQuestions DEF Scene!Branch, AskedOK, Played, Run, Is,
                                 Scene!Stories
  <2>2. scene_on' \in [Visits -> Scene!Customers \cup {None}]
    BY <1>12 DEF Scene!Branch
  <2>3. scene_at' \in [Visits -> Places]
    BY <1>12 DEF Scene!Branch
  <2> QED BY <1>12, <2>1, <2>2, <2>3 DEF Scene!Branch, Scene!locks, Scene!tables,
     Scene!state
<1>13. ASSUME NEW r \in Visits, Scene!Again(r) PROVE SceneShape'
  BY <1>13 DEF Scene!Again, Scene!GoOn, Scene!Answers, Scene!Answer, Scene!locks,
               Scene!tables, Scene!state, Scene!local
<1>14. ASSUME NEW r \in Visits, Scene!Report(r) PROVE SceneShape'
  <2>1. CommitsAs(r) /\ EndsAs(r)
    BY <1>14, Committing DEF Scene!Report, CommitsAs
  <2>2. scene_overlapped' \subseteq Visits
    BY <1>14 DEF Scene!Report, Scene!Commit, Scene!Disturbs
  <2> QED BY <2>1, <2>2, EndShape, CommitShape DEF EndsAs
<1>15. ASSUME NEW c \in Scene!Customers, Scene!LockExpires(c) PROVE SceneShape'
  BY <1>15 DEF Scene!LockExpires, Scene!locks, Scene!tables, Scene!state,
               Scene!local
<1> QED BY <1>1, <1>2, <1>3, <1>4, <1>5, <1>6, <1>7, <1>8,
           <1>9, <1>10, <1>11, <1>12, <1>13, <1>14, <1>15 DEF Scene!Next


\* After the end of r only the others have something written.
LEMMA AfterEnd ==
  ASSUME SceneShape, NEW r \in Visits, EndsAs(r)
  PROVE  /\ scene_at'[r] = "done" /\ \A c \in Scene!Customers : scene_own'[r][c] = None
         /\ \A x \in Visits \ {r} : scene_at'[x] = scene_at[x] /\ scene_own'[x] = scene_own[x]
         /\ \A c \in Scene!Customers :
              scene_lock'[c] = IF scene_lock[c] \in Scene!TokensOf(r) THEN None
                ELSE scene_lock[c]
BY DEF SceneShape, EndsAs, Scene!Released

\* Every answer is one of those a page knows.
LEMMA Answering ==
  \A code \in Codes : Scene!Answer(code) \in Results
BY DEF Scene!Answer, Results

\* A report is one.
LEMMA Reporting ==
  ASSUME SceneShape, AskedOK, NEW r \in Visits, Scene!Report(r)
  PROVE  [status |-> "200", defect |-> Scene!DefectShown(r),
          fixed |-> scene_fixed[scene_question[r].scenario]] \in Results
<1>1. scene_fixed[scene_question[r].scenario] \in BOOLEAN
  BY SceneQuestions DEF Scene!Report, SceneShape, AskedOK, Played, Is, Scene!Stories
<1>2. Scene!DefectShown(r) \in BOOLEAN
  <2>1. CASE Scene!IsRun(r, "a")
    BY <2>1 DEF Scene!DefectShown
  <2>2. CASE ~Scene!IsRun(r, "a")
    BY <2>2 DEF Scene!DefectShown
  <2> QED BY <2>1, <2>2
<1> QED BY <1>1, <1>2 DEF Results, Codes

\* A step of r leaves what the others were answered.
LEMMA ResultKept ==
  ASSUME SceneShape, AskedOK, ResultShape, Scene!Next
  PROVE  ResultShape'
<1> USE Answering DEF ResultShape, Codes, Scene!Answers
<1>1. ASSUME NEW r \in Visits, NEW q \in Scene!Questions, Scene!Ask(r, q)
      PROVE  ResultShape'
  BY <1>1 DEF Scene!Ask
<1>2. ASSUME NEW r \in Visits, Scene!Acquire(r) PROVE ResultShape'
  <2>1. scene_result' = scene_result \/
          scene_result' = [scene_result EXCEPT ![r] = Scene!Answer("409")]
    BY <1>2, RollingBack DEF Scene!Acquire
  <2> QED BY <2>1
<1>3. ASSUME NEW r \in Visits, Scene!ReadActive(r) PROVE ResultShape'
  BY <1>3 DEF Scene!ReadActive
<1>4. ASSUME NEW r \in Visits, Scene!Write(r) PROVE ResultShape'
  <2>1. scene_result' = scene_result \/
          scene_result' = [scene_result EXCEPT ![r] = Scene!Answer("500")]
    BY <1>4, RollingBack DEF Scene!Write
  <2> QED BY <2>1
<1>5. ASSUME NEW r \in Visits, Scene!CommitEnrollment(r) PROVE ResultShape'
  BY <1>5, Committing DEF Scene!CommitEnrollment
<1>6. ASSUME NEW r \in Visits, Scene!Reset(r) PROVE ResultShape'
  BY <1>6 DEF Scene!Reset
<1>7. ASSUME NEW r \in Visits, Scene!Login(r) PROVE ResultShape'
  BY <1>7 DEF Scene!Login
<1>8. ASSUME NEW r \in Visits, Scene!Approve(r) PROVE ResultShape'
  BY <1>8 DEF Scene!Approve
<1>9. ASSUME NEW r \in Visits, Scene!Unreachable(r) PROVE ResultShape'
  BY <1>9 DEF Scene!Unreachable
<1>10. ASSUME NEW r \in Visits, Scene!Verify(r) PROVE ResultShape'
  BY <1>10 DEF Scene!Verify
<1>11. ASSUME NEW r \in Visits, Scene!CountBefore(r) PROVE ResultShape'
  BY <1>11 DEF Scene!CountBefore
<1>12. ASSUME NEW r \in Visits, Scene!Branch(r) PROVE ResultShape'
  BY <1>12 DEF Scene!Branch
<1>13. ASSUME NEW r \in Visits, Scene!Again(r) PROVE ResultShape'
  BY <1>13 DEF Scene!Again
<1>14. ASSUME NEW r \in Visits, Scene!Report(r) PROVE ResultShape'
  <2>1. scene_result' = [scene_result EXCEPT ![r] =
          [status |-> "200", defect |-> Scene!DefectShown(r),
           fixed |-> scene_fixed[scene_question[r].scenario]]]
    BY <1>14, Committing DEF Scene!Report
  <2> QED BY <1>14, <2>1, Reporting
<1>15. ASSUME NEW c \in Scene!Customers, Scene!LockExpires(c) PROVE ResultShape'
  BY <1>15 DEF Scene!LockExpires
<1> QED BY <1>1, <1>2, <1>3, <1>4, <1>5, <1>6, <1>7, <1>8,
           <1>9, <1>10, <1>11, <1>12, <1>13, <1>14, <1>15 DEF Scene!Next

-----------------------------------------------------------------------------
(* One writer for each customer *)

\* An end gives up what the request had written, and changes nobody's plan under him.
LEMMA WriterEnds ==
  ASSUME SceneShape, WriterOK, NEW r \in Visits, EndsAs(r),
         \A c \in Scene!Customers : scene_plans'[c] = scene_plans[c] \/ scene_own[r][c] # None
  PROVE  WriterOK'
<1>1. /\ \A c \in Scene!Customers : scene_own'[r][c] = None
      /\ scene_at'[r] = "done"
      /\ \A x \in Visits \ {r} : scene_at'[x] = scene_at[x] /\ scene_own'[x] = scene_own[x]
  BY AfterEnd
<1>2. UNCHANGED <<scene_customer, scene_question, scene_turn, scene_read, scene_ran>>
  BY DEF EndsAs
<1> QED BY <1>1, <1>2
        DEF WriterOK, Plan, Run, Played, Is, Ahead, Counts, Scene!WantedTerms

\* The index on active plans lets one transaction at a time have a new row.
LEMMA WriterKept ==
  ASSUME SceneShape, AskedOK, WriterOK, Scene!Next
  PROVE  WriterOK'
<1> USE SceneConstants, SceneCustomers, SceneQuestions
    DEF SceneShape, AskedOK, WriterOK, Plan, Run, Played, Is, Enrolling, Ahead, Counts,
        Scene!WantedTerms
<1>1. ASSUME NEW r \in Visits, NEW q \in Scene!Questions, Scene!Ask(r, q)
      PROVE  WriterOK'
  <2>1. PICK to \in {"acquire", "login", "reset", "reproduce", "verify"} :
          scene_at' = [scene_at EXCEPT ![r] = to]
    BY <1>1, Asking
  <2>2. /\ scene_at[r] = "idle" /\ scene_question' = [scene_question EXCEPT ![r] = q]
        /\ UNCHANGED <<scene_redis, scene_lock, scene_expiries, scene_plans, scene_events,
                        scene_customer, scene_fixed, scene_turn, scene_read, scene_own,
                        scene_before, scene_ran, scene_result, scene_overlapped>>
    BY <1>1, Asking
  <2> QED BY <2>1, <2>2
<1>2. ASSUME NEW r \in Visits, Scene!Acquire(r) PROVE WriterOK'
  <2>1. CASE Scene!RollBack(r, Scene!Answer("409"))
    BY <2>1, RollingBack, WriterEnds
  <2>2. CASE /\ scene_at' = [scene_at EXCEPT ![r] = "read"] /\ scene_at[r] = "acquire"
             /\ UNCHANGED <<Scene!tables, Scene!state, scene_question, Scene!local>>
    BY <2>2 DEF Scene!tables, Scene!state, Scene!local
  <2> QED BY <1>2, <2>1, <2>2 DEF Scene!Acquire, Scene!GoOn
<1>3. ASSUME NEW r \in Visits, Scene!ReadActive(r) PROVE WriterOK'
  <2>1. /\ scene_at[r] = "read" /\ UNCHANGED <<scene_plans, scene_customer, scene_question>>
        /\ UNCHANGED <<scene_turn, scene_own, scene_ran>>
        /\ scene_read' = [scene_read EXCEPT ![r] = Scene!View(r, scene_on[r])]
    BY <1>3 DEF Scene!ReadActive, Scene!tables, Scene!state
  <2>2. CASE /\ scene_at' = [scene_at EXCEPT ![r] = "write"]
             /\ Counts(r) => Scene!View(r, scene_on[r]).active # Scene!WantedTerms(r)
    BY <2>1, <2>2
  <2>3. CASE scene_at' = [scene_at EXCEPT ![r] = Scene!Next1(r)]
    BY <2>1, <2>3 DEF Scene!Next1
  <2> QED BY <1>3, <2>2, <2>3 DEF Scene!ReadActive, Scene!GoOn, Scene!IsOld,
                                  Scene!IsSameTerms
<1>4. ASSUME NEW r \in Visits, Scene!Write(r) PROVE WriterOK'
  <2>1. CASE Scene!RollBack(r, Scene!Answer("500"))
    BY <2>1, RollingBack, WriterEnds
  <2>2. CASE ~Scene!RollBack(r, Scene!Answer("500"))
    <3> DEFINE c == scene_on[r]
               new == [rows |-> scene_read[r].rows + 1, active |-> Scene!WantedTerms(r)]
    <3>1. /\ scene_at[r] = "write" /\ c \in Scene!Customers
               /\ Scene!View(r, c) = scene_read[r]
          /\ \A x \in Visits \ {r} : scene_own[x][c] = None
      BY <1>4, <2>2 DEF Scene!Write, Scene!Blocked
    <3>2. /\ scene_at' = [scene_at EXCEPT ![r] = Scene!Next1(r)]
          /\ scene_own' = [scene_own EXCEPT ![r][c] = new]
          /\ UNCHANGED <<scene_plans, scene_customer, scene_question, scene_turn, scene_read,
                         scene_ran>>
      BY <1>4, <2>2 DEF Scene!Write, Scene!GoOn, Scene!tables, Scene!state
    <3>3. new # None /\ new.active = Scene!WantedTerms(r)
      BY <3>1, NewRow
    <3>4. ~Ahead(c) /\ IF c = Scene!Shopper THEN Plan(r)
                       ELSE Run(r) /\ new.active = Scene!LabTerms
      BY <3>1, <3>3
    <3>5. Counts(r) => new.active # scene_plans[c].active
      <4>1. CASE scene_own[r][c] = None
        BY <3>1, <3>3, <4>1 DEF Scene!View
      <4>2. CASE scene_own[r][c] # None
        <5>1. Run(r) /\ Scene!WantedTerms(r) = Scene!LabTerms
          <6>1. scene_turn[r] = 2
            BY <3>1, <4>2, ZenonT(40)
          <6>2. ~Plan(r) /\ scene_at[r] \in Enrolling
            BY <3>1, <6>1
          <6>3. Run(r)
            BY <6>2
          <6> QED BY <6>3
        <5>2. scene_own[r][c].active = Scene!LabTerms
          BY <3>1, <4>2, <5>1
        <5>3. scene_read[r].active = Scene!LabTerms
          BY <3>1, <4>2, <5>2 DEF Scene!View
        <5> QED BY <3>1, <5>1, <5>3
      <4> QED BY <4>1, <4>2
    <3>6. scene_at'[r] \in {"commit", "report", "again"}
      BY <3>1, <3>2 DEF Scene!Next1
    <3>7. /\ scene_own'[r][c] = new
          /\ \A x \in Visits, d \in Scene!Customers :
               x # r \/ d # c => scene_own'[x][d] = scene_own[x][d]
          /\ \A x \in Visits \ {r} : scene_at'[x] = scene_at[x]
      BY <3>1, <3>2
    <3> HIDE DEF c, new
    <3> QED BY <3>1, <3>2, <3>3, <3>4, <3>5, <3>6, <3>7, SMTT(20)
  <2> QED BY <2>1, <2>2
<1>5. ASSUME NEW r \in Visits, Scene!CommitEnrollment(r) PROVE WriterOK'
  <2>1. CommitsAs(r)
    BY <1>5, Committing DEF Scene!CommitEnrollment
  <2> QED BY <2>1, WriterEnds DEF CommitsAs, Scene!View
<1>6. ASSUME NEW r \in Visits, Scene!Reset(r) PROVE WriterOK'
  BY <1>6 DEF Scene!Reset, Scene!GoOn, Scene!Answers, Scene!Answer,
              Scene!ResetEffect, Scene!NextCustomer, Scene!Disturbs, Scene!locks,
              Scene!tables, Scene!state, Scene!local
<1>7. ASSUME NEW r \in Visits, Scene!Login(r) PROVE WriterOK'
  <2>1. /\ scene_at[r] = "login"
        /\ \E to \in {"approve", "done"} : scene_at' = [scene_at EXCEPT ![r] = to]
        /\ UNCHANGED <<Scene!tables, Scene!state, scene_question, Scene!local>>
    BY <1>7 DEF Scene!Login, Scene!GoOn
  <2> QED BY <2>1 DEF Scene!tables, Scene!state, Scene!local
<1>8. ASSUME NEW r \in Visits, Scene!Approve(r) PROVE WriterOK'
  BY <1>8 DEF Scene!Approve, Scene!GoOn, Scene!Answers, Scene!Answer,
              Scene!Disturbs, Scene!locks, Scene!tables, Scene!state, Scene!local
<1>9. ASSUME NEW r \in Visits, Scene!Unreachable(r) PROVE WriterOK'
  BY <1>9 DEF Scene!Unreachable, Scene!GoOn, Scene!Answers, Scene!Answer,
              Scene!locks, Scene!tables, Scene!state, Scene!local
<1>10. ASSUME NEW r \in Visits, Scene!Verify(r) PROVE WriterOK'
  <2>1. /\ scene_at[r] = "verify" /\ scene_at' = [scene_at EXCEPT ![r] = "done"]
        /\ UNCHANGED <<Scene!tables, Scene!state, scene_question, Scene!local>>
    BY <1>10 DEF Scene!Verify, Scene!GoOn
  <2> QED BY <2>1 DEF Scene!tables, Scene!state, Scene!local
<1>11. ASSUME NEW r \in Visits, Scene!CountBefore(r) PROVE WriterOK'
  BY <1>11 DEF Scene!CountBefore, Scene!GoOn, Scene!Answers, Scene!Answer,
               Scene!ResetEffect, Scene!NextCustomer, Scene!Disturbs, Scene!IsRun,
               Scene!locks, Scene!tables, Scene!state, Scene!local
<1>12. ASSUME NEW r \in Visits, Scene!Branch(r) PROVE WriterOK'
  BY <1>12 DEF Scene!Branch, Scene!locks, Scene!tables, Scene!state, Scene!local
<1>13. ASSUME NEW r \in Visits, Scene!Again(r) PROVE WriterOK'
  BY <1>13 DEF Scene!Again, Scene!GoOn, Scene!Answers, Scene!Answer, Scene!locks,
               Scene!tables, Scene!state, Scene!local
<1>14. ASSUME NEW r \in Visits, Scene!Report(r) PROVE WriterOK'
  <2>1. CommitsAs(r)
    BY <1>14, Committing DEF Scene!Report
  <2> QED BY <2>1, WriterEnds DEF CommitsAs, Scene!View
<1>15. ASSUME NEW c \in Scene!Customers, Scene!LockExpires(c) PROVE WriterOK'
  BY <1>15 DEF Scene!LockExpires, Scene!locks, Scene!tables, Scene!state,
               Scene!local
<1> QED BY <1>1, <1>2, <1>3, <1>4, <1>5, <1>6, <1>7, <1>8,
           <1>9, <1>10, <1>11, <1>12, <1>13, <1>14, <1>15 DEF Scene!Next


-----------------------------------------------------------------------------
(* One event for each change *)

\* The plans change where a transaction had something written, and tell its last event.
LEMMA EventsCommit ==
  ASSUME SceneShape, WriterOK, EventsOK, NEW r \in Visits, CommitsAs(r)
  PROVE  EventsOK'
<1> SUFFICES ASSUME NEW c \in Scene!Customers
             PROVE  /\ scene_events'[c] # <<>> =>
                         scene_plans'[c].active = scene_events'[c][Len(scene_events'[c])]
                    /\ c # Scene!Shopper => scene_plans'[c].active \in {None, Scene!LabTerms}
                    /\ Ahead(c)' => scene_plans'[c].rows = 0
                    /\ \A i \in 1..(Len(scene_events'[c]) - 1) :
                         scene_events'[c][i] # scene_events'[c][i + 1]
  BY DEF EventsOK
<1>0. /\ scene_events[c] \in Seq(AnyTerms) /\ scene_plans'[c] = Scene!View(r, c)
      /\ scene_events'[c] = IF scene_own[r][c] # None
           /\ (scene_question[r].kind = "enroll" \/ scene_ran[r])
                               THEN Append(scene_events[c], scene_own[r][c].active)
                               ELSE scene_events[c]
      /\ Ahead(c)' = Ahead(c)
  BY DEF SceneShape, CommitsAs, EndsAs, Ahead
<1>1. CASE scene_own[r][c] = None
  BY <1>0, <1>1 DEF EventsOK, Scene!View
<1>2. CASE scene_own[r][c] # None
  <2>1. /\ scene_own[r][c] \in OwnType /\ scene_plans'[c] = scene_own[r][c] /\ ~Ahead(c)
        /\ c # Scene!Shopper => Run(r) /\ scene_own[r][c].active = Scene!LabTerms
        /\ c = Scene!Shopper => Plan(r)
        /\ Counts(r) => scene_own[r][c].active # scene_plans[c].active
    BY <1>0, <1>2 DEF SceneShape, WriterOK, Scene!View
  <2>2. CASE Counts(r)
    <3>1. scene_events'[c] = Append(scene_events[c], scene_own[r][c].active)
      BY <1>0, <1>2, <2>2 DEF Counts, Plan, Is
    <3>2. scene_own[r][c].active \in AnyTerms
      BY <2>1 DEF OwnType
    <3>3. /\ scene_events[c] # <<>> => scene_plans[c].active = scene_events[c][Len(scene_events[c])]
          /\ \A i \in 1..(Len(scene_events[c]) - 1) : scene_events[c][i] # scene_events[c][i + 1]
      BY DEF EventsOK
    <3>4. \A i \in 1..(Len(scene_events'[c]) - 1) : scene_events'[c][i] # scene_events'[c][i + 1]
      BY <1>0, <2>1, <2>2, <3>1, <3>2, <3>3
    <3>5. scene_events'[c][Len(scene_events'[c])] = scene_own[r][c].active
      BY <1>0, <3>1, <3>2
    <3> QED BY <1>0, <2>1, <3>4, <3>5
  <2>3. CASE ~Counts(r)
    <3>1. scene_events'[c] = scene_events[c] /\ c # Scene!Shopper
      BY <1>0, <2>1, <2>3 DEF Counts, Plan, Run, Played, Is
    <3>2. scene_events[c] # <<>> => scene_events[c][Len(scene_events[c])] \in AnyTerms
      BY <1>0
    <3>3. scene_events[c] # <<>> => scene_events[c][Len(scene_events[c])] = Scene!LabTerms
      BY <3>1, <3>2, SceneConstants DEF EventsOK
    <3> QED BY <1>0, <2>1, <3>1, <3>3 DEF EventsOK
  <2> QED BY <2>2, <2>3
<1> QED BY <1>1, <1>2

\* Events are written by commits only.
LEMMA EventsKept ==
  ASSUME SceneShape, AskedOK, WriterOK, EventsOK, Scene!Next
  PROVE  EventsOK'
<1> USE SceneConstants, SceneCustomers DEF SceneShape, EventsOK, Ahead
<1>1. ASSUME NEW r \in Visits, NEW q \in Scene!Questions, Scene!Ask(r, q)
      PROVE  EventsOK'
  <2>1. PICK to \in {"acquire", "login", "reset", "reproduce", "verify"} :
          scene_at' = [scene_at EXCEPT ![r] = to]
    BY <1>1, Asking
  <2>2. /\ scene_at[r] = "idle" /\ scene_question' = [scene_question EXCEPT ![r] = q]
        /\ UNCHANGED <<scene_redis, scene_lock, scene_expiries, scene_plans, scene_events,
                        scene_customer, scene_fixed, scene_turn, scene_read, scene_own,
                        scene_before, scene_ran, scene_result, scene_overlapped>>
    BY <1>1, Asking
  <2> QED BY <2>1, <2>2
<1>2. ASSUME NEW r \in Visits, Scene!Acquire(r) PROVE EventsOK'
  <2>1. UNCHANGED <<scene_plans, scene_events, scene_customer>>
    BY <1>2, RollingBack DEF Scene!Acquire, EndsAs, Scene!tables, Scene!state
  <2> QED BY <2>1
<1>3. ASSUME NEW r \in Visits, Scene!ReadActive(r) PROVE EventsOK'
  BY <1>3 DEF Scene!ReadActive, Scene!GoOn, Scene!Answers, Scene!Answer,
              Scene!ReleasedAtReturn, Scene!IsSameTerms, Scene!IsOld, Scene!Next1,
              Scene!locks, Scene!tables, Scene!state, Scene!local
<1>4. ASSUME NEW r \in Visits, Scene!Write(r) PROVE EventsOK'
  <2>1. UNCHANGED <<scene_plans, scene_events, scene_customer>>
    BY <1>4, RollingBack DEF Scene!Write, EndsAs, Scene!tables, Scene!state
  <2> QED BY <2>1
<1>5. ASSUME NEW r \in Visits, Scene!CommitEnrollment(r) PROVE EventsOK'
  BY <1>5, Committing, EventsCommit DEF Scene!CommitEnrollment
<1>6. ASSUME NEW r \in Visits, Scene!Reset(r) PROVE EventsOK'
  BY <1>6 DEF Scene!Reset, Scene!GoOn, Scene!Answers, Scene!Answer,
              Scene!ResetEffect, Scene!NextCustomer, Scene!Disturbs, Scene!locks,
              Scene!tables, Scene!state, Scene!local
<1>7. ASSUME NEW r \in Visits, Scene!Login(r) PROVE EventsOK'
  BY <1>7 DEF Scene!Login, Scene!GoOn, Scene!Answers, Scene!Answer, Scene!locks,
              Scene!tables, Scene!state, Scene!local
<1>8. ASSUME NEW r \in Visits, Scene!Approve(r) PROVE EventsOK'
  BY <1>8 DEF Scene!Approve, Scene!GoOn, Scene!Answers, Scene!Answer,
              Scene!Disturbs, Scene!locks, Scene!tables, Scene!state, Scene!local
<1>9. ASSUME NEW r \in Visits, Scene!Unreachable(r) PROVE EventsOK'
  BY <1>9 DEF Scene!Unreachable, Scene!GoOn, Scene!Answers, Scene!Answer,
              Scene!locks, Scene!tables, Scene!state, Scene!local
<1>10. ASSUME NEW r \in Visits, Scene!Verify(r) PROVE EventsOK'
  BY <1>10 DEF Scene!Verify, Scene!GoOn, Scene!Answers, Scene!Answer, Scene!locks,
               Scene!tables, Scene!state, Scene!local
<1>11. ASSUME NEW r \in Visits, Scene!CountBefore(r) PROVE EventsOK'
  BY <1>11 DEF Scene!CountBefore, Scene!GoOn, Scene!Answers, Scene!Answer,
               Scene!ResetEffect, Scene!NextCustomer, Scene!Disturbs, Scene!IsRun,
               Scene!locks, Scene!tables, Scene!state, Scene!local
<1>12. ASSUME NEW r \in Visits, Scene!Branch(r) PROVE EventsOK'
  BY <1>12 DEF Scene!Branch, Scene!locks, Scene!tables, Scene!state, Scene!local
<1>13. ASSUME NEW r \in Visits, Scene!Again(r) PROVE EventsOK'
  BY <1>13 DEF Scene!Again, Scene!GoOn, Scene!Answers, Scene!Answer, Scene!locks,
               Scene!tables, Scene!state, Scene!local
<1>14. ASSUME NEW r \in Visits, Scene!Report(r) PROVE EventsOK'
  BY <1>14, Committing, EventsCommit DEF Scene!Report
<1>15. ASSUME NEW c \in Scene!Customers, Scene!LockExpires(c) PROVE EventsOK'
  BY <1>15 DEF Scene!LockExpires, Scene!locks, Scene!tables, Scene!state,
               Scene!local
<1> QED BY <1>1, <1>2, <1>3, <1>4, <1>5, <1>6, <1>7, <1>8,
           <1>9, <1>10, <1>11, <1>12, <1>13, <1>14, <1>15 DEF Scene!Next


-----------------------------------------------------------------------------
(* The lock *)

\* A step of r is none of the others' business, unless it takes the lock from one of them
\* or changes the plan it has read.
LEMMA HolderOthers ==
  ASSUME HolderOK, NEW r \in Visits, UNCHANGED <<scene_redis, scene_expiries>>,
         \A x \in Visits \ {r} :
           /\ scene_at'[x] = scene_at[x] /\ scene_question'[x] = scene_question[x]
           /\ scene_read'[x] = scene_read[x] /\ scene_result'[x] = scene_result[x]
           /\ scene_lock[Scene!Shopper] = <<x, 1>> => scene_lock'[Scene!Shopper] = <<x, 1>>,
         \/ scene_plans'[Scene!Shopper] = scene_plans[Scene!Shopper]
         \/ Plan(r) /\ scene_at[r] = "commit",
         scene_redis /\ scene_expiries = 0 => HolderAt(r)'
  PROVE  HolderOK'
<1> SUFFICES ASSUME scene_redis, scene_expiries = 0, NEW x \in Visits \ {r} PROVE HolderAt(x)'
  BY DEF HolderOK
<1>1. HolderAt(x) /\ HolderAt(r)
  BY DEF HolderOK
<1>2. <<x, 1>> # <<r, 1>>
  OBVIOUS
<1> QED BY <1>1, <1>2 DEF HolderAt, Plan, Is

\* Only the owner of a token, or time, takes it away.
LEMMA OwnTokens ==
  ASSUME SceneShape, NEW r \in Visits, NEW x \in Visits \ {r}, EndsAs(r),
         scene_lock[Scene!Shopper] = <<x, 1>>
  PROVE  scene_lock'[Scene!Shopper] = <<x, 1>>
<1>1. <<x, 1>> \notin Scene!TokensOf(r)
  BY DEF Scene!TokensOf
<1> QED BY <1>1, AfterEnd, SceneCustomers

\* An end of r takes no lock but its own.
LEMMA HolderEnds ==
  ASSUME SceneShape, HolderOK, NEW r \in Visits, EndsAs(r),
         \A x \in Visits \ {r} : scene_result'[x] = scene_result[x],
         \/ scene_plans'[Scene!Shopper] = scene_plans[Scene!Shopper]
         \/ Plan(r) /\ scene_at[r] = "commit",
         scene_redis /\ scene_expiries = 0 => HolderAt(r)'
  PROVE  HolderOK'
<1>1. \A x \in Visits \ {r} :
        /\ scene_at'[x] = scene_at[x] /\ scene_question'[x] = scene_question[x]
        /\ scene_read'[x] = scene_read[x] /\ scene_result'[x] = scene_result[x]
        /\ scene_lock[Scene!Shopper] = <<x, 1>> => scene_lock'[Scene!Shopper] = <<x, 1>>
  BY AfterEnd, OwnTokens DEF EndsAs
<1>2. UNCHANGED <<scene_redis, scene_expiries>>
  BY DEF EndsAs
<1> QED BY <1>1, <1>2, HolderOthers

\* In its first enrollment a request has written nothing.
LEMMA NothingYet ==
  ASSUME WriterOK, NEW r \in Visits, scene_at[r] \in Enrolling, scene_turn[r] = 1
  PROVE  \A c \in Scene!Customers : scene_own[r][c] = None
BY DEF WriterOK, Enrolling

\* While nothing goes wrong with the lock, its owner reads and writes undisturbed.
LEMMA HolderKept ==
  ASSUME SceneShape, ResultShape, AskedOK, WriterOK, HolderOK, Scene!Next
  PROVE  HolderOK'
<1> USE SceneConstants, SceneCustomers DEF SceneShape, ResultShape
<1>1. ASSUME NEW r \in Visits, NEW q \in Scene!Questions, Scene!Ask(r, q)
      PROVE  HolderOK'
  <2>1. PICK to \in {"acquire", "login", "reset", "reproduce", "verify"} :
          scene_at' = [scene_at EXCEPT ![r] = to]
    BY <1>1, Asking
  <2>2. /\ scene_at[r] = "idle" /\ scene_question' = [scene_question EXCEPT ![r] = q]
        /\ UNCHANGED <<scene_redis, scene_lock, scene_expiries, scene_plans, scene_read,
                        scene_result>>
    BY <1>1, Asking
  <2>3. HolderAt(r)'
    BY <2>1 DEF HolderAt
  <2> QED BY <2>1, <2>2, <2>3, HolderOthers
<1>2. ASSUME NEW r \in Visits, Scene!Acquire(r) PROVE HolderOK'
  <2>1. CASE Scene!RollBack(r, Scene!Answer("409"))
    <3>1. EndsAs(r) /\ scene_result' = [scene_result EXCEPT ![r] = Scene!Answer("409")]
          /\ scene_plans' = scene_plans
      BY <2>1, RollingBack
    <3>2. HolderAt(r)'
      BY <3>1 DEF HolderAt, EndsAs, Scene!Answer
    <3> QED BY <3>1, <3>2, HolderEnds
  <2>2. CASE ~Scene!RollBack(r, Scene!Answer("409"))
    <3>1. /\ scene_at[r] = "acquire" /\ scene_at' = [scene_at EXCEPT ![r] = "read"]
          /\ UNCHANGED <<scene_redis, scene_expiries, scene_plans, scene_read, scene_question,
                         scene_result>>
          /\ ~(scene_redis /\ scene_lock[scene_on[r]] # None)
          /\ scene_lock' = IF scene_redis
                             THEN [scene_lock EXCEPT ![scene_on[r]] = <<r, scene_turn[r]>>]
                           ELSE scene_lock
      BY <1>2, <2>2 DEF Scene!Acquire, Scene!GoOn, Scene!tables, Scene!local
    <3>2. scene_on[r] \in Scene!Customers
          /\ (Plan(r) => scene_on[r] = Scene!Shopper /\ scene_turn[r] = 1)
      BY <3>1 DEF AskedOK, Enrolling
    <3>3. \A x \in Visits : <<x, 1>> # None
      BY DEF Tokens
    <3>4. \A x \in Visits : scene_lock[Scene!Shopper] = <<x, 1>> =>
                               scene_lock'[Scene!Shopper] = <<x, 1>>
      BY <3>1, <3>2, <3>3
    <3>5. scene_redis => HolderAt(r)'
      BY <3>1, <3>2 DEF HolderAt, Plan, Is
    <3> QED BY <3>1, <3>4, <3>5, HolderOthers, ZenonT(40)
  <2> QED BY <2>1, <2>2
<1>3. ASSUME NEW r \in Visits, Scene!ReadActive(r) PROVE HolderOK'
  <2>1. /\ scene_at[r] = "read"
        /\ \E to \in {"commit", "again", "report", "write"} :
                scene_at' = [scene_at EXCEPT ![r] = to]
        /\ UNCHANGED <<scene_redis, scene_lock, scene_expiries, scene_plans, scene_question,
                       scene_result>>
        /\ scene_read' = [scene_read EXCEPT ![r] = Scene!View(r, scene_on[r])]
    BY <1>3 DEF Scene!ReadActive, Scene!GoOn, Scene!Next1, Scene!ReleasedAtReturn,
                Scene!tables
  <2>2. Plan(r) => scene_read'[r] = scene_plans[Scene!Shopper]
    <3> SUFFICES ASSUME Plan(r) PROVE scene_read'[r] = scene_plans[Scene!Shopper]
      OBVIOUS
    <3>1. scene_on[r] = Scene!Shopper /\ scene_turn[r] = 1
      BY <2>1 DEF AskedOK, Enrolling
    <3>2. scene_own[r][Scene!Shopper] = None
      BY <2>1, <3>1, NothingYet DEF Enrolling
    <3> QED BY <2>1, <3>1, <3>2 DEF Scene!View
  <2>3. scene_redis /\ scene_expiries = 0 => HolderAt(r)'
    BY <2>1, <2>2 DEF HolderOK, HolderAt, Plan, Is
  <2> QED BY <2>1, <2>3, HolderOthers
<1>4. ASSUME NEW r \in Visits, Scene!Write(r) PROVE HolderOK'
  <2>1. CASE Scene!RollBack(r, Scene!Answer("500"))
    <3>1. EndsAs(r) /\ scene_result' = [scene_result EXCEPT ![r] = Scene!Answer("500")]
          /\ scene_plans' = scene_plans
      BY <2>1, RollingBack
    <3>2. ASSUME scene_redis, scene_expiries = 0, Plan(r) PROVE FALSE
      <4>1. scene_at[r] = "write" /\ Scene!View(r, scene_on[r]) # scene_read[r]
        BY <1>4, <2>1, AfterEnd DEF Scene!Write, Scene!Next1, Scene!GoOn,
                                    Scene!RollBack, Scene!End
      <4>2. /\ scene_on[r] = Scene!Shopper /\ scene_own[r][Scene!Shopper] = None
            /\ scene_read[r] = scene_plans[Scene!Shopper]
        <5>1. scene_on[r] = Scene!Shopper /\ scene_turn[r] = 1
          BY <3>2, <4>1 DEF AskedOK, Enrolling
        <5>2. scene_own[r][Scene!Shopper] = None
          BY <4>1, <5>1, NothingYet DEF Enrolling
        <5>3. scene_read[r] = scene_plans[Scene!Shopper]
          BY <3>2, <4>1 DEF HolderOK, HolderAt
        <5> QED BY <5>1, <5>2, <5>3
      <4> QED BY <4>1, <4>2 DEF Scene!View
    <3>3. scene_redis /\ scene_expiries = 0 => HolderAt(r)'
      BY <3>1, <3>2 DEF HolderAt, Plan, Is, EndsAs
    <3> QED BY <3>1, <3>3, HolderEnds
  <2>2. CASE ~Scene!RollBack(r, Scene!Answer("500"))
    <3>1. /\ scene_at[r] = "write" 
          /\ \E to \in {"commit", "again", "report"} : scene_at' = [scene_at EXCEPT ![r] = to]
          /\ UNCHANGED <<scene_redis, scene_lock, scene_expiries, scene_plans, scene_question,
                         scene_result, scene_read>>
      BY <1>4, <2>2 DEF Scene!Write, Scene!GoOn, Scene!Next1,
                        Scene!ReleasedAtReturn, Scene!tables
    <3>2. scene_redis /\ scene_expiries = 0 => HolderAt(r)'
      BY <3>1 DEF HolderOK, HolderAt, Plan, Is
    <3> QED BY <3>1, <3>2, HolderOthers
  <2> QED BY <2>1, <2>2
<1>5. ASSUME NEW r \in Visits, Scene!CommitEnrollment(r) PROVE HolderOK'
  <2>1. /\ CommitsAs(r) /\ EndsAs(r) /\ scene_at[r] = "commit" /\ Plan(r)
        /\ scene_result' = [scene_result EXCEPT ![r] = Scene!Answer("200")]
    BY <1>5, Committing DEF Scene!CommitEnrollment, CommitsAs, AskedOK
  <2>2. HolderAt(r)'
    BY <2>1 DEF HolderAt, EndsAs, Scene!Answer
  <2> QED BY <2>1, <2>2, HolderEnds
<1>6. ASSUME NEW r \in Visits, Scene!Reset(r) PROVE HolderOK'
  <2>1. /\ \E to \in {"done"} : scene_at' = [scene_at EXCEPT ![r] = to]
        /\ \A x \in Visits \ {r} : scene_result'[x] = scene_result[x]
        /\ scene_result'[r] = scene_result[r] \/ scene_result'[r].status # "500"
    BY <1>6 DEF Scene!Reset, Scene!GoOn, Scene!Answers, Scene!Answer
  <2>2. UNCHANGED <<scene_redis, scene_lock, scene_expiries, scene_plans, scene_read,
                    scene_question>>
    BY <1>6 DEF Scene!Reset, Scene!locks, Scene!tables, Scene!local
  <2>3. ~Plan(r)'
    BY <1>6 DEF Scene!Reset, Scene!GoOn, Scene!Answers, Scene!Answer, AskedOK, Plan,
                Played, Is
  <2> QED BY <2>1, <2>2, <2>3, HolderOthers DEF HolderAt
<1>7. ASSUME NEW r \in Visits, Scene!Login(r) PROVE HolderOK'
  <2>1. /\ \E to \in {"done", "approve"} : scene_at' = [scene_at EXCEPT ![r] = to]
        /\ \A x \in Visits \ {r} : scene_result'[x] = scene_result[x]
        /\ scene_result'[r] = scene_result[r] \/ scene_result'[r].status # "500"
    BY <1>7 DEF Scene!Login, Scene!GoOn, Scene!Answers, Scene!Answer
  <2>2. UNCHANGED <<scene_redis, scene_lock, scene_expiries, scene_plans, scene_read,
                    scene_question>>
    BY <1>7 DEF Scene!Login, Scene!locks, Scene!tables, Scene!local
  <2>3. ~Plan(r)'
    BY <1>7 DEF Scene!Login, Scene!GoOn, Scene!Answers, Scene!Answer, AskedOK, Plan,
                Played, Is
  <2> QED BY <2>1, <2>2, <2>3, HolderOthers DEF HolderAt
<1>8. ASSUME NEW r \in Visits, Scene!Approve(r) PROVE HolderOK'
  <2>1. /\ \E to \in {"done"} : scene_at' = [scene_at EXCEPT ![r] = to]
        /\ \A x \in Visits \ {r} : scene_result'[x] = scene_result[x]
        /\ scene_result'[r] = scene_result[r] \/ scene_result'[r].status # "500"
    BY <1>8 DEF Scene!Approve, Scene!GoOn, Scene!Answers, Scene!Answer
  <2>2. UNCHANGED <<scene_redis, scene_lock, scene_expiries, scene_plans, scene_read,
                    scene_question>>
    BY <1>8 DEF Scene!Approve, Scene!locks, Scene!tables, Scene!local
  <2>3. ~Plan(r)'
    BY <1>8 DEF Scene!Approve, Scene!GoOn, Scene!Answers, Scene!Answer, AskedOK,
                Plan, Played, Is
  <2> QED BY <2>1, <2>2, <2>3, HolderOthers DEF HolderAt
<1>9. ASSUME NEW r \in Visits, Scene!Unreachable(r) PROVE HolderOK'
  <2>1. /\ \E to \in {"done"} : scene_at' = [scene_at EXCEPT ![r] = to]
        /\ \A x \in Visits \ {r} : scene_result'[x] = scene_result[x]
        /\ scene_result'[r] = scene_result[r] \/ scene_result'[r].status # "500"
    BY <1>9 DEF Scene!Unreachable, Scene!GoOn, Scene!Answers, Scene!Answer
  <2>2. UNCHANGED <<scene_redis, scene_lock, scene_expiries, scene_plans, scene_read,
                    scene_question>>
    BY <1>9 DEF Scene!Unreachable, Scene!locks, Scene!tables, Scene!local
  <2>3. ~Plan(r)'
    BY <1>9 DEF Scene!Unreachable, Scene!GoOn, Scene!Answers, Scene!Answer, AskedOK,
                Plan, Played, Is
  <2> QED BY <2>1, <2>2, <2>3, HolderOthers DEF HolderAt
<1>10. ASSUME NEW r \in Visits, Scene!Verify(r) PROVE HolderOK'
  <2>1. PICK code \in {"ENVIRONMENT_INVALID", "no mvnw", "passed", "failed"} :
          scene_result' = [scene_result EXCEPT ![r] = [status |-> code]]
    BY <1>10 DEF Scene!Verify, Scene!GoOn, Scene!Answers, Scene!Answer
  <2>2. /\ scene_at[r] = "verify" /\ scene_at' = [scene_at EXCEPT ![r] = "done"]
        /\ UNCHANGED <<scene_redis, scene_lock, scene_expiries, scene_plans, scene_read,
                       scene_question>>
    BY <1>10 DEF Scene!Verify, Scene!GoOn, Scene!locks, Scene!tables, Scene!local
  <2>3. ~Plan(r)'
    BY <2>2 DEF AskedOK, Plan, Is
  <2>4. HolderAt(r)'
    BY <2>3 DEF HolderAt
  <2> QED BY <2>1, <2>2, <2>4, HolderOthers
<1>11. ASSUME NEW r \in Visits, Scene!CountBefore(r) PROVE HolderOK'
  <2>1. /\ scene_at[r] \in {"reproduce"} /\ ~Plan(r)'
        /\ \A x \in Visits \ {r} :
             scene_at'[x] = scene_at[x] /\ scene_result'[x] = scene_result[x]
    BY <1>11 DEF Scene!CountBefore, Scene!GoOn, Scene!Answers, Scene!Answer,
                 AskedOK, Plan, Run, Played, Is
  <2>2. UNCHANGED <<scene_redis, scene_lock, scene_expiries, scene_plans, scene_read,
                    scene_question>>
    BY <1>11 DEF Scene!CountBefore, Scene!locks, Scene!tables, Scene!local
  <2> QED BY <2>1, <2>2, HolderOthers DEF HolderAt
<1>12. ASSUME NEW r \in Visits, Scene!Branch(r) PROVE HolderOK'
  <2>1. /\ scene_at[r] \in {"branch", "reproduce"} /\ ~Plan(r)'
        /\ \A x \in Visits \ {r} :
             scene_at'[x] = scene_at[x] /\ scene_result'[x] = scene_result[x]
    BY <1>12 DEF Scene!Branch, Scene!GoOn, Scene!Answers, Scene!Answer, AskedOK,
                 Plan, Run, Played, Is
  <2>2. UNCHANGED <<scene_redis, scene_lock, scene_expiries, scene_plans, scene_read,
                    scene_question>>
    BY <1>12 DEF Scene!Branch, Scene!locks, Scene!tables, Scene!local
  <2> QED BY <2>1, <2>2, HolderOthers DEF HolderAt
<1>13. ASSUME NEW r \in Visits, Scene!Again(r) PROVE HolderOK'
  <2>1. /\ scene_at[r] \in {"again"} /\ ~Plan(r)'
        /\ \A x \in Visits \ {r} :
             scene_at'[x] = scene_at[x] /\ scene_result'[x] = scene_result[x]
    BY <1>13 DEF Scene!Again, Scene!GoOn, Scene!Answers, Scene!Answer, AskedOK,
                 Plan, Run, Played, Is
  <2>2. UNCHANGED <<scene_redis, scene_lock, scene_expiries, scene_plans, scene_read,
                    scene_question>>
    BY <1>13 DEF Scene!Again, Scene!locks, Scene!tables, Scene!local
  <2> QED BY <2>1, <2>2, HolderOthers DEF HolderAt
<1>14. ASSUME NEW r \in Visits, Scene!Report(r) PROVE HolderOK'
  <2>1. /\ CommitsAs(r) /\ EndsAs(r) /\ Played(r)
        /\ \A x \in Visits \ {r} : scene_result'[x] = scene_result[x]
    BY <1>14, Committing DEF Scene!Report, CommitsAs, AskedOK
  <2>2. ~Plan(r)' /\ ~Plan(r)
    BY <2>1 DEF Plan, Played, Is, EndsAs
  <2>3. scene_own[r][Scene!Shopper] = None
    BY <2>2 DEF WriterOK
  <2>4. scene_plans'[Scene!Shopper] = scene_plans[Scene!Shopper]
    BY <2>1, <2>3 DEF CommitsAs, Scene!View
  <2>5. HolderAt(r)'
    BY <2>2 DEF HolderAt
  <2> QED BY <2>1, <2>4, <2>5, HolderEnds
<1>15. ASSUME NEW c \in Scene!Customers, Scene!LockExpires(c) PROVE HolderOK'
  <2>1. scene_expiries' # 0
    BY <1>15 DEF Scene!LockExpires
  <2> QED BY <2>1 DEF HolderOK
<1> QED BY <1>1, <1>2, <1>3, <1>4, <1>5, <1>6, <1>7, <1>8,
           <1>9, <1>10, <1>11, <1>12, <1>13, <1>14, <1>15 DEF Scene!Next


-----------------------------------------------------------------------------
(* Rows of an undisturbed reproduction *)

\* A step of r leaves alone what the others' counts are about, or disturbs them.
LEMMA CountOthers ==
  ASSUME CountOK, NEW r \in Visits, scene_overlapped \subseteq scene_overlapped',
         \A x \in Visits \ {r} :
           /\ scene_at'[x] = scene_at[x] /\ scene_question'[x] = scene_question[x]
           /\ scene_on'[x] = scene_on[x] /\ scene_turn'[x] = scene_turn[x]
           /\ scene_own'[x] = scene_own[x] /\ scene_before'[x] = scene_before[x]
           /\ scene_ran'[x] = scene_ran[x] /\ scene_result'[x] = scene_result[x],
         \A x \in Visits \ {r} :
           Played(x) /\ scene_at[x] \in Working /\ x \notin scene_overlapped' =>
             IF Run(x) THEN /\ scene_customer' = scene_customer
                            /\ scene_fixed'["a"] = scene_fixed["a"]
                            /\ scene_plans'[scene_customer] = scene_plans[scene_customer]
                       ELSE scene_fixed'["b"] = scene_fixed["b"],
         Quiet(r) => CountAt(r)'
  PROVE  CountOK'
<1> SUFFICES ASSUME NEW x \in Visits \ {r}, x \notin scene_overlapped' PROVE CountAt(x)'
  BY DEF CountOK, Quiet
<1>1. CountAt(x) /\ x \in Visits
  BY DEF CountOK, Quiet
<1>2. /\ scene_at'[x] = scene_at[x] /\ scene_question'[x] = scene_question[x]
      /\ scene_on'[x] = scene_on[x] /\ scene_turn'[x] = scene_turn[x]
      /\ scene_own'[x] = scene_own[x] /\ scene_before'[x] = scene_before[x]
      /\ scene_ran'[x] = scene_ran[x] /\ scene_result'[x] = scene_result[x]
  OBVIOUS
<1>3. Run(x)' = Run(x) /\ Played(x)' = Played(x) /\ (Run(x) => Played(x))
  BY <1>2 DEF Run, Played, Is
<1>4. CASE scene_at[x] \notin Working
  BY <1>1, <1>2, <1>3, <1>4 DEF CountAt, FirstHalf, SecondHalf, Working, Enrolling
<1>5. CASE scene_at[x] \in Working /\ Run(x)
  <2>1. /\ scene_customer' = scene_customer /\ scene_fixed'["a"] = scene_fixed["a"]
        /\ scene_plans'[scene_customer] = scene_plans[scene_customer]
    BY <1>3, <1>5
  <2>2. Scene!View(x, scene_customer)' = Scene!View(x, scene_customer)
    BY <1>2, <2>1 DEF Scene!View
  <2>3. \A n \in {0, 1, 2} : Made(x, n)' = Made(x, n)
    BY <1>2, <2>2 DEF Made
  <2>4. FirstHalf(x)' = FirstHalf(x) /\ SecondHalf(x)' = SecondHalf(x)
    BY <1>2 DEF FirstHalf, SecondHalf
  <2> QED BY <1>1, <1>2, <1>3, <1>5, <2>1, <2>2, <2>3, <2>4 DEF CountAt
<1>6. CASE scene_at[x] \in Working /\ ~Run(x)
  BY <1>1, <1>2, <1>3, <1>6 DEF CountAt
<1> QED BY <1>4, <1>5, <1>6

\* The count of a request that is not a reproduction, or has ended without one.
LEMMA NothingToCount ==
  ASSUME NEW r, (~Played(r) \/ scene_at[r] \in {"idle", "reproduce"}
                 \/ (scene_at[r] = "done" /\ scene_result[r].status # "200"))'
  PROVE  CountAt(r)'
BY DEF CountAt, Run, FirstHalf, SecondHalf, Enrolling

\* A reproduction of "a" that a reset, an approval or another reproduction disturbs.
LEMMA DisturbsRuns ==
  ASSUME NEW r \in Visits, NEW s \in {"a", "b"}, Scene!Disturbs(r, s)
  PROVE  /\ scene_overlapped \subseteq scene_overlapped'
         /\ \A x \in Visits \ {r} :
              Played(x) /\ scene_at[x] \in Working /\ x \notin scene_overlapped' =>
                scene_question[x].scenario # s
<1> SUFFICES ASSUME NEW x \in Visits \ {r}, Played(x), scene_at[x] \in Working,
                    x \notin scene_overlapped', scene_question[x].scenario = s PROVE FALSE
  BY Disturbing
<1>1. Scene!IsRun(x, s) /\ scene_at[x] \notin {"idle", "done"}
  BY DEF Scene!IsRun, Played, Is, Working, Enrolling
<1> QED BY <1>1, Disturbing

\* What a commit of r changes is in nobody's count, or disturbs whoever counts it.
LEMMA CountCommit ==
  ASSUME SceneShape, AskedOK, WriterOK, CountOK, NEW r \in Visits, NEW x, Scene!Commit(r, x),
         scene_at[r] \in {"commit", "report"}, Quiet(r) => CountAt(r)'
  PROVE  CountOK'
<1>1. /\ CommitsAs(r) /\ EndsAs(r) /\ scene_result' = [scene_result EXCEPT ![r] = x]
  BY Committing DEF CommitsAs
<1>2. scene_question[r] \in Scene!Questions /\ (scene_at[r] = "commit" => Plan(r))
      /\ (scene_at[r] = "report" => Played(r))
  BY DEF AskedOK, Working
<1>3. Played(r) => scene_question[r].scenario \in {"a", "b"}
  BY <1>2, SceneQuestions DEF Played, Is
<1>4. Plan(r) => scene_overlapped' = scene_overlapped
  BY DEF Scene!Commit, Plan, Is
<1>5. Played(r) => Scene!Disturbs(r, scene_question[r].scenario)
  BY DEF Scene!Commit, Played, Is
<1>6. scene_overlapped \subseteq scene_overlapped'
  BY <1>2, <1>3, <1>4, <1>5, DisturbsRuns
<1>7. ASSUME NEW z \in Visits \ {r}
      PROVE  /\ scene_at'[z] = scene_at[z] /\ scene_question'[z] = scene_question[z]
             /\ scene_on'[z] = scene_on[z] /\ scene_turn'[z] = scene_turn[z]
             /\ scene_own'[z] = scene_own[z] /\ scene_before'[z] = scene_before[z]
             /\ scene_ran'[z] = scene_ran[z]
  BY <1>1, AfterEnd DEF EndsAs
<1>8. \A z \in Visits \ {r} : scene_result'[z] = scene_result[z]
  BY <1>1, Committing DEF ResultShape
<1>9. scene_customer' = scene_customer /\ scene_fixed' = scene_fixed
  BY <1>1 DEF EndsAs
<1>10. ASSUME NEW z \in Visits \ {r}, Run(z), scene_at[z] \in Working,
       z \notin scene_overlapped'
       PROVE  scene_plans'[scene_customer] = scene_plans[scene_customer]
  <2>1. scene_customer \in Scene!Customers \ {Scene!Shopper}
    BY <1>10 DEF AskedOK, SceneShape
  <2>2. ~Run(r)
    <3>1. Played(z) /\ scene_question[z].scenario = "a"
      BY <1>10 DEF Run
    <3> QED BY <1>5, <1>10, <3>1, DisturbsRuns DEF Run
  <2>3. scene_own[r][scene_customer] = None
    BY <2>1, <2>2 DEF WriterOK
  <2> QED BY <1>1, <2>1, <2>3 DEF CommitsAs, Scene!View
<1> QED BY <1>6, <1>7, <1>8, <1>9, <1>10, CountOthers

\* A transaction that fails counts nothing.
LEMMA CountRollBack ==
  ASSUME SceneShape, ResultShape, CountOK, NEW r \in Visits, NEW code \in {"409", "500"},
         Scene!RollBack(r, Scene!Answer(code))
  PROVE  CountOK'
<1>1. /\ EndsAs(r) /\ scene_result' = [scene_result EXCEPT ![r] = Scene!Answer(code)]
      /\ UNCHANGED <<scene_plans, scene_events, scene_overlapped>>
  BY RollingBack
<1>2. CountAt(r)'
  <2>1. scene_at'[r] = "done" /\ scene_result'[r].status # "200"
    BY <1>1, AfterEnd DEF ResultShape, Scene!Answer
  <2> QED BY <2>1, NothingToCount
<1>3. ASSUME NEW z \in Visits \ {r}
      PROVE  /\ scene_at'[z] = scene_at[z] /\ scene_question'[z] = scene_question[z]
             /\ scene_on'[z] = scene_on[z] /\ scene_turn'[z] = scene_turn[z]
             /\ scene_own'[z] = scene_own[z] /\ scene_before'[z] = scene_before[z]
             /\ scene_ran'[z] = scene_ran[z] /\ scene_result'[z] = scene_result[z]
  BY <1>1, AfterEnd DEF EndsAs
<1>4. scene_customer' = scene_customer /\ scene_fixed' = scene_fixed
  BY <1>1 DEF EndsAs
<1> QED BY <1>1, <1>2, <1>3, <1>4, CountOthers

\* A step of r that changes only where r is and what it has read or written.
LEMMA CountAlone ==
  ASSUME SceneShape, ResultShape, CountOK, NEW r \in Visits,
         UNCHANGED <<scene_plans, scene_customer, scene_fixed, scene_overlapped>>,
         \A x \in Visits \ {r} :
           /\ scene_at'[x] = scene_at[x] /\ scene_question'[x] = scene_question[x]
           /\ scene_on'[x] = scene_on[x] /\ scene_turn'[x] = scene_turn[x]
           /\ scene_own'[x] = scene_own[x] /\ scene_before'[x] = scene_before[x]
           /\ scene_ran'[x] = scene_ran[x] /\ scene_result'[x] = scene_result[x],
         Quiet(r) => CountAt(r)'
  PROVE  CountOK'
<1>1. scene_overlapped \subseteq scene_overlapped'
  OBVIOUS
<1> QED BY <1>1, CountOthers

\* What the other requests of the pages ask.
LEMMA PageOf ==
  ASSUME SceneShape, AskedOK, NEW r \in Visits,
         scene_at[r] \in {"reset", "verify", "login", "approve"}
  PROVE  ~Played(r) /\ (scene_at[r] \in {"reset", "approve"} =>
       scene_question[r].scenario \in {"a", "b"})
<1>1. scene_question[r] \in Scene!Questions
  BY DEF AskedOK
<1>2. scene_question[r].kind \in {"reset", "verify", "approve"}
  <2>1. /\ scene_at[r] = "reset" => Is(r, "reset")
        /\ scene_at[r] = "verify" => Is(r, "verify")
        /\ scene_at[r] \in {"login", "approve"} => Is(r, "approve")
    BY DEF AskedOK
  <2> QED BY <2>1 DEF Is
<1> QED BY <1>1, <1>2, SceneQuestions DEF Played, Is

\* A reproduction is of one scenario or the other.
LEMMA PlayedOf ==
  ASSUME SceneShape
  PROVE  \A r \in Visits : Played(r) => scene_question[r].scenario \in {"a", "b"}
BY SceneQuestions DEF SceneShape, Played, Is

\* However requests interleave, an undisturbed reproduction counts its own rows.
LEMMA CountKept ==
  ASSUME SceneShape, ResultShape, AskedOK, WriterOK, EventsOK, CountOK, Scene!Next
  PROVE  CountOK'
<1> USE SceneConstants, SceneCustomers DEF SceneShape, ResultShape
<1>1. ASSUME NEW r \in Visits, NEW q \in Scene!Questions, Scene!Ask(r, q)
      PROVE  CountOK'
  <2>1. PICK to \in {"acquire", "login", "reset", "reproduce", "verify"} :
          /\ scene_at' = [scene_at EXCEPT ![r] = to]
          /\ to = "acquire" <=> q.kind = "enroll"
          /\ to = "login" <=> q.kind = "approve"
          /\ \A k \in {"reset", "reproduce", "verify"} : to = k <=> q.kind = k
    BY <1>1, Asking
  <2>2. PICK c \in Scene!Customers \cup {None} : scene_on' = [scene_on EXCEPT ![r] = c]
    BY <1>1, Asking
  <2>3. /\ scene_at[r] = "idle" /\ scene_question' = [scene_question EXCEPT ![r] = q]
        /\ UNCHANGED <<scene_plans, scene_customer, scene_fixed, scene_turn, scene_own,
                        scene_before, scene_ran, scene_result, scene_overlapped>>
    BY <1>1, Asking
  <2>4. CountAt(r)'
    BY <2>1, <2>3, NothingToCount DEF Played, Is
  <2> QED BY <2>1, <2>2, <2>3, <2>4, CountAlone
<1>2. ASSUME NEW r \in Visits, Scene!Acquire(r) PROVE CountOK'
  <2>1. CASE Scene!RollBack(r, Scene!Answer("409"))
    BY <2>1, CountRollBack
  <2>2. CASE ~Scene!RollBack(r, Scene!Answer("409"))
    <3>1. /\ scene_at[r] = "acquire" /\ scene_at' = [scene_at EXCEPT ![r] = "read"]
          /\ UNCHANGED <<scene_plans, scene_customer, scene_fixed, scene_overlapped,
                         scene_question, scene_on, scene_turn, scene_own, scene_before,
                         scene_ran, scene_result>>
      BY <1>2, <2>2 DEF Scene!Acquire, Scene!GoOn, Scene!tables, Scene!state,
                        Scene!local
    <3>2. Quiet(r) => CountAt(r)'
      BY <3>1 DEF CountOK, CountAt, Run, Played, Is, FirstHalf, SecondHalf, Made,
                  Scene!View,
                  Enrolling
    <3> QED BY <3>1, <3>2, CountAlone
  <2> QED BY <2>1, <2>2
<1>3. ASSUME NEW r \in Visits, Scene!ReadActive(r) PROVE CountOK'
  <2>1. /\ scene_at[r] = "read"
        /\ \E to \in {"write", Scene!Next1(r)} :
             /\ scene_at' = [scene_at EXCEPT ![r] = to]
             /\ to # "write" => (scene_question[r].kind = "reproduce" => scene_ran[r])
                  /\ Scene!View(r, scene_on[r]).active = Scene!WantedTerms(r)
        /\ UNCHANGED <<scene_plans, scene_customer, scene_fixed, scene_overlapped,
                       scene_question, scene_on, scene_turn, scene_own, scene_before,
                       scene_ran, scene_result>>
    BY <1>3 DEF Scene!ReadActive, Scene!GoOn, Scene!IsOld, Scene!IsSameTerms,
                Scene!tables,
             Scene!state, Scene!Next1
  <2>2. ASSUME Quiet(r), Run(r) PROVE CountAt(r)'
    <3>1. CountAt(r) /\ scene_on[r] = scene_customer /\ scene_fixed["a"] = scene_ran[r]
          /\ scene_question[r].kind = "reproduce" /\ Scene!WantedTerms(r) = Scene!LabTerms
      BY <2>1, <2>2 DEF CountOK, CountAt, Enrolling, Run, Played, Is,
                        Scene!WantedTerms
    <3>2. Scene!View(r, scene_customer)' = Scene!View(r, scene_customer)
          /\ Run(r)' = Run(r) /\ \A n \in {0, 1, 2} : Made(r, n)' = Made(r, n)
      BY <2>1 DEF Scene!View, Made, Run, Played, Is
    <3>3. Scene!Next1(r) = IF scene_turn[r] = 1 THEN "again" ELSE "report"
      BY <3>1 DEF Scene!Next1
    <3> QED BY <2>1, <2>2, <3>1, <3>2, <3>3 DEF CountAt, FirstHalf, SecondHalf,
       Enrolling
  <2>3. ASSUME ~Run(r) PROVE CountAt(r)'
    <3>1. Plan(r)
      BY <2>1, <2>3 DEF AskedOK, Enrolling
    <3> QED BY <2>1, <3>1, NothingToCount DEF Plan, Played, Is
  <2> QED BY <2>1, <2>2, <2>3, CountAlone
<1>4. ASSUME NEW r \in Visits, Scene!Write(r) PROVE CountOK'
  <2>1. CASE Scene!RollBack(r, Scene!Answer("500"))
    BY <2>1, CountRollBack
  <2>2. CASE ~Scene!RollBack(r, Scene!Answer("500"))
    <3> DEFINE c == scene_on[r]
               new == [rows |-> scene_read[r].rows + 1, active |-> Scene!WantedTerms(r)]
    <3>1. /\ scene_at[r] = "write" /\ Scene!View(r, c) = scene_read[r]
          /\ scene_at' = [scene_at EXCEPT ![r] = Scene!Next1(r)]
          /\ scene_own' = [scene_own EXCEPT ![r][c] = new]
          /\ UNCHANGED <<scene_plans, scene_customer, scene_fixed, scene_overlapped,
                         scene_question, scene_on, scene_turn, scene_before, scene_ran,
                         scene_result>>
      BY <1>4, <2>2 DEF Scene!Write, Scene!GoOn, Scene!tables, Scene!state
    <3>2. ASSUME Quiet(r), Run(r) PROVE CountAt(r)'
      <4>1. CountAt(r) /\ c = scene_customer /\ scene_fixed["a"] = scene_ran[r]
            /\ scene_question[r].kind = "reproduce" /\ Scene!WantedTerms(r) = Scene!LabTerms
        BY <3>1, <3>2 DEF CountOK, CountAt, Enrolling, Run, Played, Is,
                          Scene!WantedTerms
      <4>2. c \in Scene!Customers /\ scene_read[r].rows \in Nat /\ scene_before[r] \in Nat
        BY <3>1, <3>2, <4>1 DEF AskedOK, Enrolling, PlanType
      <4>3. scene_own'[r][c] = new /\ new # None
        BY <3>1, <4>2, NewRow
      <4>4. Scene!View(r, scene_customer)' = new
        BY <3>1, <4>1, <4>3 DEF Scene!View
      <4>5. new.rows = scene_read[r].rows + 1 /\ new.active = Scene!LabTerms
        BY <4>1
      <4>6. Scene!View(r, scene_customer).rows = scene_read[r].rows
        BY <3>1, <4>1
      <4>7. \A n \in {0, 1} : Made(r, n) => Made(r, n + 1)'
        BY <3>1, <4>2, <4>4, <4>5, <4>6 DEF Made
      <4>8. scene_turn[r] = 2 => ~scene_ran[r]
        <5>1. Counts(r) => scene_read[r].active # Scene!LabTerms
          BY <3>1, <4>1 DEF WriterOK
        <5>2. scene_turn[r] = 2 /\ scene_ran[r] =>
                   Scene!View(r, scene_customer).active = Scene!LabTerms
          BY <3>1, <3>2, <4>1 DEF CountAt, SecondHalf, Enrolling
        <5> QED BY <3>1, <4>1, <5>1, <5>2 DEF Counts
      <4>9. scene_turn[r] = 1 => Made(r, 0)
        BY <3>1, <3>2, <4>1 DEF CountAt, FirstHalf, Enrolling
      <4>10. scene_turn[r] = 2 => Made(r, 1)
        BY <3>1, <3>2, <4>1, <4>8 DEF CountAt, SecondHalf, Enrolling
      <4>11. scene_at'[r] = IF scene_turn[r] = 1 THEN "again" ELSE "report"
        BY <3>1, <4>1 DEF Scene!Next1
      <4>12. Made(r, 1)' \/ (scene_turn[r] = 2 /\ Made(r, 2)')
        BY <4>7, <4>9, <4>10
      <4>13. (scene_turn[r] = 1 => Made(r, 1)') /\ (scene_turn[r] = 2 => Made(r, 2)')
        BY <4>7, <4>9, <4>10
      <4>14. Run(r)'
        BY <3>1, <3>2 DEF Run, Played, Is
      <4> HIDE DEF c, new
      <4> QED BY <3>1, <4>1, <4>4, <4>5, <4>8, <4>11, <4>13, <4>14
              DEF CountAt, FirstHalf, SecondHalf, Enrolling
    <3>3. ASSUME ~Run(r) PROVE CountAt(r)'
      <4>1. Plan(r)
        BY <3>1, <3>3 DEF AskedOK, Enrolling
      <4> QED BY <3>1, <4>1, NothingToCount DEF Plan, Played, Is
    <3>4. \A x \in Visits \ {r} : scene_own'[x] = scene_own[x] /\ scene_at'[x] = scene_at[x]
      BY <3>1
    <3> HIDE DEF c, new
    <3> QED BY <3>1, <3>2, <3>3, <3>4, CountAlone
  <2> QED BY <2>1, <2>2
<1>5. ASSUME NEW r \in Visits, Scene!CommitEnrollment(r) PROVE CountOK'
  <2>1. Scene!Commit(r, Scene!Answer("200")) /\ scene_at[r] = "commit" /\ Plan(r)
    BY <1>5 DEF Scene!CommitEnrollment, AskedOK
  <2>2. scene_question' = scene_question
    BY <2>1, Committing DEF CommitsAs, EndsAs
  <2>3. CountAt(r)'
    BY <2>1, <2>2, NothingToCount DEF Plan, Played, Is
  <2> QED BY <2>1, <2>3, CountCommit
<1>6. ASSUME NEW r \in Visits, Scene!Reset(r) PROVE CountOK'
  <2>1. /\ scene_at[r] = "reset" 
        /\ \A x \in Visits \ {r} :
             scene_at'[x] = scene_at[x] /\ scene_result'[x] = scene_result[x]
    BY <1>6 DEF Scene!Reset, Scene!GoOn, Scene!Answers
  <2>2. UNCHANGED <<scene_plans, scene_question, scene_on, scene_turn, scene_own,
                    scene_before, scene_ran>>
    BY <1>6 DEF Scene!Reset, Scene!tables, Scene!local
  <2> DEFINE s == scene_question[r].scenario
  <2>0. s \in {"a", "b"}
    BY <2>1, PageOf
  <2>3. /\ s \in {"a", "b"} /\ Scene!Disturbs(r, s)
        /\ s = "a" => scene_fixed'["b"] = scene_fixed["b"]
        /\ s = "b" => scene_customer' = scene_customer /\ scene_fixed'["a"] = scene_fixed["a"]
    BY <1>6, <2>0 DEF Scene!Reset, Scene!ResetEffect, Scene!Stories
  <2>4. CountAt(r)'
    BY <2>1, <2>2, PageOf, NothingToCount DEF Played, Is
  <2> HIDE DEF s
  <2>5. \A x \in Visits \ {r} :
          Played(x) /\ scene_at[x] \in Working /\ x \notin scene_overlapped' =>
            scene_question[x].scenario # s /\ scene_question[x].scenario \in {"a", "b"}
    BY <2>3, DisturbsRuns, PlayedOf
  <2>6. \A x \in Visits \ {r} :
          Played(x) /\ scene_at[x] \in Working /\ x \notin scene_overlapped' =>
            IF Run(x) THEN /\ scene_customer' = scene_customer
                           /\ scene_fixed'["a"] = scene_fixed["a"]
                           /\ scene_plans'[scene_customer] = scene_plans[scene_customer]
                      ELSE scene_fixed'["b"] = scene_fixed["b"]
    <3> SUFFICES ASSUME NEW x \in Visits \ {r}, Played(x), scene_at[x] \in Working,
                        x \notin scene_overlapped'
                 PROVE  IF Run(x) THEN /\ scene_customer' = scene_customer
                                       /\ scene_fixed'["a"] = scene_fixed["a"]
                                       /\ scene_plans'[scene_customer] = scene_plans[scene_customer]
                                  ELSE scene_fixed'["b"] = scene_fixed["b"]
      OBVIOUS
    <3>1. scene_question[x].scenario # s /\ scene_question[x].scenario \in {"a", "b"}
      BY <2>5
    <3>2. CASE Run(x)
      <4>1. s = "b"
        BY <2>3, <3>1, <3>2 DEF Run
      <4>2. scene_customer' = scene_customer /\ scene_fixed'["a"] = scene_fixed["a"]
        BY <2>3, <4>1
      <4> QED BY <2>2, <3>2, <4>2
    <3>3. CASE ~Run(x)
      <4>1. s = "a"
        BY <2>3, <3>1, <3>3 DEF Run
      <4> QED BY <2>3, <3>3, <4>1
    <3> QED BY <3>2, <3>3
  <2>7. scene_overlapped \subseteq scene_overlapped'
    BY <2>3, DisturbsRuns
  <2> QED BY <2>1, <2>2, <2>4, <2>6, <2>7, CountOthers
<1>7. ASSUME NEW r \in Visits, Scene!Login(r) PROVE CountOK'
  <2>1. /\ scene_at[r] = "login" 
        /\ \A x \in Visits \ {r} :
             scene_at'[x] = scene_at[x] /\ scene_result'[x] = scene_result[x]
    BY <1>7 DEF Scene!Login, Scene!GoOn, Scene!Answers
  <2>2. UNCHANGED <<scene_plans, scene_customer, scene_fixed, scene_overlapped,
                    scene_question, scene_on, scene_turn, scene_own, scene_before,
                    scene_ran>>
    BY <1>7 DEF Scene!Login, Scene!tables, Scene!state, Scene!local
  <2>3. CountAt(r)'
    BY <2>1, <2>2, PageOf, NothingToCount DEF Played, Is
  <2> QED BY <2>1, <2>2, <2>3, CountAlone
<1>8. ASSUME NEW r \in Visits, Scene!Approve(r) PROVE CountOK'
  <2>1. /\ scene_at[r] = "approve" 
        /\ \A x \in Visits \ {r} :
             scene_at'[x] = scene_at[x] /\ scene_result'[x] = scene_result[x]
    BY <1>8 DEF Scene!Approve, Scene!GoOn, Scene!Answers
  <2>2. UNCHANGED <<scene_plans, scene_customer, scene_question, scene_on, scene_turn,
                    scene_own, scene_before, scene_ran>>
    BY <1>8 DEF Scene!Approve, Scene!tables, Scene!local
  <2> DEFINE s == scene_question[r].scenario
  <2>3. /\ s \in {"a", "b"} /\ Scene!Disturbs(r, s)
        /\ \A t \in {"a", "b"} : t # s => scene_fixed'[t] = scene_fixed[t]
    <3>1. s \in {"a", "b"}
      BY <2>1, PageOf
    <3> QED BY <1>8, <3>1 DEF Scene!Approve, Scene!Stories
  <2>4. CountAt(r)'
    BY <2>1, <2>2, PageOf, NothingToCount DEF Played, Is
  <2> HIDE DEF s
  <2>5. \A x \in Visits \ {r} :
          Played(x) /\ scene_at[x] \in Working /\ x \notin scene_overlapped' =>
            scene_question[x].scenario # s /\ scene_question[x].scenario \in {"a", "b"}
    BY <2>3, DisturbsRuns, PlayedOf
  <2>6. \A x \in Visits \ {r} :
          Played(x) /\ scene_at[x] \in Working /\ x \notin scene_overlapped' =>
            IF Run(x) THEN /\ scene_customer' = scene_customer
                           /\ scene_fixed'["a"] = scene_fixed["a"]
                           /\ scene_plans'[scene_customer] = scene_plans[scene_customer]
                      ELSE scene_fixed'["b"] = scene_fixed["b"]
    BY <2>2, <2>3, <2>5 DEF Run
  <2>7. scene_overlapped \subseteq scene_overlapped'
    BY <2>3, DisturbsRuns
  <2> QED BY <2>1, <2>2, <2>4, <2>6, <2>7, CountOthers
<1>9. ASSUME NEW r \in Visits, Scene!Unreachable(r) PROVE CountOK'
  <2>1. /\ scene_at'[r] = "done" /\ scene_result'[r].status # "200"
        /\ \A x \in Visits \ {r} :
             scene_at'[x] = scene_at[x] /\ scene_result'[x] = scene_result[x]
    BY <1>9 DEF Scene!Unreachable, Scene!GoOn, Scene!Answers, Scene!Answer
  <2>2. UNCHANGED <<scene_plans, scene_customer, scene_fixed, scene_overlapped,
                    scene_question, scene_on, scene_turn, scene_own, scene_before,
                    scene_ran>>
    BY <1>9 DEF Scene!Unreachable, Scene!tables, Scene!state, Scene!local
  <2>3. CountAt(r)'
    BY <2>1, NothingToCount
  <2> QED BY <2>1, <2>2, <2>3, CountAlone
<1>10. ASSUME NEW r \in Visits, Scene!Verify(r) PROVE CountOK'
  <2>1. /\ scene_at[r] = "verify" 
        /\ \A x \in Visits \ {r} :
             scene_at'[x] = scene_at[x] /\ scene_result'[x] = scene_result[x]
    BY <1>10 DEF Scene!Verify, Scene!GoOn, Scene!Answers
  <2>2. UNCHANGED <<scene_plans, scene_customer, scene_fixed, scene_overlapped,
                    scene_question, scene_on, scene_turn, scene_own, scene_before,
                    scene_ran>>
    BY <1>10 DEF Scene!Verify, Scene!tables, Scene!state, Scene!local
  <2>3. CountAt(r)'
    BY <2>1, <2>2, PageOf, NothingToCount DEF Played, Is
  <2> QED BY <2>1, <2>2, <2>3, CountAlone
<1>11. ASSUME NEW r \in Visits, Scene!CountBefore(r) PROVE CountOK'
  <2>1. /\ Run(r) /\ scene_at[r] = "reproduce"
             /\ scene_at' = [scene_at EXCEPT ![r] = "branch"]
        /\ UNCHANGED <<scene_plans, scene_question, scene_on, scene_turn, scene_own,
           scene_ran,
                       scene_result>>
    BY <1>11 DEF Scene!CountBefore, Scene!GoOn, Scene!IsRun, Run, Played, Is,
                 Scene!tables
  <2>2. \A c \in Scene!Customers : scene_own[r][c] = None
    BY <2>1 DEF WriterOK, Enrolling
  <2>3. CASE scene_customer = None
    <3>1. Scene!ResetEffect("a") /\ Scene!Disturbs(r, "a") /\ UNCHANGED scene_before
      BY <1>11, <2>3 DEF Scene!CountBefore
    <3>2. scene_customer' \in Scene!Customers \ {Scene!Shopper}
      BY <2>3, <3>1 DEF Scene!ResetEffect, Scene!NextCustomer, Scene!Shopper
    <3>3. scene_plans[scene_customer'].rows = 0 /\ scene_before[r] = 0
      BY <2>1, <2>3, <3>2 DEF EventsOK, Ahead, AskedOK
    <3>4. Scene!View(r, scene_customer)' = scene_plans[scene_customer']
      BY <2>1, <2>2, <3>2 DEF Scene!View
    <3>5. Made(r, 0)'
      BY <3>1, <3>3, <3>4 DEF Made
    <3>6. CountAt(r)'
      BY <2>1, <3>5 DEF CountAt, FirstHalf, SecondHalf, Enrolling
    <3>7. scene_fixed'["b"] = scene_fixed["b"]
      BY <3>1 DEF Scene!ResetEffect
    <3>8. \A x \in Visits \ {r} :
            Played(x) /\ scene_at[x] \in Working /\ x \notin scene_overlapped' =>
              scene_question[x].scenario # "a"
      BY <3>1, DisturbsRuns
    <3>9. scene_overlapped \subseteq scene_overlapped'
      BY <3>1, DisturbsRuns
    <3>10. \A x \in Visits \ {r} :
            Played(x) /\ scene_at[x] \in Working /\ x \notin scene_overlapped' =>
              IF Run(x) THEN /\ scene_customer' = scene_customer
                             /\ scene_fixed'["a"] = scene_fixed["a"]
                             /\ scene_plans'[scene_customer] = scene_plans[scene_customer]
                        ELSE scene_fixed'["b"] = scene_fixed["b"]
      BY <3>7, <3>8 DEF Run
    <3> QED BY <2>1, <3>1, <3>6, <3>9, <3>10, CountOthers
  <2>4. CASE scene_customer # None
    <3>1. scene_before' = [scene_before EXCEPT ![r] = Scene!View(r, scene_customer).rows]
          /\ UNCHANGED <<scene_customer, scene_fixed, scene_overlapped>>
      BY <1>11, <2>4 DEF Scene!CountBefore, Scene!state
    <3>2. Scene!View(r, scene_customer)' = Scene!View(r, scene_customer)
      BY <2>1, <3>1 DEF Scene!View
    <3>3. Scene!View(r, scene_customer).rows \in Nat
      BY <2>4, ViewType DEF PlanType
    <3>4. Made(r, 0)'
      BY <3>1, <3>2, <3>3 DEF Made
    <3>5. CountAt(r)'
      BY <2>1, <3>4 DEF CountAt, FirstHalf, SecondHalf, Enrolling
    <3>6. \A x \in Visits \ {r} : scene_before'[x] = scene_before[x]
            /\ scene_at'[x] = scene_at[x]
      BY <2>1, <3>1
    <3> QED BY <2>1, <3>1, <3>5, <3>6, CountAlone
  <2> QED BY <2>3, <2>4
<1>12. ASSUME NEW r \in Visits, Scene!Branch(r) PROVE CountOK'
  <2> DEFINE s == scene_question[r].scenario
  <2>1. Played(r) /\ s \in {"a", "b"} /\ scene_at[r] = IF s = "a" THEN "branch"
          ELSE "reproduce"
    BY <1>12, SceneQuestions DEF Scene!Branch, AskedOK, Run, Played, Is
  <2>2. /\ scene_at' = [scene_at EXCEPT ![r] = IF s = "b" THEN "report"
                          ELSE IF scene_fixed[s] THEN "acquire" ELSE "read"]
        /\ scene_ran' = [scene_ran EXCEPT ![r] = scene_fixed[s]]
        /\ scene_on' = [scene_on EXCEPT ![r] = IF s = "a" THEN scene_customer ELSE None]
        /\ UNCHANGED <<scene_plans, scene_customer, scene_fixed, scene_overlapped,
                       scene_question, scene_turn, scene_own, scene_before, scene_result>>
    BY <1>12 DEF Scene!Branch, Scene!tables, Scene!state
  <2>3. CASE s = "a"
    <3>1. Run(r) /\ scene_at[r] = "branch" /\ Run(r)'
      BY <2>1, <2>2, <2>3 DEF Run, Played, Is
    <3>2. scene_turn[r] = 1
      BY <3>1 DEF AskedOK
    <3>3. Quiet(r) => Made(r, 0)
      BY <3>1 DEF CountOK, CountAt, FirstHalf
    <3>4. Made(r, 0)' = Made(r, 0)
      BY <2>2 DEF Made, Scene!View
    <3>5. /\ scene_at'[r] \in Enrolling /\ scene_on'[r] = scene_customer
          /\ scene_ran'[r] = scene_fixed["a"] /\ scene_turn'[r] = 1
      BY <2>2, <2>3, <3>2 DEF Enrolling
    <3>6. Quiet(r) => CountAt(r)'
      BY <2>2, <3>1, <3>3, <3>4, <3>5 DEF CountAt, FirstHalf, SecondHalf, Enrolling
    <3> HIDE DEF s
    <3> QED BY <2>2, <3>6, CountAlone
  <2>4. CASE s = "b"
    <3>1. ~Run(r)' /\ scene_at'[r] = "report" /\ scene_ran'[r] = scene_fixed["b"]
      BY <2>1, <2>2, <2>4 DEF Run
    <3>2. CountAt(r)'
      BY <2>2, <3>1 DEF CountAt
    <3> HIDE DEF s
    <3> QED BY <2>2, <3>2, CountAlone
  <2> QED BY <2>1, <2>3, <2>4
<1>13. ASSUME NEW r \in Visits, Scene!Again(r) PROVE CountOK'
  <2>1. /\ scene_at[r] = "again" /\ Run(r)
        /\ \E to \in {"acquire", "read"} : scene_at' = [scene_at EXCEPT ![r] = to]
        /\ scene_turn' = [scene_turn EXCEPT ![r] = 2]
        /\ scene_on' = [scene_on EXCEPT ![r] = scene_customer]
        /\ UNCHANGED <<scene_plans, scene_customer, scene_fixed, scene_overlapped,
                       scene_question, scene_own, scene_before, scene_ran, scene_result>>
    BY <1>13 DEF Scene!Again, Scene!GoOn, Scene!tables, Scene!state, AskedOK
  <2>2. Run(r)' /\ Scene!View(r, scene_customer)' = Scene!View(r, scene_customer)
        /\ \A n \in {0, 1, 2} : Made(r, n)' = Made(r, n)
    BY <2>1 DEF Scene!View, Made, Run, Played, Is
  <2>3. Quiet(r) => CountAt(r)'
    BY <2>1, <2>2 DEF CountOK, CountAt, FirstHalf, SecondHalf, Enrolling
  <2> QED BY <2>1, <2>3, CountAlone
<1>14. ASSUME NEW r \in Visits, Scene!Report(r) PROVE CountOK'
  <2> DEFINE it == [status |-> "200", defect |-> Scene!DefectShown(r),
                    fixed |-> scene_fixed[scene_question[r].scenario]]
  <2>1. /\ Scene!Commit(r, it) /\ scene_at[r] = "report" /\ Played(r)
        /\ scene_question[r].scenario \in {"a", "b"}
    BY <1>14, SceneQuestions DEF Scene!Report, AskedOK, Played, Is
  <2>2. /\ scene_result'[r] = it /\ scene_at'[r] = "done" /\ scene_ran' = scene_ran
        /\ scene_question' = scene_question
    BY <2>1, Committing, AfterEnd DEF CommitsAs, EndsAs
  <2>3. ASSUME Quiet(r), Run(r)
        PROVE  Scene!DefectShown(r) = ~scene_ran[r] /\ it.fixed = scene_ran[r]
    <3>1. CountAt(r) /\ scene_question[r].scenario = "a" /\ Scene!IsRun(r, "a")
      BY <2>1, <2>3 DEF CountOK, Run, Scene!IsRun, Played, Is
    <3>2. /\ scene_fixed["a"] = scene_ran[r]
          /\ IF scene_ran[r] THEN Made(r, 0) \/ Made(r, 1) ELSE Made(r, 2)
      BY <2>1, <2>3, <3>1 DEF CountAt
    <3>3. scene_before[r] \in Nat /\ scene_ran[r] \in BOOLEAN
      OBVIOUS
    <3>4. Scene!NewRows(r) > 1 <=> ~scene_ran[r]
      BY <3>2, <3>3 DEF Made, Scene!NewRows
    <3>5. Scene!DefectShown(r) <=> ~scene_ran[r]
      BY <3>1, <3>4 DEF Scene!DefectShown
    <3>6. Scene!DefectShown(r) \in BOOLEAN
      BY <3>1 DEF Scene!DefectShown
    <3> QED BY <3>1, <3>2, <3>3, <3>5, <3>6
  <2>4. ASSUME Quiet(r), ~Run(r)
        PROVE  Scene!DefectShown(r) = ~scene_ran[r] /\ it.fixed = scene_ran[r]
    <3>1. scene_question[r].scenario = "b" /\ ~Scene!IsRun(r, "a")
      BY <2>1, <2>4 DEF Run, Scene!IsRun
    <3>2. scene_fixed["b"] = scene_ran[r] /\ scene_ran[r] \in BOOLEAN
      BY <2>1, <2>4 DEF CountOK, CountAt
    <3> QED BY <3>1, <3>2 DEF Scene!DefectShown
  <2>5. Quiet(r) => scene_result'[r].defect = ~scene_ran[r]
          /\ scene_result'[r].fixed = scene_ran[r]
    BY <2>2, <2>3, <2>4
  <2> HIDE DEF it
  <2>6. Quiet(r) => CountAt(r)'
    BY <2>2, <2>5 DEF CountAt, FirstHalf, SecondHalf, Enrolling
  <2> QED BY <2>1, <2>6, CountCommit
<1>15. ASSUME NEW c \in Scene!Customers, Scene!LockExpires(c) PROVE CountOK'
  <2>1. UNCHANGED <<scene_plans, scene_customer, scene_fixed, scene_overlapped, scene_at,
                    scene_question, scene_on, scene_turn, scene_own, scene_before, scene_ran,
                    scene_result>>
    BY <1>15 DEF Scene!LockExpires, Scene!tables, Scene!state, Scene!local
  <2> QED BY <2>1 DEF CountOK, CountAt, Quiet, Run, Played, Is, Made, Scene!View,
                      FirstHalf,
                     SecondHalf
<1> QED BY <1>1, <1>2, <1>3, <1>4, <1>5, <1>6, <1>7, <1>8,
           <1>9, <1>10, <1>11, <1>12, <1>13, <1>14, <1>15 DEF Scene!Next


-----------------------------------------------------------------------------
(* The invariant *)

\* The invariant holds at the start.
LEMMA SceneInit == Scene!Init => SceneInv
<1> SUFFICES ASSUME Scene!Init PROVE SceneInv
  OBVIOUS
<1> USE SceneConstants, SceneCustomers
<1>1. SceneShape
  <2>1. Scene!NoPlan \in PlanType
    BY DEF Scene!NoPlan, PlanType
  <2>2. [c \in Scene!Customers |-> None] \in [Scene!Customers -> OwnType \cup {None}]
    OBVIOUS
  <2> QED BY <2>1, <2>2 DEF Scene!Init, Scene!EachRequest, SceneShape, Places,
                            Working, Enrolling
<1>2. ResultShape /\ AskedOK /\ WriterOK
  BY DEF Scene!Init, Scene!EachRequest, ResultShape, AskedOK, WriterOK, Plan, Run, Played, Is,
         Working, Enrolling
<1>3. EventsOK
  BY DEF Scene!Init, EventsOK, Scene!NoPlan
<1>4. HolderOK /\ CountOK
  BY DEF Scene!Init, Scene!EachRequest, HolderOK, HolderAt, CountOK, CountAt, Plan, Run,
         Played, Is
<1> QED BY <1>1, <1>2, <1>3, <1>4 DEF SceneInv

\* Every step of a request, and none, keeps it.
LEMMA SceneStep ==
  ASSUME SceneInv, Scene!Next \/ UNCHANGED scene
  PROVE  SceneInv'
<1>1. CASE Scene!Next
  BY <1>1, SceneShapeKept, ResultKept, AskedKept, WriterKept, EventsKept, HolderKept,
         CountKept
     DEF SceneInv
<1>2. CASE UNCHANGED scene
  <2>1. SceneShape' /\ ResultShape'
    BY <1>2 DEF scene, SceneInv, SceneShape, ResultShape
  <2>2. AskedOK' /\ WriterOK' /\ EventsOK'
    BY <1>2 DEF scene, SceneInv, AskedOK, WriterOK, EventsOK, Plan, Run, Played, Is,
                Ahead,
                Counts, Scene!WantedTerms
  <2>3. HolderOK' /\ CountOK'
    BY <1>2 DEF scene, SceneInv, HolderOK, HolderAt, CountOK, CountAt, Quiet, Plan,
                Run, Played,
                Is, Made, Scene!View, FirstHalf, SecondHalf
  <2> QED BY <2>1, <2>2, <2>3 DEF SceneInv
<1> QED BY <1>1, <1>2

\* Requests keep to what the parts of SceneInv say, in every interleaving of enrollments,
\* resets, approvals and reproductions (ContractPlanService, TriageScenarioAService).
THEOREM Scenes == Spec => [](part = "scene" => SceneInv)
<1>1. Init => (part = "scene" => SceneInv)
  BY SceneInit DEF Init
<1>2. (part = "scene" => SceneInv) /\ [Next]_vars => (part = "scene" => SceneInv)'
  <2> SUFFICES ASSUME part = "scene" => SceneInv, [Next]_vars, part' = "scene" PROVE SceneInv'
    OBVIOUS
  <2>1. part = "scene" /\ (Scene!Next \/ UNCHANGED scene)
    BY DEF Next, vars
  <2> QED BY <2>1, SceneStep
<1> QED BY <1>1, <1>2, PTL DEF Spec

-----------------------------------------------------------------------------
(* What the runs check *)

\* However often and in whatever order a customer's enrollment is sent, with the lock,
\* without it or after it expired, no two events in a row are of the same terms
\* (ContractPlanService.enroll, the index on active plans).
THEOREM EachChangeOnce == Spec => []NoEventTwice
<1>1. (part = "scene" => SceneInv) => NoEventTwice
  BY DEF SceneInv, EventsOK, NoEventTwice, Scene!NoEventTwice
<1> QED BY <1>1, Scenes, PTL

\* As long as Redis answers and no lock expires, an enrollment that loses the race gets a
\* 409 and never runs into the index (registerLockReleaseAfterTransaction).
THEOREM LosersRetry == Spec => []LoserIsToldToRetry
<1>1. SceneInv => Scene!LoserIsToldToRetry
  <2> SUFFICES ASSUME SceneInv, NEW r \in Visits, scene_at[r] = "done",
                      scene_question[r].kind = "enroll", scene_result[r].status = "500",
                      scene_redis
               PROVE  scene_expiries > 0
    BY DEF Scene!LoserIsToldToRetry
  <2>1. Plan(r)
    BY SceneConstants DEF SceneInv, AskedOK, Plan, Is
  <2>2. scene_expiries # 0
    BY <2>1 DEF SceneInv, HolderOK, HolderAt
  <2> QED BY <2>2 DEF SceneInv, SceneShape
<1>2. (part = "scene" => SceneInv) => LoserIsToldToRetry
  BY <1>1 DEF LoserIsToldToRetry
<1> QED BY <1>2, Scenes, PTL

\* Unless another request comes into it, a reproduction shows the defect exactly when it
\* ran the old code, whatever rows earlier ones left (TriageScenarioAService.reproduce).
THEOREM VerdictsAreOwn == Spec => []VerdictIsOfThisRun
<1>1. SceneInv => Scene!VerdictIsOfThisRun
  <2> SUFFICES ASSUME SceneInv, NEW r \in Visits \ scene_overlapped, scene_at[r] = "done",
                      scene_question[r].kind = "reproduce", scene_result[r].status = "200"
               PROVE  /\ scene_result[r].defect = ~scene_ran[r]
                      /\ scene_result[r].fixed = scene_ran[r]
    BY DEF Scene!VerdictIsOfThisRun
  <2>1. Played(r)
    BY SceneConstants DEF SceneInv, AskedOK, Played, Is
  <2> QED BY <2>1 DEF SceneInv, CountOK, CountAt, Quiet
<1>2. (part = "scene" => SceneInv) => VerdictIsOfThisRun
  BY <1>1 DEF VerdictIsOfThisRun
<1> QED BY <1>2, Scenes, PTL
==============================================================================
