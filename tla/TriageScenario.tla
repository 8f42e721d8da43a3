--------------------------- MODULE TriageScenario ---------------------------
(***************************************************************************)
(* The scenarios of the Incident Triage Lab and the enrollment they replay:*)
(* the pages' requests to reset, reproduce and approve                     *)
(* (agent/web_server.py, agent/triage_execution.py), the one state each    *)
(* scenario has for all visitors (TriageScenarioAService and its like), and*)
(* the transactions of ContractPlanService with their lock in Redis and the*)
(* index on active plans.  Scenario "a" runs two enrollments in one        *)
(* transaction; "b" stands for those that keep no rows.                    *)
(***************************************************************************)
EXTENDS Integers, Sequences

CONSTANTS Requests,     \* requests of pages and customers, one each
          Terms,        \* the terms a customer may enroll with
          None,
          MaxResets,    \* bound: customers of scenario "a", one for each reset
          MaxExpiries   \* bound: locks that run into their ten seconds

Stories   == {"a", "b"}
Shopper   == 0                      \* a customer with a plan of her own
Customers == Shopper..MaxResets
LabTerms  == "lab terms"
Questions == [kind : {"enroll"}, terms : Terms]
             \cup [kind : {"reset", "reproduce", "verify"}, scenario : Stories]
             \cup [kind : {"approve"}, scenario : Stories, admin : BOOLEAN]

\* None is nothing a variable may hold instead of it.
ScenarioAssumption ==
  /\ None \notin Requests \cup Terms \cup {LabTerms} \cup Questions
  /\ None \notin Nat /\ None \notin Requests \X {1, 2}
  /\ None \notin [rows : Nat, active : Terms \cup {LabTerms, None}]
  /\ {MaxResets, MaxExpiries} \subseteq Nat

VARIABLES
  redis,      \* whether the lock service answers
  lock,       \* enroll-lock:<customer>: the token, a request and its enrollment
  plans,      \* committed: how many rows a customer has and the terms of the active one
  events,     \* committed: the enrollment events of the outbox, per customer
  customer,   \* triageCustomerId
  fixed,      \* fixApplied
  at,         \* where each request is
  question,   \* what it asks for
  on,         \* the customer it enrolls
  turn,       \* which of its enrollments it is at
  read,       \* what it has read of the plans of that customer
  own,        \* what it has written to them, not committed
  before,     \* rowsBefore
  ran,        \* whether it ran the fixed code
  result,     \* its answer
  overlapped, \* reproductions another request has come into
  expiries

locks  == <<redis, lock, expiries>>
tables == <<plans, events>>
state  == <<customer, fixed>>
local  == <<on, turn, read, own, before, ran>>
vars   == <<locks, tables, state, at, question, local, result, overlapped>>

NoPlan == [rows |-> 0, active |-> None]
EachRequest(x) == [r \in Requests |-> x]

Init ==
  /\ redis \in BOOLEAN /\ lock = [c \in Customers |-> None] /\ expiries = 0
  /\ plans = [c \in Customers |-> NoPlan] /\ events = [c \in Customers |-> <<>>]
  /\ customer = None /\ fixed = [s \in Stories |-> FALSE]
  /\ at = EachRequest("idle") /\ question = EachRequest(None) /\ on = EachRequest(None)
  /\ turn = EachRequest(1) /\ read = EachRequest(NoPlan)
  /\ own = EachRequest([c \in Customers |-> None])
  /\ before = EachRequest(0) /\ ran = EachRequest(FALSE)
  /\ result = EachRequest(None) /\ overlapped = {}

GoOn(r, from, to) == at[r] = from /\ at' = [at EXCEPT ![r] = to]
Answer(code) == [status |-> code]
Answers(r, x) == result' = [result EXCEPT ![r] = x]
IsRun(r, s) == question[r] # None /\ question[r].kind = "reproduce" /\ question[r].scenario = s
\* What happens to a scenario is in the way of everyone who reproduces it.
Disturbs(r, s) == overlapped' = overlapped \cup
  {x \in Requests \ {r} : IsRun(x, s) /\ at[x] \notin {"idle", "done"}}

-----------------------------------------------------------------------------
(* Transactions *)

\* What a request sees: its own writes, else what is committed.
View(r, c) == IF own[r][c] # None THEN own[r][c] ELSE plans[c]
\* Another transaction has a new active row of this customer in the index.
Blocked(r, c) == \E x \in Requests \ {r} : own[x][c] # None
TokensOf(r) == {<<r, n>> : n \in 1..2}
\* release compares the token in Redis and deletes the key in one script.
Released(r) == [c \in Customers |-> IF lock[c] \in TokensOf(r) THEN None ELSE lock[c]]

\* Mutant: the lock is released when the method returns, before the commit.
AtReturn(r) == Released(r)
\* registerLockReleaseAfterTransaction: nothing is released when enroll returns.
ReleasedAtReturn(r) == lock

End(r, answer) ==
  /\ at' = [at EXCEPT ![r] = "done"] /\ Answers(r, answer)
  /\ own' = [own EXCEPT ![r] = [c \in Customers |-> None]]
  /\ lock' = Released(r)
  /\ UNCHANGED <<redis, expiries, state, question, on, turn, read, before, ran>>

RollBack(r, answer) == End(r, answer) /\ UNCHANGED <<tables, overlapped>>

Commit(r, answer) ==
  /\ plans' = [c \in Customers |-> View(r, c)]
  /\ events' = [c \in Customers |->
       IF own[r][c] # None /\ (question[r].kind = "enroll" \/ ran[r])
         THEN Append(events[c], own[r][c].active) ELSE events[c]]
  /\ End(r, answer)
  /\ IF question[r].kind = "reproduce" THEN Disturbs(r, question[r].scenario)
                                       ELSE UNCHANGED overlapped

-----------------------------------------------------------------------------
(* ContractPlanService.enroll *)

WantedTerms(r) == IF question[r].kind = "enroll" THEN question[r].terms ELSE LabTerms
\* Where a request goes when an enrollment has returned: the lab enrolls twice.
Next1(r) == IF question[r].kind = "enroll" THEN "commit"
            ELSE IF turn[r] = 1 THEN "again" ELSE "report"

\* tryAcquire, whose exception means that Redis is not reachable: go on without.
Acquire(r) ==
  /\ at[r] = "acquire"
  /\ IF redis /\ lock[on[r]] # None
       THEN RollBack(r, Answer("409"))
       ELSE /\ GoOn(r, "acquire", "read")
            /\ lock' = IF redis THEN [lock EXCEPT ![on[r]] = <<r, turn[r]>>] ELSE lock
            /\ UNCHANGED <<redis, expiries, tables, state, question, local, result, overlapped>>

\* Mutant: no check for the same terms.
NeverSame(r, view) == FALSE
IsSameTerms(r, view) == view.active = WantedTerms(r)
\* The old code of the lab, enrollBuggy, does not look.
IsOld(r) == question[r].kind = "reproduce" /\ ~ran[r]

\* findByCustomerIdAndStatus: the same terms again change nothing.
ReadActive(r) ==
  LET view == View(r, on[r]) IN
  /\ at[r] = "read"
  /\ read' = [read EXCEPT ![r] = view]
  /\ IF ~IsOld(r) /\ IsSameTerms(r, view)
       THEN GoOn(r, "read", Next1(r)) /\ lock' = ReleasedAtReturn(r)
       ELSE GoOn(r, "read", "write") /\ UNCHANGED lock
  /\ UNCHANGED <<redis, expiries, tables, state, question, on, turn, own, before, ran,
                 result, overlapped>>

\* The active plan is cancelled and the new one inserted; the index waits for another
\* transaction's row and refuses a second active one.
Write(r) ==
  LET c == on[r] IN
  /\ at[r] = "write" /\ ~Blocked(r, c)
  /\ IF View(r, c) # read[r]
       THEN RollBack(r, Answer("500"))
       ELSE /\ GoOn(r, "write", Next1(r))
            /\ own' = [own EXCEPT ![r][c] = [rows |-> read[r].rows + 1, active |-> WantedTerms(r)]]
            /\ lock' = ReleasedAtReturn(r)
            /\ UNCHANGED <<redis, expiries, tables, state, question, on, turn, read, before,
                           ran, result, overlapped>>

CommitEnrollment(r) == at[r] = "commit" /\ Commit(r, Answer("200"))

LockExpires(c) ==
  /\ lock[c] # None /\ expiries < MaxExpiries
  /\ lock' = [lock EXCEPT ![c] = None] /\ expiries' = expiries + 1
  /\ UNCHANGED <<redis, tables, state, at, question, local, result, overlapped>>

-----------------------------------------------------------------------------
(* The requests of the pages *)

\* A handler runs in a thread of its own, with one call to the Customer App or two.
Ask(r, q) ==
  /\ at[r] = "idle" /\ question' = [question EXCEPT ![r] = q]
  /\ on' = [on EXCEPT ![r] = IF q.kind = "enroll" THEN Shopper ELSE None]
  /\ at' = [at EXCEPT ![r] = CASE q.kind = "enroll"  -> "acquire"
                               [] q.kind = "approve" -> "login"
                               [] OTHER              -> q.kind]
  /\ UNCHANGED <<locks, tables, state, turn, read, own, before, ran, result, overlapped>>

NextCustomer == IF customer = None THEN 1 ELSE customer + 1

ResetEffect(s) ==
  /\ fixed' = [fixed EXCEPT ![s] = FALSE]
  /\ IF s = "a" THEN NextCustomer \in Customers /\ customer' = NextCustomer
                ELSE UNCHANGED customer

\* A new customer in scenario "a", and the defect is back.
Reset(r) ==
  LET s == question[r].scenario IN
  /\ GoOn(r, "reset", "done") /\ Disturbs(r, s)
  /\ \E code \in {"200", "502"} : Answers(r, Answer(code))
  /\ ResetEffect(s)
  /\ UNCHANGED <<locks, tables, question, local>>

\* approve_scenario logs in with the visitor's credentials first.
Login(r) ==
  /\ at[r] = "login"
  /\ IF question[r].admin THEN GoOn(r, "login", "approve") /\ UNCHANGED result
                          ELSE GoOn(r, "login", "done") /\ Answers(r, Answer("401"))
  /\ UNCHANGED <<locks, tables, state, question, local, overlapped>>

Approve(r) ==
  LET s == question[r].scenario IN
  /\ GoOn(r, "approve", "done") /\ Answers(r, Answer("200")) /\ Disturbs(r, s)
  /\ fixed' = [fixed EXCEPT ![s] = TRUE]
  /\ UNCHANGED <<locks, tables, customer, question, local>>

\* The Customer App cannot be reached; a reset may also take effect unanswered.
Unreachable(r) ==
  /\ at[r] \in {"reset", "reproduce"} /\ at' = [at EXCEPT ![r] = "done"] /\ Answers(r, Answer("502"))
  /\ UNCHANGED <<locks, tables, state, question, local, overlapped>>

\* verify_fix tests the sources the workbench was deployed with, never the scenario's
\* state: no approval changes what it says.
Verify(r) ==
  /\ GoOn(r, "verify", "done")
  /\ \E code \in {"ENVIRONMENT_INVALID", "no mvnw", "passed", "failed"} :
       Answers(r, Answer(code))
  /\ UNCHANGED <<locks, tables, state, question, local, overlapped>>

-----------------------------------------------------------------------------
(* TriageScenarioAService.reproduce and TriageScenarioBService.reproduce *)

CountBefore(r) ==
  /\ IsRun(r, "a") /\ GoOn(r, "reproduce", "branch")
  /\ IF customer = None
       THEN ResetEffect("a") /\ Disturbs(r, "a") /\ UNCHANGED before
       ELSE /\ before' = [before EXCEPT ![r] = View(r, customer).rows]
            /\ UNCHANGED <<state, overlapped>>
  /\ UNCHANGED <<locks, tables, question, on, turn, read, own, ran, result>>

\* fixApplied is read once for the code to run, and again for the answer.
Branch(r) ==
  LET s == question[r].scenario IN
  /\ at[r] \in {"reproduce", "branch"}
  /\ at[r] = IF s = "a" THEN "branch" ELSE "reproduce"
  /\ at' = [at EXCEPT ![r] = IF s = "b" THEN "report" ELSE IF fixed[s] THEN "acquire" ELSE "read"]
  /\ ran' = [ran EXCEPT ![r] = fixed[s]]
  /\ on' = [on EXCEPT ![r] = IF s = "a" THEN customer ELSE None]
  /\ UNCHANGED <<locks, tables, state, question, turn, read, own, before, result, overlapped>>

\* The second enrollment, in the same transaction: triageCustomerId is read again.
Again(r) ==
  /\ GoOn(r, "again", IF ran[r] THEN "acquire" ELSE "read")
  /\ turn' = [turn EXCEPT ![r] = 2] /\ on' = [on EXCEPT ![r] = customer]
  /\ UNCHANGED <<locks, tables, state, question, read, own, before, ran, result, overlapped>>

\* Mutant: the rows the customer has, whoever made them (the code before its fix).
AllRows(r) == View(r, customer).rows
\* newRowsThisCall
NewRows(r) == View(r, customer).rows - before[r]
\* "b" asks whether its policy tried more than once what cannot succeed.
DefectShown(r) == IF IsRun(r, "a") THEN NewRows(r) > 1 ELSE ~fixed["b"] /\ ~ran[r]

Report(r) ==
  /\ at[r] = "report"
  /\ Commit(r, [status |-> "200", defect |-> DefectShown(r),
                fixed |-> fixed[question[r].scenario]])

Next ==
  \/ \E r \in Requests :
       \/ \E q \in Questions : Ask(r, q)
       \/ Acquire(r) \/ ReadActive(r) \/ Write(r) \/ CommitEnrollment(r)
       \/ Reset(r) \/ Login(r) \/ Approve(r) \/ Unreachable(r) \/ Verify(r)
       \/ CountBefore(r) \/ Branch(r) \/ Again(r) \/ Report(r)
  \/ \E c \in Customers : LockExpires(c)

Spec == Init /\ [][Next]_vars

-----------------------------------------------------------------------------
(* Properties *)

\* However often and in whatever order a customer's enrollment is sent, each change of
\* her plan makes one event: no two in a row are of the same terms, with the lock,
\* without it, or after it expired (ContractPlanService.enroll, IDEMPOTENCY).
NoEventTwice ==
  \A c \in Customers : \A i \in 1..(Len(events[c]) - 1) : events[c][i] # events[c][i + 1]

\* As long as Redis answers and no lock expires, customers who enroll together get a
\* 409 and never run into the index (registerLockReleaseAfterTransaction).
LoserIsToldToRetry ==
  \A r \in Requests :
    at[r] = "done" /\ question[r].kind = "enroll" /\ result[r].status = "500"
      => ~redis \/ expiries > 0

\* Unless another visitor resets, approves or reproduces meanwhile, a reproduction shows
\* the defect exactly when it ran the old code, however many rows earlier ones left
\* (TriageScenarioAService.reproduce, the bug its comment tells of).
VerdictIsOfThisRun ==
  \A r \in Requests \ overlapped :
    at[r] = "done" /\ question[r].kind = "reproduce" /\ result[r].status = "200"
      => result[r].defect = ~ran[r] /\ result[r].fixed = ran[r]
=============================================================================
