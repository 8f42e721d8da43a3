---------------------------- MODULE TriageRepair ----------------------------
(***************************************************************************)
(* The model steps of the Incident Triage Lab: every request reserves a    *)
(* call (agent/triage_budget.py), asks the model for a diagnosis or for a  *)
(* candidate patch, and a candidate is compiled and tested in a copy of    *)
(* the application before it is kept for promotion                         *)
(* (agent/triage_execution.py, the handlers in agent/web_server.py).       *)
(* Delivery models what becomes of a kept candidate.                       *)
(***************************************************************************)
EXTENDS Naturals, FiniteSets

CONSTANTS Clicks,      \* requests
          Scenarios,   \* "a", "b", "c": the same steps on another file
          Visitors,    \* visitor keys
          Owner,       \* the key of a request with the owner token
          None,
          DailyMax,    \* TRIAGE_DAILY_MAX_MODEL_CALLS
          VisitorMax,  \* TRIAGE_PER_VISITOR_DAILY_MAX
          MaxDays      \* bound: midnights

TriageAssumption ==
  /\ None \notin Clicks \cup Scenarios \cup Visitors \cup {Owner} /\ Owner \notin Visitors
  /\ None \notin {"DAILY_CAP_REACHED", "COOLDOWN", "VISITOR_DAILY_CAP_REACHED"}
  /\ DailyMax \in Nat /\ VisitorMax \in Nat /\ MaxDays \in Nat

VARIABLES
  at,         \* where each request is
  request,    \* what it asks for: the step, the scenario and whose it is
  verdict,    \* of a candidate: what preflight, compiler and tests have said so far
  status,     \* the status a request ends with
  total,      \* _total
  used,       \* _per_visitor
  recent,     \* keys within the cooldown (_last_at)
  days,       \* midnights so far
  calls,      \* the requests that called the model
  candidates  \* triage_promotion._verified_candidates: the request kept per scenario

budget == <<total, used, recent, days>>
vars   == <<at, request, verdict, status, budget, calls, candidates>>

Keys == Visitors \cup {Owner}
Unknown == [environment |-> None, compile |-> None, test |-> None]

Init ==
  /\ at = [c \in Clicks |-> "idle"] /\ request = [c \in Clicks |-> None]
  /\ verdict = [c \in Clicks |-> Unknown] /\ status = [c \in Clicks |-> None]
  /\ total = 0 /\ used = [v \in Visitors |-> 0] /\ recent = {} /\ days = 0
  /\ calls = {} /\ candidates = [s \in Scenarios |-> None]

GoOn(c, from, to) == at[c] = from /\ at' = [at EXCEPT ![c] = to]
Ends(c, from, s) == GoOn(c, from, "done") /\ status' = [status EXCEPT ![c] = s]

-----------------------------------------------------------------------------
(* triage_budget *)

\* _total after a reservation; the owner is exempt from the limits per visitor
\* alone.
Counted(v) == total + 1

Refusal(v) == IF total >= DailyMax THEN "DAILY_CAP_REACHED"
              ELSE IF v = Owner THEN None
              ELSE IF v \in recent THEN "COOLDOWN"
              ELSE IF used[v] >= VisitorMax THEN "VISITOR_DAILY_CAP_REACHED"
              ELSE None

\* check_and_reserve, under its lock: a call is counted before it is made.  With a
\* cooldown configured every visitor's call starts one.
Reserve(c, r) ==
  /\ at[c] = "idle" /\ request' = [request EXCEPT ![c] = r]
  /\ IF Refusal(r.by) # None
       THEN /\ Ends(c, "idle", Refusal(r.by)) /\ UNCHANGED <<total, used, recent>>
       ELSE /\ GoOn(c, "idle", "reserved") /\ UNCHANGED status
            /\ total' = Counted(r.by)
            /\ IF r.by = Owner THEN UNCHANGED <<used, recent>>
               ELSE /\ used' = [used EXCEPT ![r.by] = @ + 1]
                    /\ recent' \in {recent, recent \cup {r.by}}
  /\ UNCHANGED <<verdict, days, calls, candidates>>

CooldownPasses(v) ==
  /\ v \in recent /\ recent' = recent \ {v}
  /\ UNCHANGED <<at, request, verdict, status, total, used, days, calls, candidates>>

\* _roll_day_locked, at the first request of a new day (UTC).
Midnight ==
  /\ days < MaxDays /\ days' = days + 1
  /\ total' = 0 /\ used' = [v \in Visitors |-> 0] /\ recent' = {}
  /\ UNCHANGED <<at, request, verdict, status, calls, candidates>>

-----------------------------------------------------------------------------
(* The handlers *)

\* _call_model_text is denied: no key, or the model is switched off.
Denied(c) ==
  /\ Ends(c, "reserved", "unavailable")
  /\ UNCHANGED <<request, verdict, budget, calls, candidates>>

\* The call is made.
Calls(c) == calls' = calls \cup {c}

\* A diagnosis that is not valid JSON is an answer too; an error of the API ends any
\* request.
Diagnose(c) ==
  /\ request[c] # None /\ request[c].step = "diagnose" /\ Calls(c)
  /\ \E s \in {"diagnosed", "invalid JSON", "model error"} : Ends(c, "reserved", s)
  /\ UNCHANGED <<request, verdict, budget, candidates>>

Generate(c) ==
  /\ request[c] # None /\ request[c].step = "generate" /\ Calls(c)
  /\ \/ Ends(c, "reserved", "model error")
     \/ GoOn(c, "reserved", "generated") /\ UNCHANGED status
  /\ UNCHANGED <<request, verdict, budget, candidates>>

\* _isolated_compile_java_candidate: the environment, the compiler and the tests
\* in a fresh copy; a timeout is a failure.
Look(c, from, what, to) ==
  /\ GoOn(c, from, to)
  /\ \E ok \in BOOLEAN : verdict' = [verdict EXCEPT ![c][what] = ok]
  /\ UNCHANGED <<request, status, budget, calls, candidates>>

Preflight(c) == Look(c, "generated", "environment", "preflighted")
Compile(c)   == verdict[c].environment = TRUE /\ Look(c, "preflighted", "compile", "compiled")
Test(c)      == verdict[c].compile = TRUE /\ Look(c, "compiled", "test", "tested")

StatusOf(v) == IF v.environment = FALSE THEN "ENVIRONMENT_INVALID"
               ELSE IF v.compile = FALSE THEN "COMPILE_FAILED"
               ELSE IF v.test = FALSE THEN "TESTS_FAILED"
               ELSE "COMPILE_VERIFIED"

Failed(v) == FALSE \in {v.environment, v.compile, v.test}

\* record_verified_candidate: the latest of a scenario replaces the one before.
Kept(c) == IF StatusOf(verdict[c]) = "COMPILE_VERIFIED"
             THEN [candidates EXCEPT ![request[c].scenario] = c] ELSE candidates

Conclude(c) ==
  /\ at[c] \in {"preflighted", "compiled", "tested"}
  /\ at[c] = "tested" \/ Failed(verdict[c])
  /\ Ends(c, at[c], StatusOf(verdict[c]))
  /\ candidates' = Kept(c)
  /\ UNCHANGED <<request, verdict, budget, calls>>

Requests == [step : {"diagnose", "generate"}, scenario : Scenarios, by : Keys]

Next ==
  \/ \E c \in Clicks : \/ \E r \in Requests : Reserve(c, r)
                       \/ Denied(c) \/ Diagnose(c) \/ Generate(c) \/ Preflight(c)
                       \/ Compile(c) \/ Test(c) \/ Conclude(c)
  \/ \E v \in Visitors : CooldownPasses(v)
  \/ Midnight

Spec == Init /\ [][Next]_vars

-----------------------------------------------------------------------------
(* Properties *)

TypeOK ==
  /\ at \in [Clicks -> {"idle", "reserved", "generated", "preflighted", "compiled",
                        "tested", "done"}]
  /\ request \in [Clicks -> Requests \cup {None}]
  /\ verdict \in [Clicks -> [environment : BOOLEAN \cup {None}, compile : BOOLEAN \cup {None},
                             test : BOOLEAN \cup {None}]]
  /\ status \in [Clicks -> {None, "DAILY_CAP_REACHED", "COOLDOWN", "VISITOR_DAILY_CAP_REACHED",
                            "unavailable", "model error", "diagnosed", "invalid JSON", "ENVIRONMENT_INVALID",
                            "COMPILE_FAILED", "TESTS_FAILED", "COMPILE_VERIFIED"}]
  /\ total \in Nat /\ used \in [Visitors -> Nat] /\ recent \subseteq Visitors
  /\ days \in 0..MaxDays /\ calls \subseteq Clicks
  /\ candidates \in [Scenarios -> Clicks \cup {None}]

\* However requests interleave, with one another and with midnight, the lab makes
\* no more model calls than its daily cap allows for the days it has run, the
\* owner's included (triage_budget.py: "a call is counted when it is reserved").
CallsWithinCap == Cardinality(calls) <= DailyMax * (days + 1)

\* A candidate that is kept for promotion is of its own scenario, compiled, and
\* passed the scenario's tests (triage_generate_candidate).
KeptPassed ==
  \A s \in Scenarios : candidates[s] # None =>
    /\ request[candidates[s]].scenario = s
    /\ verdict[candidates[s]] = [environment |-> TRUE, compile |-> TRUE, test |-> TRUE]
=============================================================================
