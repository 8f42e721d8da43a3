----------------------------- MODULE Interview -----------------------------
(***************************************************************************)
(* The Standing Interview: what a public question costs                    *)
(* (agent/si_budget.py, the handler in agent/web_server.py) and what       *)
(* becomes of the model's replies before one is shown                      *)
(* (agent/standing_interview.py, answer).                                  *)
(***************************************************************************)
EXTENDS Naturals, FiniteSets

CONSTANTS Asks,         \* requests
          Visitors,     \* visitor keys
          Operator,     \* the key of a request with the operator token
          None,
          DailyMax,     \* SI_DAILY_MAX_ANSWERS
          VisitorMax,   \* SI_PER_VISITOR_DAILY_MAX
          MaxDays       \* bound: midnights

InterviewAssumption ==
  /\ Operator \notin Visitors /\ None \notin Visitors \cup {Operator}
  /\ None \notin {"daily_cap", "cooldown", "visitor_cap", "answered"}
  /\ DailyMax \in Nat /\ VisitorMax \in Nat /\ MaxDays \in Nat

VARIABLES
  at,        \* where each request is
  who,       \* its key
  text,      \* the reply at hand
  outcome,   \* what answer() returns, or the refusal of the budget
  answers,   \* _answers_today
  count,     \* _visitor_count
  recent,    \* keys whose last answer is less than the gap ago (_visitor_last_at)
  days,      \* midnights so far
  reached,   \* of each request: did it reach the model today, and as whom?
  overlapped \* was a visitor let in while another was being answered?

budget == <<answers, count, recent, days>>
vars   == <<at, who, text, outcome, budget, reached, overlapped>>

Keys == Visitors \cup {Operator}

\* What the checks of answer() tell apart in a reply: _model_declined, leaks
\* (an extension is the retryable leak) and voice_violations.
Replies == [declines : BOOLEAN, leak : {"none", "extension", "hard"},
            voice : {"good", "soft", "hard"}]
NoText == None

InFlight(a) == at[a] \notin {"idle", "done"}

Init ==
  /\ at = [a \in Asks |-> "idle"] /\ who = [a \in Asks |-> None]
  /\ text = [a \in Asks |-> NoText] /\ outcome = [a \in Asks |-> None]
  /\ answers = 0 /\ count = [v \in Keys |-> 0] /\ recent = {} /\ days = 0
  /\ reached = [a \in Asks |-> None] /\ overlapped = FALSE

-----------------------------------------------------------------------------
(* si_budget *)

\* Mutant: the cap is passed by one.
OffByOne(v) == IF answers > DailyMax THEN "daily_cap" ELSE None
\* check: the first reason to turn the visitor away, None if there is none.
Refusal(v) == IF answers >= DailyMax THEN "daily_cap"
              ELSE IF v \in recent THEN "cooldown"
              ELSE IF count[v] >= VisitorMax THEN "visitor_cap"
              ELSE None

\* record_answer is not called for these.
Uncounted == {"private_topic", "no_model", "model_unavailable"}

\* standing_interview_ask up to answer().
Ask(a, v) ==
  /\ at[a] = "idle" /\ who' = [who EXCEPT ![a] = v]
  /\ IF v = Operator \/ Refusal(v) = None
       THEN /\ at' = [at EXCEPT ![a] = "retrieving"] /\ UNCHANGED outcome
            /\ overlapped' = (overlapped \/ (v # Operator /\ \E b \in Asks :
                                               InFlight(b) /\ who[b] # Operator))
       ELSE /\ at' = [at EXCEPT ![a] = "done"]
            /\ outcome' = [outcome EXCEPT ![a] = Refusal(v)] /\ UNCHANGED overlapped
  /\ UNCHANGED <<text, budget, reached>>

\* record_answer, for the operator too.
Record(a) ==
  /\ at[a] = "recording" /\ at' = [at EXCEPT ![a] = "done"]
  /\ IF outcome[a] \in Uncounted
       THEN UNCHANGED budget
       ELSE /\ answers' = answers + 1
            /\ count' = [count EXCEPT ![who[a]] = @ + 1]
            /\ recent' = recent \cup {who[a]} /\ UNCHANGED days
  /\ UNCHANGED <<who, text, outcome, reached, overlapped>>

\* Time: the gap of a visitor passes; _roll_day_locked at midnight (UTC).
GapPasses(v) ==
  /\ v \in recent /\ recent' = recent \ {v}
  /\ UNCHANGED <<at, who, text, outcome, answers, count, days, reached, overlapped>>

Midnight ==
  /\ days < MaxDays /\ days' = days + 1
  /\ answers' = 0 /\ count' = [v \in Keys |-> 0] /\ recent' = {}
  /\ reached' = [a \in Asks |-> None]
  /\ UNCHANGED <<at, who, text, outcome, overlapped>>

-----------------------------------------------------------------------------
(* answer() *)

Returns(a, o) == /\ outcome' = [outcome EXCEPT ![a] = o]
                 /\ at' = [at EXCEPT ![a] = "recording"]
GoOn(a, to) == at' = [at EXCEPT ![a] = to] /\ UNCHANGED outcome

\* No corpus, a private topic, nothing retrieved above the threshold: answer()
\* returns without a model call.
Retrieve(a) ==
  /\ at[a] = "retrieving"
  /\ \/ \E o \in {"no_corpus", "private_topic", "ungrounded"} : Returns(a, o)
     \/ GoOn(a, "asking model")
  /\ UNCHANGED <<who, text, budget, reached, overlapped>>

\* From the voice gate on: a violation earns one retry.
Judge(a, r) == IF r.voice # "good" THEN GoOn(a, "voice retry") ELSE Returns(a, "answered")

\* The API failed, or there is no key.
Unreachable(a) ==
  /\ at[a] = "asking model"
  /\ \E o \in {"model_unavailable", "no_model"} : Returns(a, o)
  /\ UNCHANGED <<who, text, budget, reached, overlapped>>

\* The primary reply.
FirstReply(a, r) ==
  /\ at[a] = "asking model"
  /\ text' = [text EXCEPT ![a] = r] /\ reached' = [reached EXCEPT ![a] = who[a]]
  /\ IF r = NoText THEN Returns(a, "model_empty_reply")
     ELSE IF r.declines THEN Returns(a, "ungrounded_model_declined")
     ELSE IF r.leak = "extension" THEN GoOn(a, "leak retry")
     ELSE IF r.leak = "hard" THEN Returns(a, "leak_blocked")
     ELSE Judge(a, r)
  /\ UNCHANGED <<who, budget, overlapped>>

\* The reply of a retry is scanned in full; no text stands for a call that failed.
Clean(r) == r # NoText /\ r.leak = "none"

LeakRetry(a, r) ==
  /\ at[a] = "leak retry"
  /\ IF Clean(r) THEN /\ text' = [text EXCEPT ![a] = r] /\ Judge(a, r)
                 ELSE Returns(a, "leak_blocked") /\ UNCHANGED text
  /\ UNCHANGED <<who, budget, reached, overlapped>>

VoiceRetry(a, r) ==
  /\ at[a] = "voice retry"
  /\ IF Clean(r) /\ r.voice # "hard"
       THEN text' = [text EXCEPT ![a] = r] /\ Returns(a, "answered")
       ELSE Returns(a, "voice_rejected") /\ UNCHANGED text
  /\ UNCHANGED <<who, budget, reached, overlapped>>

Next ==
  \/ \E a \in Asks :
       \/ \E v \in Keys : Ask(a, v)
       \/ Retrieve(a) \/ Unreachable(a) \/ Record(a)
       \/ \E r \in Replies \cup {NoText} : FirstReply(a, r) \/ LeakRetry(a, r) \/ VoiceRetry(a, r)
  \/ \E v \in Keys : GapPasses(v)
  \/ Midnight

Spec == Init /\ [][Next]_vars

-----------------------------------------------------------------------------
(* Properties *)

TypeOK ==
  /\ at \in [Asks -> {"idle", "retrieving", "asking model", "leak retry", "voice retry",
                      "recording", "done"}]
  /\ who \in [Asks -> Keys \cup {None}]
  /\ text \in [Asks -> Replies \cup {NoText}]
  /\ outcome \in [Asks -> {None, "daily_cap", "cooldown", "visitor_cap", "no_corpus",
                           "private_topic", "ungrounded", "model_unavailable", "no_model",
                           "model_empty_reply", "ungrounded_model_declined", "leak_blocked",
                           "voice_rejected", "answered"}]
  /\ answers \in Nat /\ count \in [Keys -> Nat] /\ recent \subseteq Keys
  /\ days \in 0..MaxDays /\ reached \in [Asks -> Keys \cup {None}]
  /\ overlapped \in BOOLEAN

\* Whatever path of retries an answer took, what is shown passed the leak scan
\* and has no hard violation (answer(): "nothing that fails the scan is shipped").
ShownIsClean ==
  \A a \in Asks : outcome[a] = "answered" =>
    text[a] # NoText /\ text[a].leak = "none" /\ text[a].voice # "hard"

\* As long as visitors are answered one after another, no more of their requests
\* reach the model on one day than the budget pays for; the operator's requests
\* are beyond the limit, but count against it (si_budget.py, the daily budget).
BudgetHolds ==
  ~overlapped => Cardinality({a \in Asks : reached[a] \in Visitors}) <= DailyMax
=============================================================================
