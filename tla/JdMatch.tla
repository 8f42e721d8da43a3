------------------------------ MODULE JdMatch ------------------------------
(***************************************************************************)
(* The match of a job description against the capability registry          *)
(* (agent/jd_match.py): a budget, two calls of the model with a shortlist  *)
(* between them, and code that decides what is shown of the model's        *)
(* assessments.                                                            *)
(***************************************************************************)
EXTENDS Integers, FiniteSets, Sequences, SequencesExt, FiniteSetsExt

CONSTANTS Matches,        \* requests
          Requirements,   \* what a description asks for
          Capabilities, Level, \* the registry, and the recorded level of each
          ShortlistSize,  \* SHORTLIST_K
          DailyCap,
          MaxDays,        \* bound: midnights
          None

Levels == <<"IMPLEMENTED", "TESTED", "RUNTIME_VERIFIED", "PRODUCTION_VERIFIED">>
Statuses == <<"NOT_DEMONSTRATED", "PARTIAL", "DEMONSTRATED">>

JdAssumption ==
  /\ Level \in [Capabilities -> 1..Len(Levels)] /\ DailyCap \in Nat /\ MaxDays \in Nat
  /\ ShortlistSize \in Nat /\ None # "MATCHED"

VARIABLES
  at,      \* where each request is
  reqs,    \* the requirements the model extracted
  short,   \* the shortlist of each of them
  rows,    \* what is shown
  status,  \* the status of the answer
  count,   \* _DAILY, of the day
  recent,  \* less than COOLDOWN_SECONDS since the last run began
  days,    \* midnights so far
  calls    \* history: calls of the model

budget == <<count, recent, days>>
vars == <<at, reqs, short, rows, status, budget, calls>>

Init ==
  /\ at = [m \in Matches |-> "idle"] /\ reqs = [m \in Matches |-> {}]
  /\ short = [m \in Matches |-> <<>>] /\ rows = [m \in Matches |-> <<>>]
  /\ status = [m \in Matches |-> None]
  /\ count = 0 /\ recent = FALSE /\ days = 0 /\ calls = 0

Go(m, from, to) == at[m] = from /\ at' = [at EXCEPT ![m] = to]
Refuse(m, from, s) == Go(m, from, "done") /\ status' = [status EXCEPT ![m] = s]

-----------------------------------------------------------------------------
(* validate_input and _budget_check *)

Counted == count + 1

\* The text, the kill switch, then the budget under its lock: the cooldown is looked
\* at before the cap, and only an admitted run is counted.
Admit(m) ==
  \/ /\ \E s \in {"INVALID_INPUT", "OFF_TOPIC", "TEMPORARILY_UNAVAILABLE"} : Refuse(m, "idle", s)
     /\ UNCHANGED <<count, recent, days, reqs, short, rows, calls>>
  \/ /\ recent /\ Refuse(m, "idle", "COOLDOWN")
     /\ UNCHANGED <<count, recent, days, reqs, short, rows, calls>>
  \/ /\ ~recent /\ count >= DailyCap /\ Refuse(m, "idle", "DAILY_CAP")
     /\ UNCHANGED <<count, recent, days, reqs, short, rows, calls>>
  \/ /\ ~recent /\ count < DailyCap /\ Go(m, "idle", "extract")
     /\ count' = Counted /\ recent' = TRUE
     /\ UNCHANGED <<status, days, reqs, short, rows, calls>>

-----------------------------------------------------------------------------
(* match *)

\* extract_requirements: a denied call, an answer that is no JSON array, nothing that
\* can be used in it, or some requirements.
Extract(m) ==
  /\ \/ Refuse(m, "extract", "TEMPORARILY_UNAVAILABLE") /\ UNCHANGED reqs /\ calls' \in {calls, calls + 1}
     \/ Refuse(m, "extract", "NO_REQUIREMENTS") /\ UNCHANGED reqs /\ calls' = calls + 1
     \/ /\ Go(m, "extract", "shortlist") /\ UNCHANGED status /\ calls' = calls + 1
        /\ \E rs \in (SUBSET Requirements) \ {{}} : reqs' = [reqs EXCEPT ![m] = rs]
  /\ UNCHANGED <<budget, short, rows>>

\* shortlist: the nearest capabilities of each requirement; then the clock is looked at.
Shortlist(m) ==
  /\ \E s \in [reqs[m] -> kSubset(ShortlistSize, Capabilities)] : short' = [short EXCEPT ![m] = s]
  /\ \/ Refuse(m, "shortlist", "TIMEOUT")
     \/ Go(m, "shortlist", "classify") /\ UNCHANGED status
  /\ UNCHANGED <<budget, reqs, rows, calls>>

\* What the model may say of a requirement, of another, or of one that is not there.
Assessments == [of : Requirements, status : 1..3, ids : SUBSET Capabilities]
NoAssessment == [status |-> 1, ids |-> {}]

\* Mutant: the level counts of whatever the model named.
AnyNamed(m, r, a) == a.ids
\* validate_assessments.  Only capabilities of the requirement's own shortlist count ...
Valid(m, r, a) == a.ids \cap short[m][r]

MostFor(level) == IF level = 1 THEN 2 ELSE 3  \* _LEVEL_MAX_STATUS
Best(ids) == Max({Level[c] : c \in ids})

\* ... no status without one, and none above the level recorded for the best of them.
Row(m, r, a) ==
  LET ids    == Valid(m, r, a)
      earned == IF ids = {} THEN 1
                ELSE IF a.status > MostFor(Best(ids)) THEN MostFor(Best(ids)) ELSE a.status
  IN [status |-> earned, ids |-> IF earned = 1 THEN {} ELSE ids]

\* The first assessment of a requirement counts.
FirstOf(said, r) == LET its == SelectSeq(said, LAMBDA a : a.of = r)
                    IN IF its = <<>> THEN NoAssessment ELSE Head(its)

Classify(m) ==
  \/ /\ Refuse(m, "classify", "TEMPORARILY_UNAVAILABLE") /\ calls' \in {calls, calls + 1}
     /\ UNCHANGED <<budget, reqs, short, rows>>
  \/ /\ Refuse(m, "classify", "MATCHED") /\ calls' = calls + 1
     /\ \E shown \in {[r \in reqs[m] |-> Row(m, r, FirstOf(said, r))] :
                      said \in SeqOf(Assessments, 2)} :
          rows' = [rows EXCEPT ![m] = shown]
     /\ UNCHANGED <<budget, reqs, short>>

CooldownPasses == /\ recent /\ recent' = FALSE
                  /\ UNCHANGED <<at, reqs, short, rows, status, count, days, calls>>

\* The first run of a new day starts from nothing.
Midnight == /\ days < MaxDays /\ days' = days + 1 /\ count' = 0
            /\ UNCHANGED <<at, reqs, short, rows, status, recent, calls>>

Next == \/ \E m \in Matches : Admit(m) \/ Extract(m) \/ Shortlist(m) \/ Classify(m)
        \/ CooldownPasses \/ Midnight
Spec == Init /\ [][Next]_vars

-----------------------------------------------------------------------------
(* Properties *)

\* Whatever the model answers: a row is shown for each requirement, one
\* above NOT_DEMONSTRATED rests on a capability of its own shortlist, and one that is
\* DEMONSTRATED on one whose recorded level is more than an implementation ("The AI only
\* proposes; code decides what is shown."); and however requests come, the model is
\* called no more than twice for every match the daily cap allows.
RowsAreEarned ==
  /\ \A m \in Matches : status[m] = "MATCHED" =>
       /\ DOMAIN rows[m] = reqs[m]
       /\ \A r \in reqs[m] : LET row == rows[m][r] IN
            /\ row.ids \subseteq short[m][r]
            /\ row.status > 1 => row.ids # {}
            /\ row.status = 3 => \E c \in row.ids : Level[c] > 1
  /\ calls <= 2 * DailyCap * (days + 1)
=============================================================================
