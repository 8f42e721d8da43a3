---------------------------- MODULE DeliveryGate ----------------------------
(***************************************************************************)
(* The selective regression gate: a change is classified by its paths      *)
(* (agent/change_risk.py), the tests it can affect are selected            *)
(* (agent/test_impact_analysis.py), run one command after another, and the *)
(* outcome becomes a verdict with evidence (agent/verify_change.py).       *)
(***************************************************************************)
EXTENDS Integers, Sequences, FiniteSets

CONSTANTS Files,      \* the kinds of file a change may touch
          MaxFiles,   \* bound: kinds in one change
          Skippable   \* the Java tests that skip themselves without Docker

\* The rules of change_risk, a kind of file each, in their order (the first that
\* matches counts); Java files are told apart by whether a test is mapped to them.
Risks == <<"LOW", "MEDIUM", "HIGH", "CRITICAL">>
Radii == <<"LOCAL", "MODULE", "CROSS_MODULE", "SYSTEM">>
RULES == [
  authorization |-> <<4, 4>>,  pipeline  |-> <<3, 3>>,  security  |-> <<3, 3>>,
  migration     |-> <<3, 4>>,  build     |-> <<3, 4>>,  settings  |-> <<3, 3>>,
  errors        |-> <<2, 3>>,  messaging |-> <<2, 2>>,  cache     |-> <<2, 2>>,
  mapped        |-> <<2, 2>>,  unmapped  |-> <<2, 2>>,  javatest  |-> <<1, 1>>,
  static        |-> <<1, 1>>,  page      |-> <<1, 1>>,  python    |-> <<2, 2>>,
  docs          |-> <<1, 1>>]
Kinds == DOMAIN RULES \cup {"unrecognized", "gitattributes"}

GateAssumption == Files \subseteq Kinds /\ MaxFiles \in Nat

JavaMain == {"security", "errors", "messaging", "cache", "mapped", "unmapped"}
UnderApp == JavaMain \cup {"migration", "settings", "javatest", "static"}

\* JAVA_FILE_TO_TESTS and MANDATORY_TRIGGERS: the tests a file calls for.
AllJava == {"smoke", "unit", "security", "flyway", "events", "cache"}
Calls == [f \in Kinds |-> CASE f = "security"  -> {"security"}
                            [] f = "migration" -> {"flyway"}
                            [] f = "messaging" -> {"events"}
                            [] f = "cache"     -> {"cache"}
                            [] f = "mapped"    -> {"unit"}
                            [] OTHER           -> {}]
\* FRONTEND_PATH_TO_SPECS and FAIL_CLOSED_PATTERNS.
WithSpecs == {"static", "page"}
FailClosedPatterns == {"authorization", "build", "gitattributes"}

VARIABLES
  change,    \* the paths of git diff
  todo,      \* the commands still to be run
  executed,  \* how many have been run
  failed,    \* overall_rc
  passed,    \* the Java tests that ran and passed
  skipped,   \* the Java tests that were reported as skipped
  verdict    \* None until execute() returns

vars == <<change, todo, executed, failed, passed, skipped, verdict>>

-----------------------------------------------------------------------------
(* classify_change *)

Highest(c, what) == LET level == {RULES[f][what] : f \in c}
                    IN CHOOSE n \in level : \A m \in level : m <= n
Unrecognized(c) == c \ DOMAIN RULES
Risk(c)   == IF Unrecognized(c) # {} THEN "UNKNOWN" ELSE Risks[Highest(c, 1)]
Radius(c) == IF Unrecognized(c) # {} THEN "UNKNOWN" ELSE Radii[Highest(c, 2)]

\* Mutant: a wide blast radius alone is not a high risk.
RiskOnly(c) == Risk(c) \in {"HIGH", "CRITICAL"}
IsHighRisk(c) == Risk(c) \in {"HIGH", "CRITICAL"} \/ Radius(c) \in {"CROSS_MODULE", "SYSTEM"}

-----------------------------------------------------------------------------
(* analyze *)

FailClosed(c) == c \cap FailClosedPatterns # {} \/ Unrecognized(c) # {}

\* selection.java_tests: the mapped tests, or all where no subset can stand in.
JavaTests(c) ==
  LET tests == UNION {Calls[f] : f \in c}
      wide  == Radius(c) \in {"CROSS_MODULE", "SYSTEM"}
  IN IF \/ c \cap JavaMain # {} /\ (wide \/ tests = {})
        \/ "javatest" \in c /\ tests = {}
       THEN AllJava ELSE tests

Java(tests) == [java |-> TRUE, tests |-> tests]
Other == [java |-> FALSE, tests |-> {}]

If(condition, command) == IF condition THEN <<command>> ELSE <<>>

\* The commands of execute(), in order: Python and Node regressions only when the
\* gate fails closed, since nothing selects them otherwise.
Plan(c) ==
  IF FailClosed(c) THEN <<Java(AllJava), Other, Other, Other, Other>>
  ELSE If(c \cap UnderApp # {}, Java({"smoke"}))
       \o If(JavaTests(c) \ {"smoke"} # {}, Java(JavaTests(c)))
       \o If(c \cap WithSpecs # {}, Other)

\* main: an empty diff ends at once, with nothing to verify.
Init ==
  /\ change \in {c \in SUBSET Files : c # {} /\ Cardinality(c) <= MaxFiles}
  /\ todo = Plan(change) /\ executed = 0 /\ failed = FALSE
  /\ passed = {} /\ skipped = {} /\ verdict = "none"

-----------------------------------------------------------------------------
(* execute *)

\* A Java command: Maven fails if a test does and succeeds if tests are skipped;
\* the reports are removed before, so those that are read are its own.
MvnwTest(tests) ==
  \E skip \in SUBSET (tests \cap Skippable), rc \in BOOLEAN :
    /\ skipped' = skipped \cup skip
    /\ passed' = IF rc THEN passed ELSE passed \cup (tests \ skip)
    /\ failed' = (failed \/ rc)

RunCommand ==
  /\ todo # <<>> /\ todo' = Tail(todo) /\ executed' = executed + 1
  /\ \/ Head(todo).java /\ MvnwTest(Head(todo).tests)
     \/ /\ ~Head(todo).java /\ UNCHANGED <<passed, skipped>>
        /\ \E rc \in BOOLEAN : failed' = (failed \/ rc)
  /\ UNCHANGED <<change, verdict>>

Conclude ==
  /\ todo = <<>> /\ verdict = "none"
  /\ verdict' = IF IsHighRisk(change) /\ executed = 0 THEN "UNVERIFIED"
                ELSE IF IsHighRisk(change) /\ skipped # {} /\ ~failed THEN "UNVERIFIED"
                ELSE IF ~failed THEN "PASSED" ELSE "FAILED"
  /\ UNCHANGED <<change, todo, executed, failed, passed, skipped>>

Next == RunCommand \/ Conclude
Spec == Init /\ [][Next]_vars

-----------------------------------------------------------------------------
(* Properties *)

TypeOK ==
  /\ change \subseteq Files /\ executed \in 0..5 /\ failed \in BOOLEAN
  /\ todo \in Seq([java : BOOLEAN, tests : SUBSET AllJava])
  /\ passed \subseteq AllJava /\ skipped \subseteq AllJava
  /\ verdict \in {"none", "PASSED", "FAILED", "UNVERIFIED"}

\* Of a change with a file whose rule says HIGH, CRITICAL, CROSS_MODULE or SYSTEM.
High(f) == f \in DOMAIN RULES /\ (RULES[f][1] >= 3 \/ RULES[f][2] >= 3)

\* Whatever files come together in a change that is recognized, PASSED means that
\* every test one of them calls for has been run, all Java tests if a shared Java
\* file is among them; with a file of high risk that none was skipped and
\* something was run (verify_change.py, "SKIPPED is not PASSED", "nothing ran is
\* not nothing was wrong").
PassedIsVerified ==
  verdict = "PASSED" /\ Unrecognized(change) = {} =>
    /\ \A f \in change : Calls[f] \subseteq passed \cup skipped
    /\ "errors" \in change => passed \cup skipped = AllJava
    /\ (\E f \in change : High(f)) => skipped = {} /\ executed > 0

-----------------------------------------------------------------------------
(* What the code says and does not do *)

\* verify_change.py: "A HIGH/CRITICAL-risk or CROSS_MODULE/SYSTEM-blast-radius
\* change whose mandatory suite had any real skipped tests is UNVERIFIED, never
\* PASSED".
SkippedIsNotPassed ==
  verdict = "PASSED" /\ (\E f \in change : High(f)) => skipped = {}
=============================================================================
