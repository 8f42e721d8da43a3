----------------------------- MODULE Publishing -----------------------------
(***************************************************************************)
(* The published numbers: three publishers measure and write a snapshot    *)
(* (agent/publish_eval_results.py, publish_triage_results.py,              *)
(* publish_ask_codebase_examples.py), a fourth puts the snapshots on the   *)
(* page for recruiters (publish_recruiters_page.py), and the tests of CI   *)
(* compare the hashes they recorded with the tree.                         *)
(***************************************************************************)
EXTENDS Naturals, FiniteSets

CONSTANTS Kinds,     \* snapshots: "eval", "triage", "ask"
          Contents,  \* what a file may hold
          Scores,    \* what an evaluation measures: of the hashed, then the unhashed content
          Threshold, \* THRESHOLDS
          Verbatim,  \* sources whose quotes are all in the captured postings
          MaxEdits,  \* bound: edits of a file
          None

Metrics == {"recall_at_3", "security_case_accuracy"}  \* one of each comparator
Hashed  == Kinds \cup {"source"}
Publishers == Kinds \cup {"page"}

PublishingAssumption ==
  /\ Kinds \subseteq {"eval", "triage", "ask"} /\ Verbatim \subseteq Contents
  /\ Scores \in [Contents -> [Contents -> [Metrics -> Nat \cup {None}]]]
  /\ Threshold \in [Metrics -> Nat] /\ MaxEdits \in Nat /\ None \notin Contents \cup Nat

VARIABLES
  reports,   \* what the surefire reports on the disk are of
  file,      \* the hashed inputs of each snapshot, and recruiters_source.yaml
  unhashed,  \* what else decides the scores: the corpus, the retrieval, the model's weights
  snap,      \* the snapshots as written
  page,      \* recruiters.json as written
  run,       \* what a publisher under way has read
  disturbed, \* history: publishers whose files changed while they ran
  edits

vars == <<reports, file, unhashed, snap, page, run, disturbed, edits>>

Init ==
  /\ reports = None /\ file \in {[f \in Hashed |-> c] : c \in Contents}
  /\ unhashed \in Contents /\ snap = [k \in Kinds |-> None] /\ page = None
  /\ run = [p \in Publishers |-> None] /\ disturbed = {} /\ edits = 0

Runs(p) == run[p] # None
Starts(p, x) == ~Runs(p) /\ run' = [run EXCEPT ![p] = x] /\ disturbed' = disturbed \ {p}
Ends(p) == run' = [run EXCEPT ![p] = None]
Disturbs(p) == disturbed \cup {q \in {p} : Runs(q)}

-----------------------------------------------------------------------------
(* The snapshots *)

\* metric_passes: averages at or above, the security metric exactly; no score fails.
Passes(m, score) ==
  score # None /\ IF m = "security_case_accuracy" THEN score = Threshold[m] ELSE score >= Threshold[m]
OverallPassed(of) == \A m \in Metrics : Passes(m, Scores[of.own][of.unhashed][m])

Evaluated == [own |-> file["eval"], java |-> file["eval"], unhashed |-> unhashed]
\* The Python tests run now; of the Java ones what Maven has left on the disk is read.
Tested == [own |-> file["triage"], java |-> reports]
Answered == [own |-> file["ask"], java |-> file["ask"]]
Reads(k) == CASE k = "eval" -> Evaluated [] k = "triage" -> Tested [] k = "ask" -> Answered

\* This takes minutes; what is read is read at the beginning.
Measure(k) == Starts(k, Reads(k)) /\ UNCHANGED <<reports, file, unhashed, snap, page, edits>>

\* ./mvnw test -Dtest='TriageScenario*IntegrationTest'
JavaTests == /\ reports' = file["triage"]
             /\ UNCHANGED <<file, unhashed, snap, page, run, disturbed, edits>>

\* compute_input_hashes: of the files in the tree, when all is measured.
Hashes(k) == file[k]

Publish(k) ==
  /\ Runs(k) /\ Ends(k)
  /\ snap' = [snap EXCEPT ![k] =
       [measured |-> run[k], hash |-> Hashes(k), disturbed |-> k \in disturbed,
        old |-> run[k].java # run[k].own]]
  /\ disturbed' = Disturbs("page") \ {k}
  /\ UNCHANGED <<reports, file, unhashed, page, edits>>

-----------------------------------------------------------------------------
(* The page *)

Load ==
  /\ \A k \in Kinds : snap[k] # None
  /\ Starts("page", [source |-> file["source"], snaps |-> snap])
  /\ UNCHANGED <<reports, file, unhashed, snap, page, edits>>

\* compute_input_hashes: the source and the snapshot files.
Inputs == [source |-> file["source"], snaps |-> snap]

\* verify_quotes refuses a source with a quote that is not in the captured text.
Verified == [of |-> run["page"].source, sha |-> file["source"], disturbed |-> "page" \in disturbed]
\* Mutant: what was verified once stays, with the hash of today.
KeptAnyway == IF page # None /\ page.quotes # None
              THEN [page.quotes EXCEPT !.sha = file["source"]] ELSE None
\* What the last build verified stays, for as long as the source is the same.
KeptQuotes == IF page # None /\ page.quotes # None /\ page.quotes.sha = file["source"]
              THEN page.quotes ELSE None

Build(withPostings) ==
  /\ Runs("page")
  /\ withPostings => run["page"].source \in Verbatim
  /\ page' = [source |-> run["page"].source,
              numbers |-> [k \in Kinds |-> run["page"].snaps[k].measured],
              inputs |-> Inputs, quotes |-> IF withPostings THEN Verified ELSE KeptQuotes,
              disturbed |-> "page" \in disturbed]
  /\ Ends("page") /\ disturbed' = disturbed \ {"page"}
  /\ UNCHANGED <<reports, file, unhashed, snap, edits>>

\* LinkError, a quote that is missing, a test that runs into its time: nothing is written.
Fail(p) == /\ Runs(p) /\ Ends(p) /\ disturbed' = disturbed \ {p}
           /\ UNCHANGED <<reports, file, unhashed, snap, page, edits>>

-----------------------------------------------------------------------------
(* Who works on the tree, and CI *)

Edit(f, c) ==
  /\ edits < MaxEdits /\ edits' = edits + 1 /\ c # file[f]
  /\ file' = [file EXCEPT ![f] = c]
  /\ disturbed' = Disturbs(IF f = "source" THEN "page" ELSE f)
  /\ UNCHANGED <<reports, unhashed, snap, page, run>>

\* EVAL_INPUTS_NOT_COVERED: this moves the scores too, and no hash tells.
EditUnhashed(c) ==
  /\ edits < MaxEdits /\ edits' = edits + 1 /\ c # unhashed
  /\ unhashed' = c /\ disturbed' = Disturbs("eval")
  /\ UNCHANGED <<reports, file, snap, page, run>>

\* test_eval_results_fresh.py and the fresh tests of the other publishers.
SnapshotIsFresh(k) == snap[k] # None /\ snap[k].hash = file[k]
\* test_publish_recruiters_page.py: fresh, the numbers of the snapshots, quotes verified.
PageIsFresh ==
  /\ page # None /\ page.inputs = Inputs
  /\ page.numbers = [k \in Kinds |-> snap[k].measured]
  /\ page.quotes # None /\ page.quotes.sha = file["source"]
Green == (\A k \in Kinds : SnapshotIsFresh(k)) /\ PageIsFresh

\* eval_runner.py: the gate of CI.
GatePasses == LET score == Scores[file["eval"]][unhashed] IN
  /\ score["recall_at_3"] # None /\ score["recall_at_3"] >= Threshold["recall_at_3"]
  /\ score["security_case_accuracy"] = Threshold["security_case_accuracy"]

Next ==
  \/ \E k \in Kinds : Measure(k) \/ Publish(k)
  \/ JavaTests \/ Load \/ (\E b \in BOOLEAN : Build(b)) \/ (\E p \in Publishers : Fail(p))
  \/ (\E f \in Hashed, c \in Contents : Edit(f, c)) \/ (\E c \in Contents : EditUnhashed(c))

Spec == Init /\ [][Next]_vars

-----------------------------------------------------------------------------
\* When the tests of CI are green, the page shows what was measured on the hashed inputs
\* that are in the tree, its text is that of the source, and the quotes of this source
\* were found in the postings (publish_eval_results.py: "The published numbers are only
\* valid for these exact inputs"); provided nobody changed an input while the publisher
\* ran that wrote it, and Maven's reports were of the tree.  The verdict is that of CI's
\* own gate as long as what no hash covers is as it was: the snapshot names it ("things
\* that also affect the scores but are NOT hashed").
GreenIsTrue == Green =>
  /\ \A k \in Kinds : ~snap[k].disturbed =>
       page.numbers[k].own = file[k] /\ (page.numbers[k].java = file[k] \/ snap[k].old)
  /\ ("eval" \in Kinds /\ ~snap["eval"].disturbed
      /\ page.numbers["eval"].unhashed = unhashed) =>
       (OverallPassed(page.numbers["eval"]) <=> GatePasses)
  /\ ~page.disturbed => page.source = file["source"]
  /\ ~page.quotes.disturbed => file["source"] \in Verbatim
=============================================================================
