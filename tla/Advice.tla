------------------------------- MODULE Advice -------------------------------
(***************************************************************************)
(* What is said about a backend change before it is made, and what a       *)
(* visitor is told about the code: both ask the curated index              *)
(* (agent/backend_rag_index.py, semantic_search).  The analysis goes       *)
(* through the MCP server and lets a model suggest files                   *)
(* (agent/backend_planning.py); the question of a visitor shows what was   *)
(* found with a verdict on its strength (agent/ask_codebase.py).           *)
(***************************************************************************)
EXTENDS Naturals, FiniteSets

CONSTANTS Chunks, Sources,
          Invented, \* a file that is not in the index
          TopK,     \* DEFAULT_TOP_K, RESULT_COUNT
          None

AdviceAssumption ==
  /\ IsFiniteSet(Chunks) /\ IsFiniteSet(Sources) /\ TopK \in Nat \ {0}
  /\ Invented \notin Sources /\ None \notin Chunks \cup Sources

VARIABLES
  source,        \* of each chunk
  score,         \* its likeness to the text that is asked about, once it is
  health,        \* of the index: there, of the embedding model in force, not empty
  text,          \* what classify_backend_routing sees in a requirement
  step,          \* "new", "routed", "retrieved", "analyzed", "done", "raised", "told"
  route, found, context, prompt, analysis, grounded,
  told           \* the answer to a visitor

adviceVars == <<source, score, health, text, step, route, found, context, prompt,
                analysis, grounded, told>>

\* Cosine similarities, and MIN_USABLE_TOP_SCORE = MIN_STRONG_SCORE among them.
Scores == 0..2
MIN_USABLE_TOP_SCORE == 1

Init ==
  /\ source \in [Chunks -> Sources] /\ score = None
  /\ health \in {"good", "empty", "missing", "other model"}
  /\ text \in [blocked : BOOLEAN, static : BOOLEAN, backend : BOOLEAN]
  /\ step = "new" /\ route = None /\ found = None /\ context = None /\ prompt = {}
  /\ analysis = None /\ grounded = None /\ told = None

-----------------------------------------------------------------------------
(* semantic_search *)

\* The TopK best, in any order among equals; what raises gives nothing.
Ranked(corpus, likeness) ==
  {R \in SUBSET corpus :
     /\ Cardinality(R) = IF Cardinality(corpus) < TopK THEN Cardinality(corpus) ELSE TopK
     /\ \A c \in R : \A d \in corpus \ R : likeness[c] >= likeness[d]}
Corpus == IF health = "good" THEN Chunks ELSE {}

Strong(c) == score[c] >= MIN_USABLE_TOP_SCORE
Usable(R) == {c \in R : Strong(c)}

-----------------------------------------------------------------------------
(* analyze_backend_requirement *)

Classify ==
  /\ step = "new"
  /\ route' = IF text.blocked THEN "REJECT_UNAUTHORIZED"
              ELSE IF text.backend /\ ~text.static THEN "USE_RAG_MCP"
              ELSE "DETERMINISTIC_ONLY"
  /\ step' = IF route' = "USE_RAG_MCP" THEN "routed" ELSE "done"
  /\ UNCHANGED <<source, score, health, text, found, context, prompt, analysis,
                 grounded, told>>

\* A missing index and another model's raise; the tool makes that its error, the
\* server the call's (is_error), and the context has no results then.
Retrieve ==
  /\ step = "routed" /\ step' = "retrieved"
  /\ score' \in [Chunks -> Scores] /\ found' \in Ranked(Corpus, score')
  /\ UNCHANGED <<source, health, text, route, context, prompt, analysis,
                 grounded, told>>

\* Mutant: the results are all that was found.
AllFound(R) == R
\* The results of a context are the chunks its text shows.
Results(R) == Usable(R)

\* A double of create_fn never reaches the usage records; a call without a key is not
\* made.  What a model claims to be affected may be any file, or nothing.
Analyze ==
  /\ step = "retrieved"
  /\ context' = IF Usable(found) = {}
                THEN [status |-> "INSUFFICIENT_RETRIEVED_CONTEXT", results |-> found]
                ELSE [status |-> "USED", results |-> Results(found)]
  /\ \/ /\ context'.status = "USED" /\ prompt' = Usable(found)
        /\ \/ \E claims \in SUBSET (Sources \cup {Invented}) :
                analysis' = [called |-> TRUE, expected |-> claims] /\ step' = "analyzed"
           \* Neither the API's exceptions nor an answer that is JSON but no object
           \* are caught; text that is no JSON claims nothing.
           \/ analysis' = None /\ step' = "raised"
     \/ /\ prompt' = {} /\ analysis' = [called |-> FALSE, expected |-> {}]
        /\ step' = "analyzed"
  /\ UNCHANGED <<source, score, health, text, route, found, grounded, told>>

SourcesOf(R) == {source[c] : c \in R}

\* check_groundedness, and only for an analysis with evidence.
Ground ==
  /\ step = "analyzed" /\ step' = "done"
  /\ grounded' = IF context.status # "USED" THEN None
                 ELSE [ok |-> analysis.expected \subseteq SourcesOf(context.results),
                       violations |-> analysis.expected \ SourcesOf(context.results)]
  /\ UNCHANGED <<source, score, health, text, route, found, context, prompt, analysis,
                 told>>

-----------------------------------------------------------------------------
(* ask: any text that is neither too short nor too long *)

Verdict(R, likeness) ==
  IF R = {} THEN "NO_EVIDENCE"
  ELSE IF \E c \in R : likeness[c] >= MIN_USABLE_TOP_SCORE THEN "STRONG_EVIDENCE" ELSE "WEAK_EVIDENCE"

Unavailable == health \in {"missing", "other model"}

Ask ==
  /\ step = "new" /\ step' = "told" /\ score' \in [Chunks -> Scores]
  /\ \/ told' = [status |-> "INVALID_QUERY", evidence |-> {}]
     \/ /\ Unavailable /\ told' = [status |-> "INDEX_UNAVAILABLE", evidence |-> {}]
     \/ /\ ~Unavailable
        /\ \E R \in Ranked(Corpus, score') :
             told' = [status |-> Verdict(R, score'), evidence |-> R]
  /\ UNCHANGED <<source, health, text, route, found, context, prompt, analysis, grounded>>

Next == Classify \/ Retrieve \/ Analyze \/ Ground \/ Ask

Spec == Init /\ [][Next]_adviceVars

-----------------------------------------------------------------------------
\* An analysis that is reported as grounded names files of evidence the model was
\* shown in this call, strong enough each; no model is called for a requirement the
\* policy rejects or without such evidence; and a visitor is told that the evidence is
\* weak only when nothing in the whole index is stronger
\* (backend_planning.build_rag_context, check_groundedness; ask_codebase.ask).
AdviceIsGrounded ==
  /\ grounded # None /\ grounded.ok =>
       \A f \in analysis.expected : \E c \in prompt : source[c] = f /\ Strong(c)
  /\ prompt # {} => ~text.blocked /\ text.backend /\ \E c \in Chunks : Strong(c)
  /\ told # None /\ told.status \in {"WEAK_EVIDENCE", "NO_EVIDENCE"} =>
       \A c \in Corpus : ~Strong(c)
=============================================================================
