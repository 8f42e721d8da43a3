----------------------------- MODULE Grounding -----------------------------
(***************************************************************************)
(* What the Standing Interview puts before its model                       *)
(* (agent/standing_interview.py, answer up to the call): which chunks of   *)
(* the books a question retrieves, whether they ground an answer, and what *)
(* the one line about employers says.  Interview models what is done with  *)
(* the replies.                                                            *)
(***************************************************************************)
EXTENDS Naturals, SequencesExt

CONSTANTS TopK,      \* TOP_K
          MaxChunks, \* bound: chunks of the corpus
          MaxEmployers, \* bound: how many of EMPLOYER_BOOKS, most recent first
          None

EMPLOYERS == SubSeq(<<"NRG Energy", "BCBSA", "Marsh">>, 1, MaxEmployers)
Names == {EMPLOYERS[i] : i \in 1..Len(EMPLOYERS)}
Platform == "platform"                  \* the books about the AI platform

Outcomes == {"asked", "ungrounded", "empty", "no_corpus", "private_topic"}

GroundingAssumption ==
  /\ TopK \in Nat \ {0} /\ MaxChunks \in Nat /\ MaxEmployers \in 1..3
  /\ None \notin Names \cup Outcomes

VARIABLES question, ranked, hits, line, outcome

groundingVars == <<question, ranked, hits, line, outcome>>

\* _BUCKET_RANK, best first: what the matrix records of a topic for an employer; None
\* without a row.
Buckets == {"HANDS_ON", "USED", "SYSTEM", "NOT_USED"}
NoRows == [e \in Names |-> None]

\* A question: the scope route() gives it, the employers it names, whether it asks
\* across the career or about the front end, and the rows of the matrix for the
\* families it touches.  attribution_for is not asked for the platform.
Questions ==
  [scope : {"ai"}, named : {{}}, wide : {FALSE}, frontend : BOOLEAN, rows : {NoRows}]
  \cup [scope : {"career", "both"}, named : SUBSET Names \ {{}}, wide : {FALSE},
        frontend : BOOLEAN, rows : [Names -> Buckets \cup {None}]]
  \cup [scope : {"career", "both"}, named : {{}}, wide : BOOLEAN, frontend : BOOLEAN,
        rows : [Names -> Buckets \cup {None}]]

\* The chunks in the order of their likeness to the rewritten question; `near` when it
\* reaches GROUNDING_THRESHOLD.
Chunks == [by : Names \cup {Platform}, near : BOOLEAN]
Rankings ==
  UNION {{s \in [1..n -> Chunks] : \A i \in 1..n, j \in 1..n :
            i < j /\ s[j].near => s[i].near} : n \in 0..MaxChunks}

Init == question = None /\ ranked = <<>> /\ hits = <<>> /\ line = None /\ outcome = None

-----------------------------------------------------------------------------
(* retrieve: over positions of `ranked`, so that equal chunks stay apart *)

First(places, n) == SubSeq(places, 1, IF Len(places) < n THEN Len(places) ELSE n)
Filter(places, S) ==
  LET kept[n \in 0..Len(places)] ==
        IF n = 0 THEN <<>>
        ELSE IF places[n] \in S THEN Append(kept[n - 1], places[n]) ELSE kept[n - 1]
  IN kept[Len(places)]

\* _allowed_books.
Allowed(chunk, scope) ==
  \/ scope = "both"
  \/ scope = "career" /\ chunk.by \in Names
  \/ scope = "ai" /\ chunk.by = Platform

InScope(q, r) == Filter([i \in DOMAIN r |-> i], {i \in DOMAIN r : Allowed(r[i], q.scope)})

\* The employers of a bucket, most recent first.
In(rows, bucket) == Filter(EMPLOYERS, {e \in Names : rows[e] = bucket})
Policy(q) == q.rows # NoRows
Homes(q) == ToSet(IF In(q.rows, "HANDS_ON") # <<>> THEN In(q.rows, "HANDS_ON")
                  ELSE In(q.rows, "USED"))

\* Mutant: the code before Sprint 11, plain cosine order.
PlainOrder(places, r) == First(places, TopK)

Theirs(r, employers) == {i \in DOMAIN r : r[i].by \in employers}
NearIn(r) == {i \in DOMAIN r : r[i].near}

\* _balance_by_employer: some slots for each employer whose best chunk is near, the
\* rest in order.
Share == IF TopK \div Len(EMPLOYERS) = 0 THEN 1 ELSE TopK \div Len(EMPLOYERS)
ShareOf(e, places, r) ==
  LET group == Filter(places, Theirs(r, {e}))
  IN IF group = <<>> \/ ~r[group[1]].near THEN <<>> ELSE First(group, Share)
Reserved(places, r) ==
  LET shares[n \in 0..Len(EMPLOYERS)] ==
        IF n = 0 THEN <<>> ELSE shares[n - 1] \o ShareOf(EMPLOYERS[n], places, r)
  IN shares[Len(EMPLOYERS)]
Balanced(places, r) ==
  LET reserved == Reserved(places, r)
  IN First(reserved \o Filter(places, DOMAIN r \ ToSet(reserved)), TopK)

Picked(q, r) ==
  LET places == InScope(q, r)
      named  == Theirs(r, q.named)
  IN IF Policy(q) /\ Homes(q) # {} /\ q.named = {} /\ ~q.wide
       THEN First(Filter(places, Theirs(r, Homes(q))), TopK)
     ELSE IF q.named # {}
       THEN First(Filter(places, named) \o Filter(places, DOMAIN r \ named), TopK)
     ELSE IF q.scope = "career" THEN Balanced(places, r)
     ELSE First(places, TopK)

-----------------------------------------------------------------------------
(* attribution_line *)

Line(q) ==
  LET leads == In(q.rows, "HANDS_ON") \o In(q.rows, "USED") \o In(q.rows, "SYSTEM")
      absent == ToSet(In(q.rows, "NOT_USED"))
  IN IF ~Policy(q) THEN None
     ELSE [says   |-> ToSet(leads),
           lead   |-> IF q.named # {} \/ q.wide \/ leads = <<>> THEN None ELSE leads[1],
           absent |-> absent,
           deny   |-> q.named \cap absent # {}]

-----------------------------------------------------------------------------
(* answer, up to the model *)

Near(places, r) == Filter(places, NearIn(r))

Ask(q, r) ==
  LET picked == Picked(q, r) IN
    /\ question' = q /\ ranked' = r
    /\ IF q.frontend THEN hits' = Near(picked, r) ELSE hits' = picked
    /\ IF ~q.frontend /\ Near(picked, r) = <<>>
         THEN outcome' = "ungrounded" /\ line' = None
         ELSE outcome' = "asked" /\ line' = Line(q)

\* retrieve gives nothing when the books were embedded by another model.
Incomparable(q) ==
  /\ question' = q /\ hits' = <<>> /\ UNCHANGED ranked
  /\ IF q.frontend THEN outcome' = "asked" /\ line' = Line(q)
                   ELSE outcome' = "ungrounded" /\ line' = None

\* An empty question, no usable corpus (load_corpus) or a private topic.
TurnAway ==
  /\ outcome' \in {"empty", "no_corpus", "private_topic"}
  /\ UNCHANGED <<question, ranked, hits, line>>

Next ==
  /\ outcome = None
  /\ \/ \E q \in Questions, r \in Rankings : Ask(q, r)
     \/ \E q \in Questions : Incomparable(q)
     \/ TurnAway

Spec == Init /\ [][Next]_groundingVars

-----------------------------------------------------------------------------
By(i) == ranked[i].by
Shown == ToSet(hits)
Generic == question.named = {} /\ ~question.wide

\* What the model is shown fits the question and the line about employers, whichever
\* way the slots were filled.  No excerpt comes from books outside the scope; an answer
\* without the front-end brief has an excerpt that is near; a topic with a home is shown
\* from its homes alone, and the employer to lead with is one of them and never one
\* that is recorded not to have used it; a named employer's chunks come before all
\* others; and a question about the career in general with no home shows every
\* employer that has something near (standing_interview.retrieve,
\* _balance_by_employer, attribution_line, answer).
ExcerptsAreFair ==
  outcome = "asked" =>
    LET all == ToSet(InScope(question, ranked))
        near(e) == \E i \in all : By(i) = e /\ ranked[i].near
        topic == Policy(question) /\ Homes(question) # {} /\ Generic
    IN /\ Shown \subseteq all /\ Cardinality(Shown) = Len(hits) /\ Len(hits) <= TopK
       /\ ~question.frontend => \E i \in Shown : ranked[i].near
       /\ topic => /\ \A i \in Shown : By(i) \in Homes(question)
                   /\ line.lead \in Homes(question)
       /\ line # None => line.lead \notin line.absent /\ line.says \cap line.absent = {}
       /\ question.named # {} /\ ~question.frontend =>
            \A i \in Shown, j \in all \ Shown :
              By(j) \in question.named => By(i) \in question.named
       /\ ~topic /\ question.named = {} /\ question.scope = "career"
            /\ TopK >= Len(EMPLOYERS) =>
            \A e \in Names : near(e) => \E i \in Shown : By(i) = e
=============================================================================
