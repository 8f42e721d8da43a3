----------------------------- MODULE Catalogue -----------------------------
(***************************************************************************)
(* The deterministic path of a public requirement: what may be asked       *)
(* (agent/web_server.py, agent/risk_policy.py), how a request is read and  *)
(* applied to one field of one file, and how the result is read back.      *)
(* agent/demo_catalogue.py does it for the page of the Customer App,       *)
(* agent/backend_catalogue.py in the same way for a Java constant.         *)
(*                                                                         *)
(* Text is a sequence of characters; a character stands for its kind, "amp;" *)
(* and "quot;" for the rest of an HTML entity after its "&".               *)
(***************************************************************************)
EXTENDS Naturals, Sequences, FiniteSets, SequencesExt

CONSTANTS Fields,    \* the operations of the catalogue, a line of the file each
          MaxLength, \* MAX_VALUE_LEN
          Words,     \* what a request may put in for the new text
          None

\* "separator": NEL, U+2028 and U+2029, which splitlines() and strip() take for
\* a line break and for white space.
Characters == {"letter", "space", "control", "separator", "&", "amp;", "quot;", "<", "quote"}

CatalogueAssumption ==
  /\ MaxLength \in Nat \ {0} /\ Words \subseteq Seq(Characters)
  /\ IsFiniteSet(Fields) /\ None \notin Fields /\ None \notin {"auto", "committed"}

VARIABLES
  surface,  \* "page" or "java"
  request,  \* the requirement
  before,   \* the text of every field in the file, as it is stored
  anchors,  \* how often the anchor of the named field matches
  decision, \* None, then of the assessment, then of the edit
  after     \* the file that is committed

vars == <<surface, request, before, anchors, decision, after>>

\* A requirement: the fields it names (a word may occur in the new text), a text
\* and how it is given, and who sent it; one that is risky has a word of
\* BLOCK_KEYWORDS in it, or its length is not that of a small change.
Requests == [named : SUBSET Fields, text : Words, form : {"quoted", "to", "neither"},
             from : {"owner", "visitor", "risky"}]
Stored == {<<"letter">>, <<"letter", "&", "amp;">>}

Init ==
  /\ surface = "page" /\ request = None /\ before = [f \in Fields |-> <<"letter">>]
  /\ anchors = 1 /\ decision = None /\ after = None

\* A requirement comes, and the file is as it is.
Ask ==
  /\ request = None
  /\ request' \in Requests /\ surface' \in {"page", "java"}
  /\ \E text \in Stored : before' = [f \in Fields |-> text]
  /\ anchors' \in 0..2
  /\ UNCHANGED <<decision, after>>

-----------------------------------------------------------------------------
(* Reading a requirement *)

White == {"space", "separator"}
Inner(text) == {i \in DOMAIN text : text[i] \notin White}
Strip(text) == IF Inner(text) = {} THEN <<>>
               ELSE SubSeq(text, Min(Inner(text)), Max(Inner(text)))

\* _extract_new_value: the last quoted text of at most MaxLength, else the rest of
\* the line after "to".
IsQuoted == /\ request.form = "quoted" /\ Len(request.text) \in 1..MaxLength
            /\ "quote" \notin ToSet(request.text)
NewValue == IF IsQuoted \/ request.form = "to" THEN Strip(request.text) ELSE None

Forbidden(s) == IF s = "page" THEN {"control", "<"} ELSE {"control", "quote"}

\* validate_value, normalize_requirement.
Valid(v) == v # <<>> /\ Len(v) <= MaxLength /\ ToSet(v) \cap Forbidden(surface) = {}
Normalized == Cardinality(request.named) = 1 /\ NewValue # None /\ Valid(NewValue)
Field == CHOOSE f \in Fields : f \in request.named

\* _assess_public_demo_requirement, _require_person_approval; the Java constant has a
\* catalogue and no such gate, its callers are programs of the owner.
Gated == surface = "page"
Assess ==
  /\ request # None /\ decision = None
  /\ decision' = IF ~Normalized \/ (Gated /\ request.from = "risky") THEN "blocked"
                 ELSE IF Gated /\ request.from # "owner" THEN "approval_required" ELSE "auto"
  /\ UNCHANGED <<surface, request, before, anchors, after>>

-----------------------------------------------------------------------------
(* The edit *)

Entity == [c \in {"&", "quote"} |-> IF c = "&" THEN "amp;" ELSE "quot;"]

\* html.escape.  Mutant: the text is put in as it is.
AsItIs(v) == v
Coded(c) == IF c \in DOMAIN Entity THEN <<"&", Entity[c]>> ELSE <<c>>
Escape(v) ==
  LET from[i \in 1..(Len(v) + 1)] ==
        IF i > Len(v) THEN <<>> ELSE Coded(v[i]) \o from[i + 1]
  IN from[1]

\* html.unescape, from the left.
Starts(t, i) == t[i] = "&" /\ i < Len(t) /\ t[i + 1] \in {"amp;", "quot;"}
Unescape(t) ==
  LET from[i \in 1..(Len(t) + 2)] ==
        IF i > Len(t) THEN <<>>
        ELSE IF Starts(t, i)
          THEN <<IF t[i + 1] = "amp;" THEN "&" ELSE "quote">> \o from[i + 2]
        ELSE <<t[i]>> \o from[i + 1]
  IN from[1]

\* extract_current_value, of the first match of the anchor.
Shows(file, f) == IF surface = "page" THEN Unescape(file[f]) ELSE file[f]

\* apply_operation
Applied == [before EXCEPT ![Field] = IF surface = "page" THEN Escape(NewValue) ELSE NewValue]

\* compute_single_line_diff: the same number of lines, and one that differs.
Lines(text) == Cardinality({i \in DOMAIN text : text[i] = "separator"})
IsSingleLine(old, new) ==
  /\ \A f \in Fields : Lines(old[f]) = Lines(new[f])
  /\ Cardinality({f \in Fields : old[f] # new[f]}) = 1

\* The pipeline: nothing is to be done, the edit is refused, or committed.
Edit ==
  /\ decision = "auto"
  /\ IF anchors > 0 /\ Shows(before, Field) = NewValue
       THEN decision' = "no change" /\ UNCHANGED after
     ELSE IF anchors # 1 \/ ~IsSingleLine(before, Applied)
       THEN decision' = "refused" /\ UNCHANGED after
     ELSE decision' = "committed" /\ after' = Applied
  /\ UNCHANGED <<surface, request, before, anchors>>

Next == Ask \/ Assess \/ Edit
Spec == Init /\ [][Next]_vars

-----------------------------------------------------------------------------
(* Properties *)

\* An edit that is committed was asked for in a way that names this field alone, on
\* the page by the owner; read back the way production is read, the field shows exactly the
\* new text, every other field what it showed before, and nothing that came with
\* the text is a tag of the page or ends the string constant of the program
\* (the docstrings of both catalogues).
Committed == decision = "committed"
EditIsExact ==
  Committed =>
    /\ surface = "page" => request.from = "owner"
    /\ request.named = {Field}
    /\ Shows(after, Field) = NewValue
    /\ \A f \in Fields \ {Field} : after[f] = before[f]
    /\ surface = "page" => "<" \notin ToSet(after[Field])
    /\ surface = "java" => "quote" \notin ToSet(after[Field])
=============================================================================
