--------------------------- MODULE UsageAccounts ---------------------------
(***************************************************************************)
(* The accounts of AI usage: what the hook of a development session reads  *)
(* from the session's transcript (agent/claude_code_hook.py), what a       *)
(* workbench run reports, what the importers add from older files, and     *)
(* the sums of the usage page (agent/event_ledger.py,                      *)
(* agent/session_history.py).  One assistant turn is one unit of tokens.   *)
(***************************************************************************)
EXTENDS Naturals, Sequences, FiniteSets, FiniteSetsExt

CONSTANTS Sessions, Subagents, Runs, None,
          Priced, Unpriced, \* models with and without an entry in pricing_config
          Label,            \* session_label of an import
          MaxLines,         \* bound: lines of a transcript
          MaxEnds,          \* bound: ends of a session
          MaxWork           \* bound: turns of a subagent

KnownModels == Priced \cup Unpriced

\* What a run may have used.
Used == [tokens : {0, 1}, model : KnownModels \cup {None}]

UsageAssumption ==
  /\ Priced \cap Unpriced = {} /\ None \notin KnownModels \cup Subagents \cup Used
  /\ Label \notin Sessions \cup Runs /\ Sessions \cap Runs = {}
  /\ {"prompt", "result"} \cap KnownModels = {}
  /\ {MaxLines, MaxEnds, MaxWork} \subseteq Nat

VARIABLES
  open,       \* whether a session is running
  transcript, \* the lines of its JSONL file: "prompt", "result", or a turn's model
  work,       \* the turns in the transcript of each of its subagents
  ends,       \* how often SessionEnd has fired for it
  read,       \* lines in the transcript when it fired last
  past,       \* the runs in web_run_history.jsonl, with what they used
  imported,   \* lines of transcripts an import has read
  ledger,     \* delivery_events
  spool       \* the local spool file

sessions == <<open, transcript, work, ends, read>>
vars == <<sessions, past, imported, ledger, spool>>

Init ==
  /\ open = [s \in Sessions |-> FALSE] /\ transcript = [s \in Sessions |-> <<>>]
  /\ work = [s \in Sessions |-> [a \in Subagents |-> 0]]
  /\ ends = [s \in Sessions |-> 0] /\ read = [s \in Sessions |-> 0]
  /\ past = [r \in Runs |-> None] /\ imported = {}
  /\ ledger = {} /\ spool = {}

-----------------------------------------------------------------------------
(* Rows *)

Row(id, type, source, of, tokens, model) ==
  [id |-> id, type |-> type, source |-> source, of |-> of, tokens |-> tokens,
   model |-> model]

\* INSERT ... ON CONFLICT (event_id) DO NOTHING.  An id is uuid4, one per call, or
\* uuid5 of what the row was made from.
Inserted(rows) ==
  ledger \cup {r \in rows : \A q \in ledger : q.id # r.id}

\* record_event of each: into the ledger, or into the spool when that cannot be
\* reached.
Record(rows) ==
  \/ ledger' = Inserted(rows) /\ UNCHANGED spool
  \/ spool' = spool \cup rows /\ UNCHANGED ledger

\* sync_spool: the lines that were inserted go, unless the process dies first.
Sync ==
  /\ spool # {}
  /\ ledger' = Inserted(spool)
  /\ \E kept \in {{}, spool} : spool' = kept
  /\ UNCHANGED <<sessions, past, imported>>

-----------------------------------------------------------------------------
(* A development session *)

Start(s) ==
  /\ ~open[s] /\ open' = [open EXCEPT ![s] = TRUE]
  /\ UNCHANGED <<transcript, work, ends, read, past, imported, ledger, spool>>

Write(s, line) ==
  /\ open[s] /\ Len(transcript[s]) < MaxLines
  /\ transcript' = [transcript EXCEPT ![s] = Append(@, line)]
  /\ UNCHANGED <<open, work, ends, read, past, imported, ledger, spool>>

\* A subagent writes a transcript of its own, beside the session's.
Delegate(s, a) ==
  /\ open[s] /\ work[s][a] < MaxWork
  /\ work' = [work EXCEPT ![s][a] = @ + 1]
  /\ UNCHANGED <<open, transcript, ends, read, past, imported, ledger, spool>>

\* _extract_usage_from_transcript: the turns of the whole file, and the model of the
\* last one; no usage without any.
Turns(lines) == {i \in DOMAIN lines : lines[i] \in KnownModels}

\* Mutant: a subagent's usage is recorded like the session's own.
SameType(s) ==
  {Row(<<"hook", s, ends[s], a>>, "model_usage", "claude_code", s, work[s][a],
       CHOOSE m \in KnownModels : TRUE) : a \in {b \in Subagents : work[s][b] > 0}}

\* _iter_subagent_transcripts and the rows of their usage, under a type of their own.
SubagentRows(s) ==
  {Row(<<"hook", s, ends[s], a>>, "claude_code_subagent_usage", "claude_code", s,
       work[s][a], CHOOSE m \in KnownModels : TRUE) :
     a \in {b \in Subagents : work[s][b] > 0}}

SessionRow(s) ==
  LET turns == Turns(transcript[s]) IN
  IF turns = {} THEN {}
  ELSE {Row(<<"hook", s, ends[s], None>>, "model_usage", "claude_code", s,
            Cardinality(turns), transcript[s][Max(turns)])}

\* The SessionEnd hook only spools.
End(s) ==
  /\ open[s] /\ ends[s] < MaxEnds
  /\ open' = [open EXCEPT ![s] = FALSE]
  /\ ends' = [ends EXCEPT ![s] = @ + 1]
  /\ read' = [read EXCEPT ![s] = Len(transcript[s])]
  /\ spool' = spool \cup SessionRow(s) \cup SubagentRows(s)
  /\ UNCHANGED <<transcript, work, past, imported, ledger>>

\* The session is closed by force: no hook runs.
Break(s) ==
  /\ open[s] /\ open' = [open EXCEPT ![s] = FALSE]
  /\ UNCHANGED <<transcript, work, ends, read, past, imported, ledger, spool>>

-----------------------------------------------------------------------------
(* A workbench run, and the importers *)

\* A run ends: run_usage_summary goes to the ledger, a line to the history file.
RunEnds(r, u) ==
  /\ past[r] = None /\ past' = [past EXCEPT ![r] = u]
  /\ Record({Row(<<"run", r>>, "run_usage_summary", "workbench", r, u.tokens, u.model)})
  /\ UNCHANGED <<sessions, imported>>

\* backfill_from_run_history: an outcome for every line, and its usage if it has any.
ImportRuns ==
  LET lines == {r \in Runs : past[r] # None} IN
  /\ lines # {}
  /\ Record({Row(<<"outcome", r>>, "run_completed", "workbench", r, 0, None) : r \in lines}
            \cup {Row(<<"model_usage", r>>, "model_usage", "workbench", r,
                      past[r].tokens, past[r].model) :
                    r \in {q \in lines : past[q].tokens > 0}})
  /\ UNCHANGED <<sessions, past, imported>>

\* uuid5 of the entry's own uuid.
EntryId(s, i) == <<"import", s, i>>

\* What an entry becomes: a prompt a person typed, or a tool call of a turn.  A tool
\* result has the user role as well, and becomes nothing.
Imported(s, i) ==
  LET line == transcript[s][i] IN
  IF line = "result" THEN {}
  ELSE {Row(EntryId(s, i),
            IF line = "prompt" THEN "user_prompt_submitted" ELSE "tool_call_started",
            "claude_code", Label, 0, None)}

\* backfill_from_claude_code_transcript with a window of the file.
ImportTranscript(s, from, to) ==
  /\ from <= to /\ to <= Len(transcript[s])
  /\ imported' = imported \cup {<<s, i>> : i \in from..to}
  /\ Record(UNION {Imported(s, i) : i \in from..to})
  /\ UNCHANGED <<sessions, past>>

Next ==
  \/ \E s \in Sessions : Start(s) \/ End(s) \/ Break(s)
  \/ \E s \in Sessions, l \in {"prompt", "result"} \cup KnownModels : Write(s, l)
  \/ \E s \in Sessions, a \in Subagents : Delegate(s, a)
  \/ \E r \in Runs, m \in KnownModels : RunEnds(r, [tokens |-> 1, model |-> m])
  \/ \E r \in Runs : RunEnds(r, [tokens |-> 0, model |-> None])
  \/ Sync \/ ImportRuns
  \/ \E s \in Sessions, from \in 1..MaxLines, to \in 1..MaxLines :
       ImportTranscript(s, from, to)

Spec == Init /\ [][Next]_vars

-----------------------------------------------------------------------------
(* The sums of the usage page *)

Tokens(rows) == MapThenSumSet(LAMBDA r : r.tokens, rows)

\* calculate_cost: a price for every unit, or none for any.
Available(model) == model \in Priced

\* _usage_for_claude_code: the sum of a session's rows, priced by the model of the
\* latest.
UsageRows(s) ==
  {r \in ledger : r.type = "model_usage" /\ r.source = "claude_code" /\ r.of = s}
SessionTokens(s) == Tokens(UsageRows(s))

\* get_dev_session_cost_summary: every row by its own model.
DevRows == UNION {UsageRows(s) : s \in Sessions}

\* get_usage_economics: every run once, from its own summary.
RunRows == {r \in ledger : r.type = "run_usage_summary"}
RunsTotal == Cardinality(RunRows)

\* get_delivery_path_share: distinct runs and distinct sessions.
DirectSessions == {r.of : r \in DevRows}
WorkbenchRuns == {r.of : r \in RunRows}

\* _prompt_counts_for_claude_code
Prompts(of) == Cardinality({r \in ledger : r.type = "user_prompt_submitted" /\ r.of = of})

-----------------------------------------------------------------------------
(* Properties *)

TurnsOf(lines) == Cardinality(Turns(lines))

\* What happened once is counted once, however often the spool is sent again and an
\* import repeated, and whatever subagents did beside it: a session that has ended
\* once, every imported prompt, every run.  Rows that are still in the spool may be
\* missing (claude_code_hook.main, event_ledger.backfill_*, sync_spool).
CountedOnce ==
  LET Exactly(n, m) == n <= m /\ (spool = {} => n = m) IN
  /\ \A s \in Sessions : ends[s] = 1 =>
       Exactly(SessionTokens(s), TurnsOf(SubSeq(transcript[s], 1, read[s])))
  /\ Exactly(Prompts(Label),
             Cardinality({p \in imported : transcript[p[1]][p[2]] = "prompt"}))
  /\ Exactly(RunsTotal, Cardinality({r \in Runs : past[r] # None}))
  /\ DirectSessions \subseteq Sessions /\ WorkbenchRuns \subseteq Runs

\* A session's total is never more than what its transcript holds, also when it was
\* resumed and ended again: the docstring of session_history._usage_for_claude_code.
ResumedCountsOnce == \A s \in Sessions : SessionTokens(s) <= TurnsOf(transcript[s])
=============================================================================
