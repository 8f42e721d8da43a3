--------------------------- MODULE SessionHistory ---------------------------
(***************************************************************************)
(* The public list of runs (agent/session_history.py): a view computed     *)
(* from the event ledger at every request, while runs go on and events     *)
(* that were spooled during an outage arrive late.  A reader goes through  *)
(* it page by page with the cursor each page hands out.                    *)
(***************************************************************************)
EXTENDS Naturals, Sequences, FiniteSets

CONSTANTS Runs,
          Mocks,     \* the runs of source workbench_mock, which are not listed
          None,
          Limit,     \* sessions on a page
          MaxClock,  \* bound: instants
          MaxEvents, \* bound: events of a run
          MaxLate    \* bound: events that go through the spool

HistoryAssumption ==
  /\ Mocks \subseteq Runs /\ None \notin Nat
  /\ Limit \in Nat \ {0} /\ {MaxClock, MaxEvents, MaxLate} \subseteq Nat

VARIABLES
  clock,    \* the time
  ledger,   \* delivery_events
  spool,    \* events on their way through the spool
  late,     \* how many have gone that way
  cursor,   \* the reader's next_cursor; None before the first page, 0 after the last
  listed,   \* the sessions listed so far
  known     \* the sessions at the first page, with their start

reader == <<cursor, listed, known>>
vars   == <<clock, ledger, spool, late, reader>>

Init == /\ clock = 1 /\ ledger = {} /\ spool = {} /\ late = 0
        /\ cursor = None /\ listed = <<>> /\ known = {}

-----------------------------------------------------------------------------
(* Runs record events *)

Tick == clock < MaxClock /\ clock' = clock + 1 /\ UNCHANGED <<ledger, spool, late, reader>>

\* record_event: the time is that of the envelope, whenever it is inserted.
Record(r) ==
  LET e == [run |-> r, at |-> clock] IN
  /\ e \notin ledger \cup spool
  /\ Cardinality({f \in ledger \cup spool : f.run = r}) < MaxEvents
  /\ \/ ledger' = ledger \cup {e} /\ UNCHANGED <<spool, late>>
     \/ /\ late < MaxLate /\ late' = late + 1
        /\ spool' = spool \cup {e} /\ UNCHANGED ledger
  /\ UNCHANGED <<clock, reader>>

\* sync_spool, one line.
Sync(e) ==
  /\ spool' = spool \ {e} /\ ledger' = ledger \cup {e}
  /\ UNCHANGED <<clock, late, reader>>

-----------------------------------------------------------------------------
(* The view *)

\* _SESSIONS_CTE with the sources of _query_params.
Sessions == {e.run : e \in ledger} \ Mocks
\* MIN(timestamp_utc)
Start(r) == LET times == {e.at : e \in {f \in ledger : f.run = r}}
            IN CHOOSE t \in times : \A u \in times : t <= u

\* start_ts < before.  Mutant: <=.
FromCursor(before) == {r \in Sessions : before = None \/ Start(r) <= before}
Matching(before) == {r \in Sessions : before = None \/ Start(r) < before}

HasMore(before) == Cardinality(Matching(before)) > Limit

\* ORDER BY start_ts DESC LIMIT; the database may order those that started
\* together as it likes.
IsPage(page, before) ==
  /\ Len(page) = IF HasMore(before) THEN Limit ELSE Cardinality(Matching(before))
  /\ \A i \in DOMAIN page :
       /\ page[i] \in Matching(before) /\ \A j \in 1..(i - 1) : page[j] # page[i]
       /\ \A r \in Matching(before) :
            Start(r) > Start(page[i]) => \E j \in 1..(i - 1) : page[j] = r

\* list_sessions, from the first page to the last.
ReadPage ==
  /\ cursor # 0
  /\ known' = IF cursor = None THEN {[run |-> r, start |-> Start(r)] : r \in Sessions} ELSE known
  /\ \E n \in 0..Limit : \E page \in [1..n -> Runs] :
       /\ IsPage(page, cursor)
       /\ listed' = listed \o page
       /\ cursor' = IF HasMore(cursor) THEN Start(page[n]) ELSE 0
  /\ UNCHANGED <<clock, ledger, spool, late>>

Next == \/ Tick \/ ReadPage
        \/ \E r \in Runs : Record(r)
        \/ \E e \in spool : Sync(e)

Spec == Init /\ [][Next]_vars

-----------------------------------------------------------------------------
(* Properties *)

LedgerEvent == [run : Runs, at : 1..MaxClock]

TypeOK ==
  /\ clock \in 1..MaxClock
  /\ ledger \subseteq LedgerEvent /\ spool \subseteq LedgerEvent /\ late \in 0..MaxLate
  /\ cursor \in 0..MaxClock \cup {None} /\ listed \in Seq(Runs)
  /\ known \subseteq [run : Runs, start : 1..MaxClock]

\* A reader who goes on to the last page sees every real session there was at the
\* first page exactly once, and no mock, although runs start, end and surface late
\* between two pages - unless a late event moved the start of that session, or
\* another started at the same instant (list_sessions).
Times(r) == Cardinality({i \in DOMAIN listed : listed[i] = r})
Alone(k) == \A e \in ledger \cup spool : e.at = k.start => e.run = k.run
PagesComplete ==
  /\ \A m \in Mocks : Times(m) = 0
  /\ \A k \in known : Start(k.run) = k.start /\ Alone(k) =>
       Times(k.run) <= 1 /\ (cursor = 0 => Times(k.run) = 1)
=============================================================================
