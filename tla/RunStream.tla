----------------------------- MODULE RunStream -----------------------------
(***************************************************************************)
(* How a run reaches the page: the thread of the run appends events and    *)
(* sets the status (agent/web_server.py, class Run), the event stream and  *)
(* the poll read them, and the page applies what either brings             *)
(* (agent/web/workbench.js for trainer runs, agent/web/app.js for agent    *)
(* runs, which has no poll).                                               *)
(***************************************************************************)
EXTENDS Sequences, Integers

CONSTANTS Kinds,    \* the runs there are: a subset of {"trainer", "agent"}
          MaxWork,  \* bound: events before the outcome
          MaxReconnects, \* bound: connections after the first
          None

\* The four outcomes (TERMINAL_RUN_STATES); an agent run knows two of them.
TERMINAL_RUN_STATES == {"COMPLETED", "FAILED", "NO_CHANGE_NEEDED", "DEPLOYMENT_STATUS_UNKNOWN"}

\* None is no outcome.
StreamAssumption ==
  /\ Kinds \subseteq {"trainer", "agent"} /\ MaxWork \in Nat /\ MaxReconnects \in Nat
  /\ None \notin TERMINAL_RUN_STATES

VARIABLES
  kind,      \* of this run
  outcome,   \* how it ends; None as long as that is open
  todo,      \* what its thread has still to do, once the outcome is known
  status,    \* Run.status: "working" or the outcome
  log,       \* Run.events: the type of each event
  gen,       \* _generate_run_events: "fetch", "check" or "ended"
  sent,      \* how many events it has yielded
  fresh,     \* whether the last look found any
  wire,      \* events on their way: positions in the log
  silent,    \* the tunnel swallows the stream
  again,     \* how often the page has connected again
  poll,      \* the poll under way: what the server has read for it
  shown,     \* the events the page has applied, in that order
  finished,  \* run.finished
  closed     \* the page has closed its EventSource and stopped polling

run  == <<kind, outcome, todo, status, log>>
sse  == <<gen, sent, fresh, wire, silent, again>>
page == <<shown, finished, closed>>
vars == <<run, sse, poll, page>>

\* How a run of this kind may end.
Outcomes == IF kind = "agent" THEN {"COMPLETED", "FAILED"} ELSE TERMINAL_RUN_STATES

\* Mutant: the status is set first.
StatusFirst == <<"set status", "error", "stage">>
TrainerFails == <<"error", "set status", "stage">>

\* What a thread does at its end, in the order of the code.
Ending(o) ==
  IF kind = "agent"
    THEN <<"set status", "stage", IF o = "COMPLETED" THEN "final_result" ELSE "error">>
    ELSE (CASE o = "COMPLETED"        -> <<"set status", "stage", "final_result">>
            [] o = "NO_CHANGE_NEEDED" -> <<"set status", "no_change_needed", "stage", "final_result">>
            [] OTHER                  -> TrainerFails)
         \o <<"usage_summary">>

Init ==
  /\ kind \in Kinds /\ outcome = None /\ todo = <<>>
  /\ status = "working" /\ log = <<>>
  /\ gen = "fetch" /\ sent = 0 /\ fresh = FALSE /\ wire = <<>>
  /\ silent = FALSE /\ again = 0
  /\ poll = None
  /\ shown = <<>> /\ finished = FALSE /\ closed = FALSE

-----------------------------------------------------------------------------
(* The thread of the run *)

\* Run.emit for any of the events before the outcome.
Work ==
  /\ outcome = None /\ Len(log) < MaxWork
  /\ log' = Append(log, "work")
  /\ UNCHANGED <<kind, outcome, todo, status, sse, poll, page>>

\* The outcome is known.
Conclude ==
  /\ outcome = None
  /\ \E o \in Outcomes : outcome' = o /\ todo' = Ending(o)
  /\ UNCHANGED <<kind, status, log, sse, poll, page>>

\* set_status, or the append of emit; the ledger write that follows each append
\* may take its time.
Report ==
  /\ todo # <<>> /\ todo' = Tail(todo)
  /\ IF Head(todo) = "set status"
       THEN status' = outcome /\ UNCHANGED log
       ELSE log' = Append(log, Head(todo)) /\ UNCHANGED status
  /\ UNCHANGED <<kind, outcome, sse, poll, page>>

-----------------------------------------------------------------------------
(* The event stream *)

\* events_from, and a yield for every event found; a client that is gone ends
\* the generator instead.
Fetch ==
  /\ gen = "fetch"
  /\ IF closed
       THEN gen' = "ended" /\ UNCHANGED <<sent, fresh, wire>>
       ELSE /\ wire' = wire \o [i \in 1..(Len(log) - sent) |-> sent + i]
            /\ fresh' = (sent < Len(log)) /\ sent' = Len(log)
            /\ gen' = "check"
  /\ UNCHANGED <<run, silent, again, poll, page>>

\* The status is read after the events.
Check ==
  /\ gen = "check"
  /\ gen' = IF status \in TERMINAL_RUN_STATES /\ ~fresh THEN "ended" ELSE "fetch"
  /\ UNCHANGED <<run, sent, fresh, wire, silent, again, poll, page>>

\* EventSource connects again by itself when the connection drops or the server
\* ends the stream; the new generator replays from the first event.
Reconnect ==
  /\ ~closed /\ ~silent
  /\ again < MaxReconnects /\ again' = again + 1
  /\ gen' = "fetch" /\ sent' = 0 /\ fresh' = FALSE /\ wire' = <<>>
  /\ UNCHANGED <<run, silent, poll, page>>

\* The incident of workbench.js: no error, no close, no bytes.
GoSilent ==
  /\ ~silent /\ silent' = TRUE
  /\ UNCHANGED <<run, gen, sent, fresh, wire, again, poll, page>>

-----------------------------------------------------------------------------
(* The page *)

\* TERMINAL_STAGES, a copy of the server's set.  Mutant: the status added last
\* is missing here.
WithoutNoChange == TERMINAL_RUN_STATES \ {"NO_CHANGE_NEEDED"}
TERMINAL_STAGES == TERMINAL_RUN_STATES

\* applyEventIfNew; app.js knows no such thing.  Mutant: neither does the workbench.
Always(i, before) == TRUE
IsNew(i, before) == kind = "agent" \/ \A k \in DOMAIN before : before[k] # i

\* Each event of a batch, in order, if it is new.
AppliedUpTo(n) == LET f[i \in 0..n] == IF i = 0 THEN shown
                                       ELSE IF IsNew(i, f[i - 1]) THEN Append(f[i - 1], i)
                                       ELSE f[i - 1]
                  IN f[n]

IsTerminalStage(i) == log[i] = "stage" /\ outcome \in TERMINAL_STAGES

\* finishRun.  The workbench closes its stream 300 ms later, the control room
\* in its handler.
Ends(why) == /\ finished' = (finished \/ why)
             /\ closed' = (closed \/ (why /\ kind = "agent"))

\* An event of the stream arrives.
Receive ==
  /\ wire # <<>> /\ ~silent /\ ~closed
  /\ wire' = Tail(wire)
  /\ LET i == Head(wire) IN
       /\ shown' = IF IsNew(i, shown) THEN Append(shown, i) ELSE shown
       /\ Ends(IsTerminalStage(i))
  /\ UNCHANGED <<run, gen, sent, fresh, silent, again, poll>>

\* The 300 ms of finishRun are over.
Close ==
  /\ finished /\ ~closed /\ closed' = TRUE
  /\ UNCHANGED <<run, sse, poll, shown, finished>>

\* pollOnce; get_run reads the status first and the events after it, while the
\* thread goes on.
PollStatus ==
  /\ kind = "trainer" /\ poll = None /\ ~finished
  /\ poll' = [status |-> status, upTo |-> None]
  /\ UNCHANGED <<run, sse, page>>

PollEvents ==
  /\ poll # None /\ poll.upTo = None
  /\ poll' = [poll EXCEPT !.upTo = Len(log)]
  /\ UNCHANGED <<run, sse, page>>

\* Wherever it fails, the page gets nothing of it.
PollFails ==
  /\ poll # None /\ poll.upTo # None /\ poll' = None
  /\ UNCHANGED <<run, sse, page>>

\* The answer is applied even if the run has finished meanwhile.
PollArrives ==
  /\ poll # None /\ poll.upTo # None /\ poll' = None
  /\ shown' = AppliedUpTo(poll.upTo)
  /\ Ends(poll.status \in TERMINAL_STAGES
          \/ \E i \in 1..poll.upTo : IsTerminalStage(i) /\ IsNew(i, shown))
  /\ UNCHANGED <<run, sse>>

Thread == Work \/ Conclude \/ Report
Server == Fetch \/ Check
Page   == Receive \/ Close \/ PollStatus \/ PollEvents \/ PollArrives
Next   == Thread \/ Server \/ Page \/ Reconnect \/ GoSilent \/ PollFails

Spec == Init /\ [][Next]_vars

\* The thread and the server run on; the interval polls again and again, and a
\* poll that is repeated gets through at last.  Nothing is assumed of the stream.
Fairness ==
  /\ WF_vars(Conclude) /\ WF_vars(Report) /\ WF_vars(Server)
  /\ WF_vars(Close) /\ WF_vars(PollStatus) /\ WF_vars(PollEvents) /\ SF_vars(PollArrives)
FairSpec == Spec /\ Fairness

-----------------------------------------------------------------------------
(* Properties *)

EventTypes == {"work", "stage", "final_result", "error", "no_change_needed", "usage_summary"}

TypeOK ==
  /\ kind \in Kinds /\ outcome \in Outcomes \cup {None}
  /\ todo \in Seq(EventTypes \cup {"set status"})
  /\ status \in Outcomes \cup {"working"} /\ log \in Seq(EventTypes)
  /\ gen \in {"fetch", "check", "ended"} /\ sent \in 0..Len(log) /\ fresh \in BOOLEAN
  /\ wire \in Seq(1..Len(log)) /\ silent \in BOOLEAN /\ again \in 0..MaxReconnects
  /\ poll \in [status : Outcomes \cup {"working"}, upTo : 0..Len(log) \cup {None}] \cup {None}
  /\ shown \in Seq(1..Len(log)) /\ finished \in BOOLEAN /\ closed \in BOOLEAN

Shows(type) == \E k \in DOMAIN shown : log[shown[k]] = type

\* Whatever mixture of stream, replay and poll delivers the events, the workbench
\* applies each one once and in the order the run emitted them: no stage comes
\* twice, none goes back (workbench.js: "both funnel into the SAME idempotent
\* event-apply path").
ShownInOrder == kind = "trainer" => \A k \in DOMAIN shown : shown[k] = k

\* When the workbench page of a run that failed, or whose deployment could not be
\* confirmed, stops listening, it shows the reason: the poll may see the terminal
\* status before the terminal stage, but never before the error.
ReasonIsShown ==
  kind = "trainer" /\ outcome \in {"FAILED", "DEPLOYMENT_STATUS_UNKNOWN"} /\ finished
    => Shows("error")

\* A workbench page comes to its end and leaves no generator behind on the
\* server, however the run ends and whatever becomes of the stream.
PageSettles == kind = "trainer" ~> (closed /\ gen = "ended")
=============================================================================
