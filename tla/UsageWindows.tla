---------------------------- MODULE UsageWindows ----------------------------
(***************************************************************************)
(* The windows of the usage page: event_ledger.compute_display_windows and *)
(* the sums get_usage_economics takes over them.  Time is counted in hours *)
(* of a small calendar, in a zone that changes its offset to UTC.          *)
(***************************************************************************)
EXTENDS Integers, FiniteSets, FiniteSetsExt

CONSTANTS Hours,      \* of a day
          WeekDays,   \* of a week
          MonthDays,  \* of a month
          LastHour,   \* bound: the last instant, in UTC
          Winter,     \* the offset to UTC in winter; one hour more in summer
          Spring, Autumn, \* the instants of the changes
          MaxRuns     \* bound: runs

WindowsAssumption ==
  /\ {Hours, WeekDays, MonthDays} \subseteq Nat \ {0}
  /\ {LastHour, Winter, Spring, Autumn, MaxRuns} \subseteq Nat
  /\ Winter < Hours
  /\ (Spring + Winter) % Hours # 0 \* no day begins in the hour that spring leaves out

VARIABLES now, runs \* run_usage_summary rows: when, what came of it, whether priced

vars == <<now, runs>>

Offset(t) == IF Spring <= t /\ t < Autumn THEN Winter + 1 ELSE Winter
\* astimezone to the display zone, and back: the earlier of two instants with the
\* same local time (fold = 0).
Local(t) == t + Offset(t)
Utc(l) == Min({t \in (-Hours * MonthDays)..(LastHour + Hours) : Local(t) = l})

Day(l) == l \div Hours
Midnight(l) == Day(l) * Hours

\* replace(hour=0), minus weekday() days, replace(day=1): all of them on local time.
TodayStart(t) == Utc(Midnight(Local(t)))
\* Mutant: the days are subtracted from the UTC instant.
WeekFromUtc(t) == TodayStart(t) - Hours * (Day(Local(t)) % WeekDays)
WeekStart(t) == Utc(Midnight(Local(t)) - Hours * (Day(Local(t)) % WeekDays))
MonthStart(t) == Utc(Midnight(Local(t)) - Hours * (Day(Local(t)) % MonthDays))

\* The rolling windows.
HourStart(t) == t - 1
DayStart(t) == t - Hours

Init == now = 0 /\ runs = {}

Tick == now < LastHour /\ now' = now + 1 /\ UNCHANGED runs

\* A run ends and its summary is inserted, with the envelope's time.
RunEnds(status, priced) ==
  /\ Cardinality(runs) < MaxRuns
  /\ runs' = runs \cup {[at |-> now, status |-> status, priced |-> priced]}
  /\ UNCHANGED now

Next == \/ Tick
        \/ \E status \in {"COMPLETED", "FAILED"}, priced \in BOOLEAN : RunEnds(status, priced)

Spec == Init /\ [][Next]_vars

-----------------------------------------------------------------------------
(* get_usage_economics *)

Since(start) == {r \in runs : r.at >= start}
Classes == {r.status : r \in runs}
InClass(class) == {r \in runs : r.status = class}
WithCost(rows) == {r \in rows : r.priced}

-----------------------------------------------------------------------------
(* Properties *)

SameDay(t, u) == Day(Local(t)) = Day(Local(u))
SameWeek(t, u) == Day(Local(t)) \div WeekDays = Day(Local(u)) \div WeekDays
SameMonth(t, u) == Day(Local(t)) \div MonthDays = Day(Local(u)) \div MonthDays

\* A run counts for today, this week and this month exactly when its local date lies
\* in them, on both sides of a change of the clocks; but for the day that has an hour
\* more the last 24 hours contain today; and the costs by outcome add up to the whole
\* (event_ledger.compute_display_windows, get_usage_economics).
WindowsAreLocal ==
  /\ Since(TodayStart(now)) = {r \in runs : SameDay(r.at, now)}
  /\ Since(WeekStart(now)) = {r \in runs : SameWeek(r.at, now)}
  /\ Since(MonthStart(now)) = {r \in runs : SameMonth(r.at, now)}
  /\ Since(HourStart(now)) \subseteq Since(DayStart(now))
  /\ ~SameDay(now, Autumn) => Since(TodayStart(now)) \subseteq Since(DayStart(now))
  /\ UNION {WithCost(InClass(class)) : class \in Classes} = WithCost(runs)
=============================================================================
