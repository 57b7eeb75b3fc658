---------------------------- MODULE EntryLimits ----------------------------
(***************************************************************************)
(* The guardrails on the way of an order: _fetch_portfolio_state reads the *)
(* trades table, check_all decides, and the order's row is recorded many   *)
(* awaits later.  Executions run side by side, positions close at any time *)
(* and the days go by.                                                     *)
(*                                                                         *)
(* The snapshot built there has no cooling-off time and no peak, so the    *)
(* rules on them never stop an execution; the account's value only decides *)
(* on capital preservation.                                                *)
(***************************************************************************)
EXTENDS Guardrails, FiniteSets, Functions

CONSTANTS
  Executions,    \* tasks that run _execute_signal
  Capital,       \* the configured starting capital
  Values,        \* values the account may have
  Pnls,          \* profits a close may book
  Unknown,       \* the profit of a close that could not be priced
  DaysPerWeek, DaysPerMonth,
  RecentLimit,   \* closed rows the streak is counted over
  MaxDays, MaxCloses, MaxOpen   \* bounds of the model

ASSUME EntryAssumption ==
  /\ IsFiniteSet(Executions) /\ Executions # {}
  /\ Pnls \subseteq Int /\ Unknown \notin Pnls
  /\ DaysPerWeek \in Nat \ {0} /\ DaysPerMonth \in Nat \ {0}
  /\ Capital \in Nat /\ Values \subseteq Nat
  /\ MaxDays \in Nat /\ MaxCloses \in Nat /\ MaxOpen \in Nat /\ RecentLimit \in Nat

VARIABLES
  day,
  closed,    \* the closed rows, newest first: profit and day of the exit
  open,      \* open positions
  entered,   \* rows recorded today by executions
  adopted,   \* rows created today by the position reconciler
  exec       \* each execution: idle, or past the guardrails

vars == <<day, closed, open, entered, adopted, exec>>

Strategies == {"bull_put_spread", "bear_call_spread", "iron_condor", ""}

TypeOK ==
  /\ day \in 0 .. MaxDays
  /\ closed \in Seq([pnl : Pnls \cup {Unknown}, day : 0 .. MaxDays])
  /\ Len(closed) <= MaxCloses
  /\ open \in 0 .. MaxOpen
  /\ entered \in Nat /\ adopted \in Nat
  /\ exec \in [Executions -> {"idle", "checked"}]

Init ==
  /\ day = 0 /\ closed = <<>> /\ open = 0 /\ entered = 0 /\ adopted = 0
  /\ exec = [e \in Executions |-> "idle"]

Passed == {e \in Executions : exec[e] = "checked"}

-----------------------------------------------------------------------------
(* The figures read from the table.                                        *)

\* Profit booked on or after the day; a close without a price adds nothing.
SumFrom(from) ==
  LET counted == {i \in DOMAIN closed : closed[i].day >= from /\ closed[i].pnl # Unknown}
  IN  SumFunctionOnSet([i \in counted |-> closed[i].pnl], counted)

WeekStart  == day - (day % DaysPerWeek)
MonthStart == day - (day % DaysPerMonth)

Loss(i) == closed[i].pnl # Unknown /\ closed[i].pnl < 0

\* mutant of Streak: only this week's closes are looked at.
StreakThisWeek ==
  Cardinality({i \in DOMAIN closed :
    \A j \in 1 .. i : Loss(j) /\ closed[j].day >= WeekStart})

\* The losses since the last close that was none, or had no price.
Streak ==
  Cardinality({i \in DOMAIN closed :
    i <= RecentLimit /\ \A j \in 1 .. i : Loss(j)})

Snapshot(value) ==
  [value |-> value, start |-> Capital, daily |-> SumFrom(day),
   weekly |-> SumFrom(WeekStart), monthly |-> SumFrom(MonthStart),
   peak |-> 0, cooling |-> FALSE, streak |-> Streak,
   trades |-> entered + adopted]

-----------------------------------------------------------------------------

\* mutant of Check: the trade cap is not asked.
CheckUncapped(e) ==
  /\ exec[e] = "idle"
  /\ \E value \in Values, strategy \in Strategies :
       LET status == CheckAll([Snapshot(value) EXCEPT !.trades = 0])
       IN  status.allowed /\ (strategy = "" \/ StrategyAllowed(strategy, status))
  /\ exec' = [exec EXCEPT ![e] = "checked"]
  /\ UNCHANGED <<day, closed, open, entered, adopted>>

\* An execution passes the guardrails.  A signal without a strategy is not
\* asked whether its strategy is allowed.
Check(e) ==
  /\ exec[e] = "idle"
  /\ \E value \in Values, strategy \in Strategies :
       LET status == CheckAll(Snapshot(value))
       IN  status.allowed /\ (strategy = "" \/ StrategyAllowed(strategy, status))
  /\ exec' = [exec EXCEPT ![e] = "checked"]
  /\ UNCHANGED <<day, closed, open, entered, adopted>>

\* A later gate refuses, or the broker does.
Dropped(e) ==
  /\ exec[e] = "checked"
  /\ exec' = [exec EXCEPT ![e] = "idle"]
  /\ UNCHANGED <<day, closed, open, entered, adopted>>

\* The row is recorded, with the day of the record.
Record(e) ==
  /\ exec[e] = "checked" /\ open < MaxOpen
  /\ exec' = [exec EXCEPT ![e] = "idle"]
  /\ entered' = entered + 1 /\ open' = open + 1
  /\ UNCHANGED <<day, closed, adopted>>

\* The reconciler adopts a position it finds at the broker.
Adopt ==
  /\ open < MaxOpen /\ adopted < MaxOpen
  /\ open' = open + 1 /\ adopted' = adopted + 1
  /\ UNCHANGED <<day, closed, entered, exec>>

\* mutant of CloseTrade: a position is closed twice.
CloseTradeTwice ==
  /\ Len(closed) < MaxCloses
  /\ \E pnl \in Pnls \cup {Unknown} :
       closed' = <<[pnl |-> pnl, day |-> day]>> \o closed
  /\ open' = open - 1
  /\ UNCHANGED <<day, entered, adopted, exec>>

\* A position closes, with a profit or without a price.
CloseTrade ==
  /\ open > 0 /\ Len(closed) < MaxCloses
  /\ \E pnl \in Pnls \cup {Unknown} :
       closed' = <<[pnl |-> pnl, day |-> day]>> \o closed
  /\ open' = open - 1
  /\ UNCHANGED <<day, entered, adopted, exec>>

NextDay ==
  /\ day < MaxDays
  /\ day' = day + 1 /\ entered' = 0 /\ adopted' = 0
  /\ UNCHANGED <<closed, open, exec>>

Next ==
  \/ \E e \in Executions : Check(e) \/ Dropped(e) \/ Record(e)
  \/ Adopt \/ CloseTrade \/ NextDay

Spec == Init /\ [][Next]_vars

-----------------------------------------------------------------------------
(* Properties.                                                             *)

\* The daily cap counts recorded rows, so executions side by side can pass it
\* together; but no more of them than run side by side: a day's entries, with
\* those still on their way, exceed the cap by at most one less than the
\* executions there are.
CapOvershootBounded ==
  entered + Cardinality(Passed) < MaxTrades + Cardinality(Executions)

\* No position is open, no order on its way, and the streak is at its limit.
HaltedByStreak ==
  open = 0 /\ Passed = {} /\ Streak >= MaxStreak

\* The halt after a losing streak, announced as 48 hours, has no clock: the
\* streak is counted anew from the newest closes at every check, so once the
\* book is flat it stands, whatever day it is, until the reconciler adopts a
\* position and that one closes.
StreakHaltHasNoClock ==
  [][HaltedByStreak /\ open' = 0 => HaltedByStreak']_vars
=============================================================================
