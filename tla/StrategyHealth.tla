--------------------------- MODULE StrategyHealth ---------------------------
(***************************************************************************)
(* The health of one strategy (services/strategy_health.py on the metrics  *)
(* of services/performance_analytics.py).  Each closed trade is graded     *)
(* into the record twice: by the execution gate (trade_desk.py), which     *)
(* knows the default baseline only and refuses a degraded strategy, and by *)
(* the page and the meta-strategy layer, which prefer the baseline of a    *)
(* promoted experiment.  A trade whose exit price never came has no P&L    *)
(* and is not counted.                                                     *)
(*                                                                         *)
(* P&L is in dollars, small; percentages are compared by cross-            *)
(* multiplication, never rounded.                                          *)
(***************************************************************************)
EXTENDS Integers, Sequences, FiniteSetsExt, SequencesExt

CONSTANTS
  None,
  Outcomes,     \* P&L of a closed trade
  Default,      \* the baseline of the code: win (percent), edge, dd (percent), streak
  Promotable,   \* baselines that experiments may be promoted with
  MinSample,    \* trades needed for a grade
  Window,       \* trades the rolling drawdown looks back on
  Capital,      \* starting capital
  MaxTrades     \* bound: closed trades

VARIABLES
  closed,       \* P&L of the closed trades, in order of their exit; None unmeasured
  promoted,     \* the baseline of the promoted experiment, or None
  sanctioned,   \* the regime endorses the strategy
  streakStop    \* the gate once refused an entry after a losing streak

vars == <<closed, promoted, sanctioned, streakStop>>

-----------------------------------------------------------------------------
(* compute_performance and the grade.                                      *)

\* P&L is a number, and so is the length of a streak.
HealthConstants == Outcomes \subseteq Int /\ Default.streak \in Int /\ MinSample \in Int

\* Only measured trades count.
Measured(s) ==
  LET kept[k \in 0 .. Len(s)] ==
        IF k = 0 THEN <<>>
        ELSE IF s[k] = None THEN kept[k - 1] ELSE Append(kept[k - 1], s[k])
  IN  kept[Len(s)]

Total(p) == FoldLeft(LAMBDA x, y : x + y, 0, p)
Wins(p)  == Len(SelectSeq(p, LAMBDA x : x > 0))

\* The longest run of losses, over all trades.
LosingStreak(p) ==
  Max({0} \cup {run[2] - run[1] + 1 : run \in
        {x \in (1..Len(p)) \X (1..Len(p)) : x[1] <= x[2] /\ \A k \in x[1]..x[2] : p[k] < 0}})

\* Equity after the first k trades.
Equity(p, k) == Capital + Total(SubSeq(p, 1, k))

\* Within the last Window trades equity fell more than dd percent from a peak.
FellBeyond(p, dd) ==
  \E i, j \in Max({0, Len(p) - Window})..Len(p) :
    /\ i < j
    /\ 100 * (Equity(p, i) - Equity(p, j)) > dd * Equity(p, i)

\* Reasons to suspend; a baseline without edge is not compared with.
Broken(p, b) ==
  \/ Total(p) <= 0
  \/ b.edge > 0 /\ 2 * Total(p) < Len(p) * b.edge
  \/ LosingStreak(p) >= b.streak
  \/ FellBeyond(p, b.dd)

\* Reasons to reduce: edge under 80 percent, win rate 10 points down.
Softening(p, b) ==
  \/ b.edge > 0 /\ 5 * Total(p) < 4 * Len(p) * b.edge
  \/ 100 * Wins(p) < Len(p) * (b.win - 10)

\* evaluate_strategy_health.
Grade(s, b) ==
  LET p == Measured(s)
  IN IF Len(p) < MinSample THEN "insufficient_data"
     ELSE IF Broken(p, b) THEN "degraded"
     ELSE IF Softening(p, b) THEN "watch"
     ELSE "healthy"

\* The gate grades by the default baseline, the page by a promoted one.
GateGrade == Grade(closed, Default)
PageGrade == Grade(closed, IF promoted = None THEN Default ELSE promoted)

\* The meta layer: which strategies are active.
Active(grade) == sanctioned /\ grade # "degraded"

-----------------------------------------------------------------------------
Init ==
  /\ closed = <<>> /\ promoted = None /\ sanctioned \in BOOLEAN
  /\ streakStop = FALSE

\* An execution asks the gate and is refused: a degraded strategy opens nothing.
Ask ==
  /\ GateGrade = "degraded"
  /\ streakStop' = (streakStop \/ LosingStreak(Measured(closed)) >= Default.streak)
  /\ UNCHANGED <<closed, promoted, sanctioned>>

\* A trade closes, measured or not; those open when the strategy was
\* suspended close as well.
Close ==
  /\ Len(closed) < MaxTrades
  /\ \E pnl \in Outcomes \cup {None} : closed' = Append(closed, pnl)
  /\ UNCHANGED <<promoted, sanctioned, streakStop>>

\* An experiment of the strategy is promoted, demoted or retired.
Promote ==
  /\ \E b \in Promotable \cup {None} : b # promoted /\ promoted' = b
  /\ UNCHANGED <<closed, sanctioned, streakStop>>

\* The regime changes.
Turn == sanctioned' = ~sanctioned /\ UNCHANGED <<closed, promoted, streakStop>>

Next == Ask \/ Close \/ Promote \/ Turn

-----------------------------------------------------------------------------
TypeOK ==
  /\ closed \in Seq(Outcomes \cup {None}) /\ Len(closed) <= MaxTrades
  /\ promoted \in Promotable \cup {None}
  /\ sanctioned \in BOOLEAN /\ streakStop \in BOOLEAN

\* A suspension for a losing streak is for good: the streak is the longest
\* ever, so no trade that closes later, and no promotion, lets the gate open.
StreakStopIsForGood == streakStop => GateGrade = "degraded"

\* The page shows a strategy active that the gate refuses only when an
\* experiment was promoted with a baseline the record still meets.
PageErrsByPromotion ==
  Active(PageGrade) /\ GateGrade = "degraded" =>
    promoted # None /\ ~Broken(Measured(closed), promoted)

\* No number of unmeasured trades makes or unmakes a grade.
UnmeasuredIsNeutral ==
  \A i \in 1..Len(closed) : closed[i] = None =>
    Grade(RemoveAt(closed, i), Default) = GateGrade

HealthHolds == StreakStopIsForGood /\ PageErrsByPromotion /\ UnmeasuredIsNeutral
=============================================================================
