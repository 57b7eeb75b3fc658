----------------------------- MODULE Guardrails -----------------------------
(***************************************************************************)
(* The decision of GuardrailEngine, as operators on the snapshot of the    *)
(* portfolio it is given.  A snapshot p has the account's value and        *)
(* starting capital, the profit booked today, this week and this month,    *)
(* the all-time peak (0: not tracked), the length of the losing streak,    *)
(* the number of trades entered today, and whether a cooling-off period    *)
(* is on.  Amounts are in whole units, the limits in percent.              *)
(***************************************************************************)
EXTENDS Integers, Sequences

CONSTANTS
  MaxDailyLoss, MaxWeeklyLoss, MaxMonthlyLoss,  \* percent of the capital
  MaxDrawdown,                                  \* percent of the peak
  MaxStreak, MaxTrades,
  Preservation                                  \* percent of the capital

ASSUME GuardrailAssumption ==
  /\ {MaxDailyLoss, MaxWeeklyLoss, MaxMonthlyLoss, MaxDrawdown} \subseteq Nat
  /\ {MaxStreak, MaxTrades, Preservation} \subseteq Nat

Modes == {"normal", "capital_preservation", "suspended"}
Rules == {"cooling_off_active", "daily_loss_limit", "weekly_loss_limit",
          "monthly_loss_limit", "max_drawdown_limit", "consecutive_loss_limit",
          "daily_trade_cap", "capital_preservation_mode", "none"}

Base(p) == IF p.start > 0 THEN p.start ELSE 1

LossReaches(pnl, limit, p) == pnl * 100 <= -limit * Base(p)

\* Measured from the peak; an untracked peak is the present value.
DrawdownReaches(p) ==
  LET peak == IF p.peak > 0 THEN p.peak ELSE p.value
      fall == IF peak > p.value THEN peak - p.value ELSE 0
  IN  IF peak > 0 THEN fall * 100 >= MaxDrawdown * peak ELSE MaxDrawdown = 0

Preserving(p) == p.value * 100 <= Preservation * Base(p)

\* check_all asks the rules in this order; the first that is hit decides.
RuleHit(p) ==
  IF p.cooling                                     THEN "cooling_off_active"
  ELSE IF LossReaches(p.daily, MaxDailyLoss, p)     THEN "daily_loss_limit"
  ELSE IF LossReaches(p.weekly, MaxWeeklyLoss, p)   THEN "weekly_loss_limit"
  ELSE IF LossReaches(p.monthly, MaxMonthlyLoss, p) THEN "monthly_loss_limit"
  ELSE IF DrawdownReaches(p)                        THEN "max_drawdown_limit"
  ELSE IF p.streak >= MaxStreak                     THEN "consecutive_loss_limit"
  ELSE IF p.trades >= MaxTrades                     THEN "daily_trade_cap"
  ELSE IF Preserving(p)                             THEN "capital_preservation_mode"
  ELSE "none"

\* The trade cap and capital preservation do not suspend trading.
ModeOf(rule) ==
  CASE rule \in {"none", "daily_trade_cap"}    -> "normal"
    [] rule = "capital_preservation_mode"      -> "capital_preservation"
    [] OTHER                                   -> "suspended"

CheckAll(p) ==
  LET rule == RuleHit(p)
  IN  [rule |-> rule, mode |-> ModeOf(rule),
       allowed |-> rule \in {"none", "capital_preservation_mode"}]

\* is_strategy_allowed; in capital preservation only credit spreads are.
StrategyAllowed(strategy, status) ==
  /\ status.allowed
  /\ status.mode = "capital_preservation" =>
       strategy \in {"bull_put_spread", "bear_call_spread"}
=============================================================================
