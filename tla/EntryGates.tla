----------------------------- MODULE EntryGates -----------------------------
(***************************************************************************)
(* The gates a signal must pass in _execute_signal that depend on nothing  *)
(* but the signal and what is read about the day, the mode and the         *)
(* account: market hours, the same-day-expiry and liquidity gates, the     *)
(* trade frequency controller, strategy health, the guardrails' verdict,   *)
(* the account, tenure and margin guards.  One behaviour decides one case. *)
(*                                                                         *)
(* Probabilities, ratios and shares are in percent.  None stands for a     *)
(* reading that is not there.                                              *)
(***************************************************************************)
EXTENDS Guardrails, FiniteSets

CONSTANTS
  Signals,    \* the signals and ...
  Contexts,   \* ... the circumstances of the cases
  None

\* What is known of a signal.  A reward of zero is an unknown one.
SignalRecords ==
  [asset : STRING, approver : STRING, composer : BOOLEAN, strategy : STRING,
   confidence : 0 .. 100, reward : Nat, pop : Int \cup {None}, dte : Int \cup {None},
   width : Int \cup {None}, interest : Int \cup {None}, size : Int]

Margins ==
  [worth : Int, maintenance : Int, excess : Int, critical : Int, stale : BOOLEAN]

\* What is known of the day, the mode and the account.
ContextRecords ==
  [killed : BOOLEAN, now : [weekday : Nat, holiday : BOOLEAN, minute : Nat],
   mode : {"conservative", "balanced", "aggressive", "scalper"}, trades : Nat,
   health : {"healthy", "degraded", None},
   status : [allowed : BOOLEAN, mode : Modes, rule : Rules],
   account : {"paper", "live", None}, paperConfigured : BOOLEAN,
   needDays : Nat, needTrades : Nat, paperDays : Nat \cup {None}, paperTrades : Nat,
   margin : Margins \cup {None}]

\* What the modules that use this one have to assume.
GateConstants ==
  /\ Signals \subseteq SignalRecords /\ Contexts \subseteq ContextRecords
  /\ None \notin Int /\ None # "degraded"

VARIABLES signal, context, verdict

vars == <<signal, context, verdict>>

TradingModes == <<"conservative", "balanced", "aggressive", "scalper">>

\* MODE_RULES: what each trading mode asks of a signal.
ModeRules ==
  [conservative |-> [cap |-> 1,  confidence |-> 90, risk |-> 20, pop |-> 75],
   balanced     |-> [cap |-> 5,  confidence |-> 90, risk |-> 20, pop |-> 75],
   aggressive   |-> [cap |-> 10, confidence |-> 70, risk |-> 40, pop |-> 65],
   scalper      |-> [cap |-> 40, confidence |-> 60, risk |-> 60, pop |-> 0]]

\* STRATEGY_MIN_POP: sold premium needs a high win rate in every mode.
StrategyPop(strategy) ==
  IF strategy \in {"bull_put_spread", "bear_call_spread", "iron_condor"}
  THEN 70 ELSE 0

-----------------------------------------------------------------------------
(* The clock.                                                              *)

Opens  == 9 * 60 + 30
Closes == 16 * 60

\* is_market_open, on a weekday (Monday is 0), a holiday mark and a minute.
MarketOpen(now) ==
  now.weekday < 5 /\ ~now.holiday /\ Opens <= now.minute /\ now.minute < Closes

MinutesToClose(now) == IF MarketOpen(now) THEN Closes - now.minute ELSE None

-----------------------------------------------------------------------------
(* The trade frequency controller.                                         *)

\* Times 100.  A reward:risk below one to one adds to the risk; one of zero,
\* which also stands for an unknown one, does not.
RiskTimes100(s) ==
  (100 - s.confidence) * 100
    + (IF 0 < s.reward /\ s.reward < 100 THEN (100 - s.reward) * 15 ELSE 0)

RiskScore(s) == (RiskTimes100(s) + 50) \div 100

\* Times 100: what a dollar at risk is expected to earn.
ExpectedValue(s) == s.confidence * s.reward - (100 - s.confidence) * 100

\* mutant of FrequencyRefuses: the value filter is left to the risk score.
FrequencyRefusesOnRisk(s, c) ==
  LET rule == ModeRules[c.mode]
  IN  \/ c.trades >= rule.cap
      \/ s.confidence < rule.confidence
      \/ RiskScore(s) > rule.risk

\* evaluate(): daily cap, confidence, probability of profit, risk, value.
FrequencyRefuses(s, c) ==
  LET rule  == ModeRules[c.mode]
      floor == IF rule.pop > StrategyPop(s.strategy) THEN rule.pop
               ELSE StrategyPop(s.strategy)
  IN  \/ c.trades >= rule.cap
      \/ s.confidence < rule.confidence
      \/ s.pop # None /\ s.pop < floor
      \/ RiskScore(s) > rule.risk
      \/ ExpectedValue(s) <= 0

-----------------------------------------------------------------------------
(* The guards before submission.                                           *)

\* verify_account_mode: an account that cannot be told is refused too.
AccountRefuses(c) ==
  \/ c.account = None
  \/ c.paperConfigured # (c.account = "paper")

\* check_live_tenure: live capital needs days and finished trades on paper.
TenureRefuses(c) ==
  /\ ~c.paperConfigured
  /\ c.needDays > 0 \/ c.needTrades > 0
  /\ \/ c.paperDays = None
     \/ c.paperDays < c.needDays
     \/ c.paperTrades < c.needTrades

\* The margin guard: only a fresh reading that is critical refuses.
MarginRefuses(c) ==
  LET m == c.margin
      used == IF m.worth > 0 THEN (m.maintenance * 100) \div m.worth
              ELSE IF m.maintenance > 0 THEN 100 ELSE 0
  IN  /\ m # None /\ ~m.stale
      /\ (m.excess <= 0 /\ m.maintenance > 0) \/ used >= m.critical

-----------------------------------------------------------------------------
(* The pipeline.                                                           *)

Options(s) == s.asset = "options"

\* A person chose the order: typed it, or composed it on the equity desk.
ManualSource(s) == s.approver = "manual" \/ s.composer

\* An option that expires today or tomorrow is not for autopilot.
SameDayRefuses(s) ==
  Options(s) /\ s.approver = "autopilot" /\ s.dte # None /\ s.dte <= 1

LiquidityRefuses(s, c) ==
  /\ Options(s)
  /\ \/ s.width # None /\ s.width > 15
     \/ s.interest # None /\ s.interest < 50
     \/ /\ s.dte # None /\ s.dte <= 1
        /\ MinutesToClose(c.now) # None /\ MinutesToClose(c.now) < 30

\* The gates that would refuse, whichever comes first.  A signal without a
\* strategy is asked neither for its strategy's health nor whether capital
\* preservation allows it.
Refusing(s, c) ==
  {g \in {"kill_switch", "hours", "same_day", "liquidity", "frequency",
          "health", "guardrail", "strategy", "size", "account", "tenure",
          "margin"} :
     CASE g = "kill_switch" -> c.killed
       [] g = "hours"       -> ~MarketOpen(c.now)
       [] g = "same_day"    -> SameDayRefuses(s)
       [] g = "liquidity"   -> LiquidityRefuses(s, c)
       [] g = "frequency"   -> ~ManualSource(s) /\ FrequencyRefuses(s, c)
       [] g = "health"      -> /\ ~ManualSource(s) /\ s.strategy # ""
                               /\ c.health = "degraded"
       [] g = "guardrail"   -> ~c.status.allowed
       [] g = "strategy"    -> /\ s.strategy # "" /\ c.status.allowed
                               /\ ~StrategyAllowed(s.strategy, c.status)
       [] g = "size"        -> s.size <= 0
       [] g = "account"     -> AccountRefuses(c)
       [] g = "tenure"      -> TenureRefuses(c)
       [] g = "margin"      -> MarginRefuses(c)}

Passes(s, c) == Refusing(s, c) = {}

Init ==
  /\ signal \in Signals /\ context \in Contexts
  /\ verdict = "undecided"

\* The signal runs through the gates.
Decide ==
  /\ verdict = "undecided"
  /\ verdict' = IF Passes(signal, context) THEN "passes" ELSE "refused"
  /\ UNCHANGED <<signal, context>>

Next == Decide

Spec == Init /\ [][Next]_vars

-----------------------------------------------------------------------------
(* Properties.                                                             *)

TypeOK == verdict \in {"undecided", "passes", "refused"}

Passed == verdict = "passes"

Grades == {<<g.confidence, g.reward, g.pop>> : g \in Signals}

(***************************************************************************)
(* What passes still passes when something changes in its favour, though   *)
(* twelve gates with their own tables and defaults are asked: in a looser  *)
(* mode, whichever of its limits is the one that counts; when a person     *)
(* approves it or enters it by hand; when a reading that may be missing is *)
(* missing; and when the signal is a better one, though the risk score     *)
(* jumps up where an unknown reward becomes a small known one.             *)
(***************************************************************************)
PassSurvivesHelp ==
  Passed =>
    /\ \A i, j \in DOMAIN TradingModes :
         i <= j /\ context.mode = TradingModes[i] =>
           Passes(signal, [context EXCEPT !.mode = TradingModes[j]])
    /\ signal.approver = "autopilot" => Passes([signal EXCEPT !.approver = "copilot"], context)
    /\ Passes([signal EXCEPT !.approver = "manual"], context)
    /\ \A without \in SUBSET {"dte", "width", "interest", "pop"} :
         Passes([f \in DOMAIN signal |-> IF f \in without THEN None ELSE signal[f]], context)
    /\ Passes(signal, [context EXCEPT !.health = None])
    /\ Passes(signal, [context EXCEPT !.margin = None])
    /\ \A g \in Grades :
         /\ g[1] >= signal.confidence /\ g[2] >= signal.reward
         /\ (signal.pop = None) = (g[3] = None)
         /\ signal.pop # None => g[3] >= signal.pop
         => Passes([signal EXCEPT !.confidence = g[1], !.reward = g[2], !.pop = g[3]],
                   context)
=============================================================================
