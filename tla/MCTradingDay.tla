---------------------------- MODULE MCTradingDay ----------------------------
(***************************************************************************)
(* The trade table, the scans, the rehearsal of a rotation, the close of a *)
(* spread and a backtest, side by side.  They share no state here, so a    *)
(* behaviour is a behaviour of one of them, its subject; the variables of  *)
(* the others keep one of their initial values.                            *)
(***************************************************************************)
EXTENDS TradeLedger, TLC

CONSTANTS None,
          MaxDailyLoss, MaxWeeklyLoss, MaxMonthlyLoss, MaxDrawdown, MaxStreak,
          MaxTrades, Preservation,
          Tickers, Features, Markets, Quotes, Accounts, Verdicts,
          Required, RegimeMaxAge, SignalMaxAge, MaxRestarts,
          Requests, MaxContracts,
          TableRows, Facts, Symbols, Pool, Challengers, OpenPnls, Value, MaxShares,
          Floor, Margin, MaxHeat,
          Limits, BacktestKinds, Capital, Pnls, Gaps, Life, LastDay, DaysPerWeek,
          DaysPerMonth, MaxHeld, MaxBreaks

ASSUME SpreadAssumption == MaxContracts \in Nat \ {0}

VARIABLES
  subject,
  force, steady, at, boot, view, equity, newest, stage, found, routed, tape,
  overlapped, restarts,
  open, shares, contracts, resting, rehearsal, changed,
  row, spread, request, orders, crossed, moved,
  kind, task, run, saved, walk, breaks

scanVars     == <<force, steady, at, boot, view, equity, newest, stage, found,
                  routed, tape, overlapped, restarts>>
rotationVars == <<open, shares, contracts, resting, rehearsal, changed>>
spreadVars   == <<row, spread, request, orders, crossed, moved>>
backtestVars == <<kind, task, run, saved, walk, breaks>>

Symmetry == Permutations(Rows)

-----------------------------------------------------------------------------
(* One ticker, in three kinds of weather.                                  *)

Reading(vix, rank, adx) ==
  [vix |-> vix, rank |-> rank, adx |-> adx, rsi |-> 50, move |-> 0,
   volOfVol |-> 10, backwardation |-> FALSE]

Quote(amount, width) == [amount |-> amount, width |-> width]

MCFeatures == {Reading(45, 50, 15), Reading(18, 40, 15), Reading(30, 70, 30)}

MCMarkets ==
  {[rank |-> 40, rsi |-> r, adx |-> 15, vix |-> 18, above |-> r > 50] : r \in {40, 60}}

MCQuotes ==
  {[live |-> None, listed |-> None, theory |-> Quote(100, 10)],
   [live |-> Quote(150, 10), listed |-> None, theory |-> Quote(100, 10)],
   [live |-> None, listed |-> Quote(120, 0), theory |-> Quote(100, 10)]}

MCAccounts ==
  {[value |-> 100000, risk |-> 2, scalar |-> 100, readable |-> b, cappable |-> TRUE,
    rows |-> {[own |-> TRUE, peer |-> TRUE, risk |-> 24000],
              [own |-> FALSE, peer |-> TRUE, risk |-> 6000]}] : b \in BOOLEAN}

MCVerdicts ==
  {[allowed |-> TRUE, mode |-> "normal", rule |-> "none"],
   [allowed |-> FALSE, mode |-> "suspended", rule |-> "daily_loss_limit"]}

S == INSTANCE Scans WITH Statuses <- Verdicts

ASSUME ScansAssumption == S!ScansConstants

-----------------------------------------------------------------------------
(* An equity row and a put spread; a bracket's stop and one without its    *)
(* parent; a challenger that wins and one that does not.                   *)

Fact(symbol, sort, quality, flagged, confidence, born) ==
  [symbol |-> symbol, kind |-> sort, quality |-> quality, flagged |-> flagged,
   confidence |-> confidence, born |-> born, entry |-> 50]

Protective(symbol, parent, price) ==
  [symbol |-> symbol, protective |-> TRUE, parent |-> parent, price |-> price]

Challenger(alpha, confidence) ==
  [symbol |-> "c", alpha |-> alpha, quality |-> None, confidence |-> confidence,
   liquid |-> TRUE, flagged |-> None]

MCFacts == ("r1" :> Fact("a", "equity_long", 40, None, 70, 1))
           @@ ("r2" :> Fact("b", "put", None, TRUE, 60, 2))

MCPool == ("o1" :> Protective("a", TRUE, 45)) @@ ("o2" :> Protective("b", FALSE, 48))

MCChallengers == {Challenger(90, 85), Challenger(60, 60)}

MCOpenPnls == {-5, 5}

R == INSTANCE Rotation
       WITH Rows <- TableRows, Pnls <- OpenPnls, run <- rehearsal, moved <- changed

ASSUME RotationAssumption == R!RotationConstants

C == INSTANCE SpreadClose WITH legs <- spread, working <- orders

\* The limits of the guardrails in percent, streak and trades as counts.
MCLimits == [daily |-> 10, weekly |-> 15, monthly |-> 20, drawdown |-> 50, streak |-> 2,
             trades |-> 2]

MCPnls == {-6, 5}

B == INSTANCE Backtests
       WITH MaxDailyLoss <- Limits.daily, MaxWeeklyLoss <- Limits.weekly,
            MaxMonthlyLoss <- Limits.monthly, MaxDrawdown <- Limits.drawdown,
            MaxStreak <- Limits.streak, MaxTrades <- Limits.trades

ASSUME BacktestAssumption == B!BacktestConstants

-----------------------------------------------------------------------------

Subjects == {"ledger", "scans", "rotation", "spread", "backtest"}

\* One initial value for each component that is not the subject.
SumInit ==
  /\ subject \in Subjects
  /\ Init /\ S!Init
  /\ IF subject = "rotation" THEN R!Init
     ELSE /\ open = [r \in TableRows |-> 0] /\ shares = [s \in Symbols |-> 0]
          /\ contracts = 0 /\ resting = {} /\ rehearsal = R!Idle /\ changed = FALSE
  /\ C!Init /\ (subject = "spread" \/ (row = 1 /\ spread = [short |-> 0, long |-> 0]))
  /\ B!Init /\ (subject = "backtest" \/ kind = "equity")

\* The subject takes a step.
SumNext ==
  \/ /\ subject = "ledger"
     /\ UNCHANGED <<subject, scanVars, rotationVars, spreadVars, backtestVars>>
     /\ Next
  \/ /\ subject = "scans"
     /\ UNCHANGED <<subject, vars, rotationVars, spreadVars, backtestVars>>
     /\ S!Next
  \/ /\ subject = "rotation"
     /\ UNCHANGED <<subject, vars, scanVars, spreadVars, backtestVars>>
     /\ R!Next
  \/ /\ subject = "spread"
     /\ UNCHANGED <<subject, vars, scanVars, rotationVars, backtestVars>>
     /\ C!Next
  \/ /\ subject = "backtest"
     /\ UNCHANGED <<subject, vars, scanVars, rotationVars, spreadVars>>
     /\ B!Next

sumVars == <<subject, vars, scanVars, rotationVars, spreadVars, backtestVars>>

SumSpec == SumInit /\ [][SumNext]_sumVars

-----------------------------------------------------------------------------
(* The properties of the modules; the action properties of TradeLedger are *)
(* checked as they are.                                                    *)

\* The type invariants.
AllTyped ==
  /\ subject = "ledger" => TypeOK
  /\ subject = "scans" => S!TypeOK
  /\ subject = "rotation" => R!TypeOK
  /\ subject = "spread" => C!TypeOK
  /\ subject = "backtest" => B!TypeOK

\* TradeLedger, SpreadClose: turning a position or a leg around takes two
\* closes, a fill or a lost leg in the middle of one.
NoReversalWithoutARace ==
  /\ subject = "ledger" => ReversalTakesARace
  /\ subject = "spread" => C!ReversalTakesARace

\* Scans: after a crisis nothing is handed over before it is over.
CrisisIsHeeded == subject = "scans" => S!CrisisIsHeeded

\* Scans: a spread against its equity signal takes overlapping scans.
ConflictTakesOverlap == S!ConflictTakesOverlap

\* Scans: the classifier's "NOTHING trades in crisis".
NothingTradesInCrisis == S!NothingTradesInCrisis

\* Rotation and Backtests: a rehearsal under a clear preflight says what would
\* happen; the pause of a backtest after a losing streak ends, and a row that never
\* says how its run ended takes a break.
RehearsalsHold ==
  /\ subject = "rotation" => R!ClearRehearsalIsExact
  /\ subject = "backtest" => B!PauseEnds /\ B!StaleRowTakesABreak
=============================================================================
