---------------------------- MODULE MCSignalPath ---------------------------
(***************************************************************************)
(* The parts that decide about a signal and keep its record, side by side. *)
(* They share no state, so a behaviour is a behaviour of one of them, its  *)
(* subject; the variables of the others keep one of their initial values.  *)
(***************************************************************************)
EXTENDS EntryLimits, TLC

CONSTANTS Polls, Worths, Figures, MaxChanges, MaxFaults, None,
          Signals, Contexts,
          Live, Dead, Logged, Tables, Handed, DayBars, Hold, FlushEvery, Budget, MaxDay,
          Stocks, StockSector, Plans, AccountWorths, GlobalMax, ModeMax, Adoptions,
          Sorted, Books, Links, Fetched, Capitals, MaxShare, ClusterStale, SectorStale,
          Watchlist, SectorOf, Fallback,
          Ranked, Actions, Scores, TopN, Weekend, LastDay, MaxRows,
          TradeRows, EntryPrice, Quotes, TradePlans, OptionMarks, MaxHeld, MaxFills, MaxMoves

VARIABLES subject,
          account, poll, peak, peakCache, log, signature, changes, faults,
          overlapped, repeated,
          signal, context, verdict,
          book, worth,
          today, bars, outcome, pass, missed, partial, kept,
          risk, clusters, basis, refresh, sectors,
          date, hour, table, frozen, capture,
          market, holding, option, fills, trade, missing, moves, own, mixed

monitorVars   == <<account, poll, peak, peakCache, log, signature, changes,
                   faults, overlapped, repeated>>
gateVars      == <<signal, context, verdict>>
portfolioVars == <<book, worth>>
outcomeVars   == <<today, bars, outcome, pass, missed, partial, kept>>
cacheVars     == <<risk, clusters, basis, refresh, sectors>>
snapshotVars  == <<date, hour, table, frozen, capture>>
excursionVars == <<market, holding, option, fills, trade, missing, moves, own, mixed>>

MCValues == {80, 100}
MCPnls   == {-3, 1}

-----------------------------------------------------------------------------
(* The status route.                                                       *)

MCWorths == {80, 150}

MCFigures ==
  {[daily |-> 0,  weekly |-> 0,  monthly |-> 0,  streak |-> 0, trades |-> 0],
   [daily |-> -5, weekly |-> -5, monthly |-> -5, streak |-> 1, trades |-> 0]}

M == INSTANCE GuardrailMonitor

ASSUME MonitorAssumption == M!MonitorConstants

-----------------------------------------------------------------------------
(* The gates of one signal.                                                *)

MCSignals ==
  LET all == [asset : {"options"}, approver : {"manual", "copilot", "autopilot"},
              composer : {FALSE}, strategy : {"bull_put_spread", "iron_condor"},
              confidence : {65, 75, 92}, reward : {0, 5, 60, 400},
              pop : {None, 60, 72, 80}, dte : {None, 0, 5},
              width : {None, 20}, interest : {80}, size : {1}]
      shares == [asset : {"equity"}, approver : {"manual", "copilot", "autopilot"},
                 composer : BOOLEAN, strategy : {"", "equity_momentum"},
                 confidence : {65, 92}, reward : {0, 150}, pop : {None},
                 dte : {None}, width : {None}, interest : {None}, size : {0, 1}]
  IN  {s \in all : s.pop # 60 \/ s.strategy = "iron_condor"} \cup shares

Noon  == [weekday |-> 2, holiday |-> FALSE, minute |-> 720]
Usual ==
  [killed |-> FALSE, now |-> Noon, mode |-> "aggressive", trades |-> 0,
   health |-> "healthy",
   status |-> [allowed |-> TRUE, mode |-> "normal", rule |-> "none"],
   account |-> "paper", paperConfigured |-> TRUE, needDays |-> 90,
   needTrades |-> 20, paperDays |-> None, paperTrades |-> 0,
   margin |-> [worth |-> 100, maintenance |-> 40, excess |-> 60,
               critical |-> 80, stale |-> FALSE]]

\* The usual circumstances, and the ways in which one of them may differ.
MCContexts ==
  {[Usual EXCEPT !.mode = m, !.trades = n] :
     m \in {"conservative", "balanced", "aggressive", "scalper"}, n \in {0, 4, 20}}
  \cup {[Usual EXCEPT !.now.minute = 945], [Usual EXCEPT !.now.minute = 960],
        [Usual EXCEPT !.health = "degraded"], [Usual EXCEPT !.killed = TRUE],
        [Usual EXCEPT !.status = [allowed |-> TRUE, rule |-> "capital_preservation_mode",
                                  mode |-> "capital_preservation"]],
        [Usual EXCEPT !.account = "live"], [Usual EXCEPT !.account = None],
        [Usual EXCEPT !.account = "live", !.paperConfigured = FALSE],
        [Usual EXCEPT !.account = "live", !.paperConfigured = FALSE,
                      !.paperDays = 120, !.paperTrades = 30],
        [Usual EXCEPT !.margin.maintenance = 85],
        [Usual EXCEPT !.margin.maintenance = 85, !.margin.stale = TRUE]}

G == INSTANCE EntryGates

ASSUME GatesAssumption == G!GateConstants

-----------------------------------------------------------------------------
(* The portfolio gate and its book.                                        *)

MCSectors == ("a" :> "Tech") @@ ("b" :> "Tech") @@ ("c" :> "Unknown")

Plan(kind, price, stop, quantity, width, maxLoss) ==
  [kind |-> kind, price |-> price, stop |-> stop, quantity |-> quantity,
   width |-> width, maxLoss |-> maxLoss]

\* A stop, none, one on the wrong side; a credit spread and a debit spread.
MCPlans ==
  {Plan("equity_long", 50, 40, 2, 0, 0), Plan("equity_long", 10, None, 1, 0, 0),
   Plan("equity_short", 50, 45, 1, 0, 0), Plan("spread", 5, None, 2, 15, 10),
   Plan("spread", -6, None, 1, 15, 6)}

MCAdoptions == {[price |-> 15, quantity |-> 1]}

P == INSTANCE PortfolioLimits
       WITH Tickers <- Stocks, SectorOf <- StockSector, Worths <- AccountWorths

ASSUME PortfolioAssumption == P!PortfolioConstants

-----------------------------------------------------------------------------
(* The record of signals: one pending signal of a ticker that has lost its *)
(* prices, two of others.                                                  *)

Move(up, down) == [up |-> up, down |-> down]

Pending(t, action, born) ==
  [ticker |-> t, action |-> action, born |-> born, status |-> "pending",
   days |-> None, mfe |-> None, full |-> None, window |-> None]

MCTables ==
  {("r1" :> Pending("z", "BUY", 0)) @@ ("r2" :> Pending("a", "BUY", 0))
   @@ ("r3" :> Pending("b", "SELL", 1))}

MCHanded == {[ticker |-> "a", action |-> "BUY"]}
MCBars   == {Move(0, 0), Move(2, 0), Move(0, 1), Move(1, 1)}

R == INSTANCE SignalOutcomes
       WITH Rows <- Logged, Signals <- Handed, Bars <- DayBars,
            row <- outcome, faults <- missed

ASSUME OutcomeAssumption == R!OutcomeConstants

-----------------------------------------------------------------------------
(* The caches of sectors and clusters: shares alone, shares with options   *)
(* beside them, and both; a series that is too short, missing or of other  *)
(* days.                                                                   *)

AtRisk(e, o) == [equity |-> e, options |-> o]

MCBooks ==
  {("a" :> AtRisk(25, 0)) @@ ("b" :> AtRisk(25, 0)) @@ ("c" :> AtRisk(25, 0)),
   ("a" :> AtRisk(25, 0)) @@ ("b" :> AtRisk(25, 0)) @@ ("c" :> AtRisk(0, 20)),
   ("a" :> AtRisk(0, 0)) @@ ("b" :> AtRisk(20, 0)) @@ ("c" :> AtRisk(10, 20))}

Series(t, what) == [u \in {"a", "b", "c"} |-> IF u = t THEN what ELSE "bars"]

MCSorted  == <<"a", "b", "c">>
MCLinks   == {{{"a", "b"}, {"a", "c"}}, {{"b", "c"}}}
MCFetched == {Series("a", "bars"), Series("a", "short"), Series("a", None),
              Series("c", "other days")}

MCSectorOf == ("a" :> "Tech") @@ ("b" :> "Tech") @@ ("c" :> "none")
MCFallback == ("a" :> "Tech") @@ ("c" :> "Index")

K == INSTANCE RiskCaches

ASSUME CacheAssumption == K!CacheConstants

-----------------------------------------------------------------------------
(* The record of the day's best: a Sunday and a Monday.                    *)

MCRanked == <<"x", "y">>

D == INSTANCE DailySnapshot WITH MaxDay <- LastDay, day <- date

ASSUME SnapshotAssumption == D!SnapshotConstants

-----------------------------------------------------------------------------

(* What is measured of trades: a row with both levels, one with neither in *)
(* its place, a short one and a spread.                                    *)

Levels(k, stop, target) == [kind |-> k, stop |-> stop, target |-> target]

MCTradePlans ==
  {Levels("equity_long", 3960, 4080), Levels("equity_long", 4000, 3900),
   Levels("equity_short", 4040, 3960), Levels("put", None, None)}

E == INSTANCE Excursions
       WITH Rows <- TradeRows, Entry <- EntryPrice, Prices <- Quotes, Plans <- TradePlans,
            Marks <- OptionMarks, MaxShares <- MaxHeld, price <- market,
            shares <- holding, row <- trade

ASSUME ExcursionAssumption == E!ExcursionConstants

-----------------------------------------------------------------------------

sumVars ==
  <<subject, vars, monitorVars, gateVars, portfolioVars, outcomeVars, cacheVars,
    snapshotVars, excursionVars>>

Subjects ==
  {"limits", "monitor", "gates", "portfolio", "outcomes", "caches", "snapshot", "excursions"}

SumInit ==
  /\ subject \in Subjects
  /\ Init
  /\ M!Init /\ (subject = "monitor" \/ account = [book |-> M!Zeros, worth |-> 80])
  /\ P!Init /\ (subject = "portfolio" \/ worth = 100)
  /\ verdict = "undecided"
  /\ IF subject = "gates" THEN signal \in Signals /\ context \in Contexts
     ELSE signal = None /\ context = None
  /\ R!Init /\ (subject = "outcomes" \/ bars = <<Move(0, 0)>>)
  /\ K!Init /\ (subject = "caches" \/ risk = CHOOSE b \in Books : TRUE)
  /\ D!Init /\ E!Init

\* The subject takes a step.
SumNext ==
  \/ /\ subject = "limits"
     /\ UNCHANGED <<subject, monitorVars, gateVars, portfolioVars, outcomeVars,
                      cacheVars, snapshotVars, excursionVars>>
     /\ Next
  \/ /\ subject = "monitor"
     /\ UNCHANGED <<subject, vars, gateVars, portfolioVars, outcomeVars,
                      cacheVars, snapshotVars, excursionVars>>
     /\ M!Next
  \/ /\ subject = "gates"
     /\ UNCHANGED <<subject, vars, monitorVars, portfolioVars, outcomeVars,
                      cacheVars, snapshotVars, excursionVars>>
     /\ G!Next
  \/ /\ subject = "portfolio"
     /\ UNCHANGED <<subject, vars, monitorVars, gateVars, outcomeVars,
                      cacheVars, snapshotVars, excursionVars>>
     /\ P!Next
  \/ /\ subject = "outcomes"
     /\ UNCHANGED <<subject, vars, monitorVars, gateVars, portfolioVars,
                      cacheVars, snapshotVars, excursionVars>>
     /\ R!Next
  \/ /\ subject = "caches"
     /\ UNCHANGED <<subject, vars, monitorVars, gateVars, portfolioVars, outcomeVars,
                      snapshotVars, excursionVars>>
     /\ K!Next
  \/ /\ subject = "snapshot"
     /\ UNCHANGED <<subject, vars, monitorVars, gateVars, portfolioVars, outcomeVars,
                      cacheVars, excursionVars>>
     /\ D!Next
  \/ /\ subject = "excursions"
     /\ UNCHANGED <<subject, vars, monitorVars, gateVars, portfolioVars, outcomeVars,
                      cacheVars, snapshotVars>>
     /\ E!Next

SumFairness ==
  /\ \A p \in Polls : WF_monitorVars(subject = "monitor" /\ M!Progress(p))
  /\ WF_outcomeVars(subject = "outcomes" /\ R!Progress)

SumSpec ==
  /\ SumInit
  /\ [][SumNext]_sumVars
  /\ SumFairness

-----------------------------------------------------------------------------
(* The properties of the modules, under their own names.                   *)

\* The type invariants.
AllTyped ==
  /\ subject = "limits" => TypeOK
  /\ subject = "monitor" => M!TypeOK
  /\ subject = "gates" => G!TypeOK
  /\ subject = "portfolio" => P!TypeOK
  /\ subject = "outcomes" => R!TypeOK
  /\ subject = "caches" => K!TypeOK
  /\ subject = "snapshot" => D!TypeOK
  /\ subject = "excursions" => E!TypeOK

\* GuardrailMonitor and DailySnapshot: only overlapping polls can lower the
\* persisted peak, and the record of a day is made in that day and then stays.
PeakLossTakesARace == M!PeakLossTakesARace /\ D!Immutable

\* EntryGates: what passes still passes when something changes in its favour.
PassSurvivesHelp == subject = "gates" => G!PassSurvivesHelp

\* PortfolioLimits and RiskCaches: an admission leaves the measured book within
\* the limits, and the sector it is measured by is lost only with the cache.
AdmissionKeepsLimits == P!AdmissionKeepsLimits /\ K!SectorSticks

\* GuardrailMonitor, SignalOutcomes, RiskCaches, DailySnapshot and Excursions:
\* only overlapping polls can repeat an event, a label is what the finished bars
\* say, a cached yes or no is that of the clusters' definition, the record of the
\* day's best uses no hindsight, and a trade's excursion and exit are its own.
RecordsAreTrue ==
  /\ subject = "monitor" => M!RepeatTakesARace
  /\ subject = "outcomes" => R!WrongLabelTakesARunningBar
  /\ subject = "caches" => K!CachesHold
  /\ subject = "snapshot" => D!NoHindsight
  /\ subject = "excursions" => E!TradesAreMeasured

\* SignalOutcomes, as signal_outcome_tracker.py has it: each signal has its row.
EverySignalIsKept == subject = "outcomes" => R!EverySignalIsKept

\* GuardrailMonitor and SignalOutcomes: in the end the newest event names the
\* account's rule, and every signal whose time is up has its label.
RecordsCatchUp ==
  <>[](/\ subject = "monitor" => M!LogAgrees
       /\ subject = "outcomes" => R!AllLabelled)
=============================================================================
