----------------------------- MODULE MCServices -----------------------------
(***************************************************************************)
(* The services around the order path, side by side: the execution mode,   *)
(* one order call, the gateway coordinator, the live feed, login sessions, *)
(* the backfill of stops and the background loop; and the parts of the     *)
(* desk: research, health, share and preset of a strategy, the account     *)
(* values, the cancelling of orders, the scoring of equities and of        *)
(* spreads, the booking of spreads and the outcome statistics.  They share *)
(* no state, so a behaviour is a behaviour of one of them, its subject;    *)
(* the variables of the others keep one initial value.                     *)
(***************************************************************************)
EXTENDS ExecutionMode, Integers

CONSTANTS Qty, MaxRetries,
          Callers, Jobs, Keys, Workers, Reserved,
          Clients, FeedKeys, Unreadable,
          Tokens, Requests, MaxAttempts, Window, MaxTime, MaxFaults,
          Rows, Legs, Prices, MaxQty, MaxMoves,
          LoopTasks, Interval, Guard, Patience,
          Direct, AccountWorkers, StaleAfter,
          Ids, OrderSymbol, OrderSec, Opens, MaxTurns,
          Sizes, Credits, Aggression, Gain, RetryStep, ClosePrices, Holdings, Grace,
          LabRequests, Backtests, Walks, Perfs, Floor, LabMoves,
          Pnls, Baseline, Promotable, MinSample, HealthWindow, Capital, MaxTrades,
          Names, Scores, Standing, CapNum, CapDen,
          Setters, DailyCap, MaxSets,
          Readings, Quotations, Worth, StopAtr, TargetAtr, MinConfidence,
          Spreads, RorThreshold, ProbThreshold, Band, MaxSwaps,
          Signals, DayBars, Targets, HoldDays

\* What the loop does and when, in steps of the sleep between two passes.
MCInterval == [reconnect |-> 4, equity |-> 8, fills |-> 2, reconciliation |-> 5, backfill |-> 5]
MCGuard    == [reconnect |-> 2, equity |-> 6, fills |-> 1, reconciliation |-> 2, backfill |-> 3]

ASSUME OrderAssumption == Qty \in Nat \ {0} /\ MaxRetries \in Nat

ASSUME PoolAssumption == Reserved \subseteq Workers

ASSUME SessionAssumption ==
  MaxAttempts \in Nat /\ Window \in Nat \ {0} /\ MaxTime \in Nat

ASSUME StopAssumption == IsFiniteSet(Legs) /\ Prices \subseteq Int /\ MaxQty \in Nat

VARIABLES
  subject,
  kind, market, at, attempt, seen, result, reported, state, dying, filled, late,
  caller, job, queue, worker, inFlight,
  subs, active, client, paused, loop, sweep, churned, misread,
  userRow, enabled, login, logout, visit, log, now, faults, told, admitted, let,
  position, leg, stops, pass, reads, moves, moved,
  exp, pending, approved, atOnce,
  closed, promoted, endorsed, streakStop,
  card, sanctioned, weights,
  preset, logged, setting, latest, confirmed, unsure, read, midway, today, sets,
  up, stream, filledIn, lastPush, pushed, subscribed, trying, reader, answer, outlived,
  live, held, step, asked, orders, names, report, stripped, crossed, turns,
  soon, earnings, reading, signal, cleared,
  artifact, scorer, shown, doubt, score, swaps,
  path, outcome,
  plan, beside, ticket, lost, tracked, contracts, closes, mixed, missed, cash, booked,
  running, length, age, spent, beat, crisis

orderVars   == <<kind, market, at, attempt, seen, result, reported, state, dying,
                 filled, late>>
poolVars    == <<caller, job, queue, worker, inFlight>>
feedVars    == <<subs, active, client, paused, loop, sweep, churned, misread>>
sessionVars == <<userRow, enabled, login, logout, visit, log, now, faults, told,
                 admitted, let>>
stopVars    == <<position, leg, stops, pass, reads, moves, moved>>
taskVars    == <<running, length, age, spent, beat, crisis>>
labVars     == <<exp, pending, approved, atOnce>>
healthVars  == <<closed, promoted, endorsed, streakStop>>
shareVars   == <<card, sanctioned, weights>>
modeVars    == <<preset, logged, setting, latest, confirmed, unsure, read, midway,
                 today, sets>>
accountVars == <<up, stream, filledIn, lastPush, pushed, subscribed, trying, reader,
                 answer, outlived>>
cancelVars  == <<live, held, step, asked, orders, names, report, stripped, crossed, turns>>
equityVars  == <<soon, earnings, reading, signal, cleared>>
spreadVars  == <<artifact, scorer, shown, doubt, score, swaps>>
outcomeVars == <<path, outcome>>
ledgerVars  == <<plan, beside, ticket, lost, tracked, contracts, closes, mixed, missed, cash,
                 booked>>
deskVars    == <<labVars, healthVars, shareVars, modeVars, accountVars, cancelVars, equityVars,
                 spreadVars, outcomeVars, ledgerVars>>
sumVars     == <<subject, vars, orderVars, poolVars, feedVars, sessionVars, stopVars,
                 deskVars, taskVars>>

O == INSTANCE OrderRetry
C == INSTANCE Coordinator

ASSUME CoordinatorAssumption == C!NoneIsNothing

F == INSTANCE LiveFeed WITH Keys <- FeedKeys

ASSUME FeedAssumption == F!NoneIsNoSet

S == INSTANCE Sessions WITH row <- userRow, request <- visit
B == INSTANCE StopBackfill WITH row <- stops, at <- pass, seen <- reads
T == INSTANCE Scheduler WITH Tasks <- LoopTasks, Limit <- Patience

ASSUME LoopAssumption == T!TasksAreScheduled

\* Metrics that clear their gate and metrics that do not.
MCBacktests == {[ok |-> TRUE, dd |-> 3], [ok |-> FALSE, dd |-> 4]}
MCWalks     == {[ok |-> TRUE], [ok |-> FALSE]}
MCPerfs     == {[ok |-> TRUE, dd |-> 1], [ok |-> FALSE, dd |-> 2]}

Lab == INSTANCE ResearchLab
       WITH Requests <- LabRequests, MaxMoves <- LabMoves,
            moves <- approved, crossed <- atOnce

ASSUME LabAssumption == Lab!DrawdownsAreNumbers

\* Small and large losses and a gain; a baseline stricter on the streak and one laxer.
MCPnls       == {-6, -3, 9}
MCBaseline   == [win |-> 60, edge |-> 4, dd |-> 30, streak |-> 2]
MCPromotable == {[win |-> 50, edge |-> 2, dd |-> 40, streak |-> 6]}

Health == INSTANCE StrategyHealth
       WITH Outcomes <- Pnls, Default <- Baseline, Window <- HealthWindow,
            sanctioned <- endorsed

ASSUME HealthAssumption == Health!HealthConstants

\* Three strategies under a cap of two fifths: the cap binds for one or for two.
Shares == INSTANCE Allocation

ASSUME SharesAssumption == Shares!CapConstants

MCDailyCap == [conservative |-> 1, balanced |-> 2, aggressive |-> 3, scalper |-> 3]

Preset == INSTANCE TradingModes
       WITH mode <- preset, rows <- logged

ASSUME PresetAssumption == Preset!PresetConstants

ASSUME AccountAssumption == StaleAfter \in Nat /\ None \notin Nat

Account == INSTANCE AccountFeed
       WITH Workers <- AccountWorkers, Limit <- StaleAfter,
            filled <- filledIn, attempt <- trying, caller <- reader

\* Three orders of one ticker: an entry, the stop that guards its shares, and
\* an order that guards an option.
MCSymbols == <<"A", "A", "A">>
MCSecs    == <<"STK", "STK", "OPT">>

Cancels == INSTANCE OrderCancel
       WITH at <- step, book <- orders

\* Readings that agree with themselves: a crossing is a crossing of the MACD, and
\* the averages are aligned only with the 200-day one.
MCReadings ==
  {r \in [rsi : {0, 30, 50}, bands : {50, 95}, stoch : {50}, macd : {"bull", "none", "bear"},
          crossed : BOOLEAN, trend : {"bull", "bear"}, vwap : {"bull", "bear"},
          aligned : {"none", "bull", "bear"}, heavy : BOOLEAN, flow : {-2, 0, 1}] :
     /\ r.crossed => r.macd # "none"
     /\ r.aligned \in {"none", r.trend}
     /\ r.flow # 0 => ~r.crossed /\ ~r.heavy
     /\ r.rsi # 50 => r.bands = 50}

\* A rich spread and a poor one.
MCSpreads ==
  {[rank |-> 90, edge |-> 80, uptrend |-> TRUE, calm |-> 90, days |-> 35,
    credit |-> 90, vix |-> 20, model |-> [regressor |-> 30, classifier |-> 80]],
   [rank |-> 20, edge |-> 10, uptrend |-> FALSE, calm |-> 40, days |-> 10,
    credit |-> 30, vix |-> 40, model |-> [regressor |-> 14, classifier |-> 67]]}

MCQuotations == {[price |-> 100, atr |-> 5], [price |-> 10, atr |-> 1]}

Scoring == INSTANCE SignalScoring
       WITH Quotes <- Quotations, cache <- earnings, result <- score

ASSUME ScoringAssumption == Scoring!ScoringConstants

\* Days that touch the stop, a near target, a far one, both or nothing.
Daily(high, low, close) == [high |-> high, low |-> low, close |-> close]

MCDayBars == {Daily(1, 0, 1), Daily(1, -5, -1), Daily(3, -2, 1), Daily(3, 0, 3),
              Daily(5, -2, 3), Daily(5, 1, 3), Daily(-1, -3, -1)}

MCSignals == {[side |-> "BUY", target |-> 2], [side |-> "BUY", target |-> 4],
              [side |-> "SELL", target |-> 4]}

Outcomes == INSTANCE OutcomeStats
       WITH Bars <- DayBars, Candidates <- Targets, Hold <- HoldDays,
            bars <- path, row <- outcome

ASSUME OutcomesAssumption == Outcomes!OutcomeConstants

\* A credit, a debit and a signal without a price; a debit is placed once.
MCCredits == {10, 0, -6}

Booking == INSTANCE SpreadLedger
       WITH shares <- beside, row <- tracked, legs <- contracts, missing <- missed

ASSUME BookingAssumption == Booking!SpreadConstants

Subjects == {"mode", "order", "pool", "feed", "sessions", "stops", "tasks",
             "lab", "health", "shares", "modes", "account", "cancel",
             "equity", "options", "outcomes", "spreads"}

\* One initial value for each component that is not the subject.
SumInit ==
  /\ subject \in Subjects
  /\ Init /\ C!Init /\ F!Init /\ S!Init
  /\ O!Init /\ (subject = "order" \/ (kind = "combo" /\ market))
  /\ Lab!Init /\ Preset!Init
  /\ Health!Init /\ (subject = "health" \/ endorsed)
  /\ Account!Init /\ (subject = "account" \/ stream)
  /\ Scoring!EquityInit /\ (subject = "equity" \/ soon)
  /\ Scoring!OptionsInit /\ (subject = "options" \/ artifact = "missing")
  /\ Outcomes!Init
  /\ Booking!Init /\ (subject = "spreads" \/ (plan = [quantity |-> 1, credit |-> 0] /\ beside = 0))
  /\ IF subject = "shares" THEN Shares!Init /\ Standing \subseteq sanctioned
     ELSE card = <<>> /\ sanctioned = {} /\ weights = None
  /\ IF subject = "cancel" THEN Cancels!Init
     ELSE /\ live = {} /\ held = {} /\ step = "idle" /\ asked = {} /\ orders = {}
          /\ names = {} /\ report = <<>> /\ stripped = {} /\ crossed = {} /\ turns = 0
  /\ T!Init /\ (subject = "tasks" \/ (crisis /\ age["fills"] = 0))
  /\ IF subject = "stops" THEN B!Init
     ELSE /\ position = 0 /\ leg = [l \in Legs |-> None]
          /\ stops = [r \in Rows |-> [open |-> FALSE, side |-> "long", entry |-> 0,
                                      stop |-> B!NoStop]]
          /\ pass = "idle" /\ reads = B!Unread /\ moves = 0 /\ moved = FALSE

\* One of the parts of the desk, when it is the subject, takes a step.
DeskNext ==
  \/ /\ subject = "lab"
     /\ UNCHANGED <<healthVars, shareVars, modeVars, accountVars, cancelVars,
                    equityVars, spreadVars, outcomeVars,
                    ledgerVars>>
     /\ Lab!Next
  \/ /\ subject = "health"
     /\ UNCHANGED <<labVars, shareVars, modeVars, accountVars, cancelVars, equityVars,
                    spreadVars, outcomeVars, ledgerVars>>
     /\ Health!Next
  \/ /\ subject = "shares"
     /\ UNCHANGED <<labVars, healthVars, modeVars, accountVars, cancelVars, equityVars,
                    spreadVars, outcomeVars, ledgerVars>>
     /\ Shares!Next
  \/ /\ subject = "modes"
     /\ UNCHANGED <<labVars, healthVars, shareVars, accountVars, cancelVars, equityVars,
                    spreadVars, outcomeVars, ledgerVars>>
     /\ Preset!Next
  \/ /\ subject = "account"
     /\ UNCHANGED <<labVars, healthVars, shareVars, modeVars, cancelVars, equityVars,
                    spreadVars, outcomeVars, ledgerVars>>
     /\ Account!Next
  \/ /\ subject = "cancel"
     /\ UNCHANGED <<labVars, healthVars, shareVars, modeVars, accountVars, equityVars,
                    spreadVars, outcomeVars, ledgerVars>>
     /\ Cancels!Next
  \/ /\ subject = "equity"
     /\ UNCHANGED <<labVars, healthVars, shareVars, modeVars, accountVars, cancelVars,
                    spreadVars, outcomeVars, ledgerVars>>
     /\ Scoring!EquityNext
  \/ /\ subject = "options"
     /\ UNCHANGED <<labVars, healthVars, shareVars, modeVars, accountVars, cancelVars,
                    equityVars, outcomeVars, ledgerVars>>
     /\ Scoring!OptionsNext
  \/ /\ subject = "outcomes"
     /\ UNCHANGED <<labVars, healthVars, shareVars, modeVars, accountVars, cancelVars,
                    equityVars, spreadVars, ledgerVars>>
     /\ Outcomes!Next
  \/ /\ subject = "spreads"
     /\ UNCHANGED <<labVars, healthVars, shareVars, modeVars, accountVars, cancelVars,
                    equityVars, spreadVars, outcomeVars>>
     /\ Booking!Next

\* The subject takes a step.
SumNext ==
  \/ /\ subject = "mode"
     /\ UNCHANGED <<subject, orderVars, poolVars, feedVars, sessionVars, stopVars, deskVars,
                    taskVars>>
     /\ Next
  \/ /\ subject = "order"
     /\ UNCHANGED <<subject, vars, poolVars, feedVars, sessionVars, stopVars, deskVars,
                    taskVars>>
     /\ O!Next
  \/ /\ subject = "pool"
     /\ UNCHANGED <<subject, vars, orderVars, feedVars, sessionVars, stopVars, deskVars,
                    taskVars>>
     /\ C!Next
  \/ /\ subject = "feed"
     /\ UNCHANGED <<subject, vars, orderVars, poolVars, sessionVars, stopVars, deskVars,
                    taskVars>>
     /\ F!Next
  \/ /\ subject = "sessions"
     /\ UNCHANGED <<subject, vars, orderVars, poolVars, feedVars, stopVars, deskVars,
                    taskVars>>
     /\ S!Next
  \/ /\ subject = "stops"
     /\ UNCHANGED <<subject, vars, orderVars, poolVars, feedVars, sessionVars, deskVars,
                    taskVars>>
     /\ B!Next
  \/ /\ subject = "tasks"
     /\ UNCHANGED <<subject, vars, orderVars, poolVars, feedVars, sessionVars, stopVars,
                    deskVars>>
     /\ T!Next
  \/ /\ UNCHANGED <<subject, vars, orderVars, poolVars, feedVars, sessionVars, stopVars,
                    taskVars>>
     /\ DeskNext

\* The order call is resumed; workers poll for ever and their calls return,
\* except that nothing is assumed of batch jobs; the background loop goes on.
SumFairness ==
  /\ WF_orderVars(subject = "order" /\ O!CallStep)
  /\ \A w \in Workers :
       /\ WF_poolVars(subject = "pool" /\ C!Take(w))
       /\ WF_poolVars(subject = "pool" /\ C!Finish(w) /\ job[worker[w]].prio # 2)
  /\ WF_taskVars(subject = "tasks" /\ T!Next)

SumSpec ==
  /\ SumInit
  /\ [][SumNext]_sumVars
  /\ SumFairness

-----------------------------------------------------------------------------
(* The properties of the modules, under their own names.                   *)

\* The type invariants.
AllTyped ==
  /\ subject = "mode" => TypeOK
  /\ subject = "order" => O!TypeOK
  /\ subject = "pool" => C!TypeOK
  /\ subject = "feed" => F!TypeOK
  /\ subject = "sessions" => S!TypeOK
  /\ subject = "stops" => B!TypeOK
  /\ subject = "lab" => Lab!TypeOK
  /\ subject = "health" => Health!TypeOK
  /\ subject = "shares" => Shares!TypeOK
  /\ subject = "modes" => Preset!TypeOK
  /\ subject = "account" => Account!TypeOK
  /\ subject = "cancel" => Cancels!TypeOK
  /\ subject = "equity" => Scoring!EquityTypeOK
  /\ subject = "options" => Scoring!OptionsTypeOK
  /\ subject = "outcomes" => Outcomes!TypeOK
  /\ subject = "spreads" => Booking!TypeOK
  /\ subject = "tasks" => T!TypeOK

\* OrderRetry and Scheduler: every order call ends, for good, and so does every pass of
\* the background loop, tasks that hang or not.
CallsAndPassesEnd ==
  []<>(/\ subject = "order" => at \in {"returned", "raised"}
       /\ subject = "tasks" => T!Asleep)

\* OrderRetry, Coordinator, LiveFeed: nothing but the watched order is left
\* working, and a combo buys too much only through a fill that went unseen; no key,
\* job or wait is lost; only a changing subscription or an unreadable key ends the
\* update loop.  Scheduler: no task is late by more than two passes, and the agent is
\* called stalled only in a task that may outlast the panel's limit.
NothingLost ==
  /\ subject = "order" => O!NothingLeftWorking /\ O!ComboExcessTakesARace
  /\ subject = "pool" => C!NothingLost
  /\ subject = "feed" => F!FeedEndTakesChurn
  /\ subject = "tasks" => T!SchedulerHolds

\* Coordinator: batch jobs that hang do not starve a critical request.
CriticalServed == C!CriticalServed

\* Sessions: logouts, disabled accounts and the limit on attempts hold.
NobodySlipsIn == subject = "sessions" => S!NobodySlipsIn

\* StopBackfill: a recorded stop risks what the orders risk.
BlendIsExact == B!BlendIsExact

\* ResearchLab, StrategyHealth, Allocation, TradingModes: a strategy trades on the
\* evidence for it, on no more of the capital than its share, and one preset rules
\* one signal.
StrategiesEarnTheirPlace ==
  /\ subject = "lab" => Lab!UnearnedTakesARace
  /\ subject = "health" => Health!HealthHolds
  /\ subject = "shares" => Shares!WithinCaps
  /\ subject = "modes" => Preset!ModeSurvives /\ Preset!OnePresetOrMidway

\* SignalScoring and OutcomeStats: a signal is scored on what it
\* shows, and what became of signals is told without flattering but in one way.
SignalsAreScoredRight ==
  /\ subject = "equity" => Scoring!EquityScoreHolds
  /\ subject = "options" => Scoring!OptionsScoreHolds
  /\ subject = "outcomes" => Outcomes!OutcomeStatsHold

\* AccountFeed, OrderCancel and SpreadLedger: what is answered, cancelled and booked
\* rests on a reading of the broker that was true, races and the named gaps apart.
BrokerIsReadTrue ==
  /\ subject = "account" => Account!AccountAnswers
  /\ subject = "cancel" => Cancels!StrippingTakesARace
  /\ subject = "spreads" => Booking!SpreadLedgerHolds
=============================================================================
