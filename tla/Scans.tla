------------------------------- MODULE Scans -------------------------------
(***************************************************************************)
(* The scheduler's market work: it reads the regime, scans for equity and  *)
(* for option signals and routes what it finds.  The start-up task reads   *)
(* the regime and scans equities once, without the scheduler's guards and  *)
(* beside it.  The mode is autopilot, in which a routed signal is executed *)
(* at once.                                                                *)
(*                                                                         *)
(* A unit of time is long beside a pass: it passes only between passes of  *)
(* the scheduler, though the start-up task may be stuck in a read.         *)
(*                                                                         *)
(* A reading f of the market has the VIX, its rank, the ADX, the RSI, the  *)
(* absolute 5-day return and the volatility of volatility in tenths of a   *)
(* percent, and whether the term structure is in backwardation (never, on  *)
(* the surface that _reclassify_regime builds from the VIX).               *)
(*                                                                         *)
(* A symbol's market m says whether there are 30 bars, and has the rank of *)
(* the implied volatility, the symbol's RSI and whether its price is above *)
(* the 20-day average.  Its quotes q are what each source answers, None or *)
(* [amount, width]; a debit is a negative amount.  Amounts are dollars per *)
(* contract, widths are in points.                                         *)
(***************************************************************************)
EXTENDS Guardrails, FiniteSets, FiniteSetsExt, SequencesExt

CONSTANTS
  None,
  Tickers,       \* the watchlist
  Features,      \* what the market may look like when it is read
  Markets, Quotes, Accounts, Statuses,
  Required,      \* regime_confirm_readings
  RegimeMaxAge,  \* MAX_REGIME_AGE_SECONDS, in units of time
  SignalMaxAge,  \* the age at which an equity signal says nothing
  MaxRestarts

-----------------------------------------------------------------------------
(* The regime of a reading (RegimeClassifier.classify) and what it allows.  *)

Regimes == {"low_vol_trending", "normal_mean_revert", "high_vol_trending",
            "crisis", "unknown"}

\* The hard override, checked first.
InCrisis(f) ==
  \/ f.vix >= 40 \/ f.rank >= 85 \/ f.volOfVol >= 80
  \/ f.backwardation /\ f.vix >= 35

Extreme(rsi) == rsi > 70 \/ rsi < 30

\* The weights, in hundredths, of the votes for and against a trend.
ForTrend(f) ==
  (IF f.adx >= 22 THEN 35 ELSE IF f.adx <= 18 THEN 0 ELSE 15)
  + (IF f.move >= 30 THEN 30 ELSE 0)
  + (IF Extreme(f.rsi) THEN 20 ELSE 0)
  + (IF f.backwardation THEN 15 ELSE 0)

AgainstTrend(f) ==
  (IF f.adx <= 18 THEN 35 ELSE 0)
  + (IF f.move >= 30 THEN 0 ELSE 20)
  + (IF Extreme(f.rsi) THEN 0 ELSE 15)

Trending(f) == ForTrend(f) > AgainstTrend(f)

Classify(f) ==
  IF InCrisis(f) THEN "crisis"
  ELSE CASE f.rank < 25       -> "low_vol_trending"
         [] f.rank \in 25 .. 59 -> IF Trending(f) THEN "high_vol_trending"
                                  ELSE "normal_mean_revert"
         [] f.rank \in 60 .. 84 -> "high_vol_trending"

\* REGIME_CONFIG: the option strategies in the order they are tried, the
\* equity strategies, and the size multipliers in percent.
Config(regime) ==
  CASE regime = "low_vol_trending" ->
         [options |-> <<"bull_call_debit_spread">>, optionsSize |-> 75,
          equity |-> {"momentum_long"}, equitySize |-> 100]
    [] regime = "normal_mean_revert" ->
         [options |-> <<"bull_put_spread", "bear_call_spread", "iron_condor">>,
          optionsSize |-> 100,
          equity |-> {"momentum_long", "momentum_short"}, equitySize |-> 75]
    [] regime = "high_vol_trending" ->
         [options |-> <<"bull_put_spread", "bear_call_spread">>,
          optionsSize |-> 75, equity |-> {"momentum_long"}, equitySize |-> 60]
    [] regime = "crisis" ->
         [options |-> <<>>, optionsSize |-> 0, equity |-> {}, equitySize |-> 0]
    [] regime = "unknown" ->
         [options |-> <<"bull_put_spread", "bear_call_spread">>,
          optionsSize |-> 50,
          equity |-> {"momentum_long", "momentum_short"}, equitySize |-> 30]

EquityAllowed(regime) ==
  Config(regime).equity # {} /\ Config(regime).equitySize > 0

OptionsAllowed(regime) ==
  Config(regime).options # <<>> /\ Config(regime).optionsSize > 0

-----------------------------------------------------------------------------
(* The spread of a symbol (_run_options_scan): the strategies' own entry   *)
(* conditions, the price ladder (live chain, listed chain, Black-Scholes),  *)
(* the size, and the concentration check.                                  *)

Strategies == {"bull_put_spread", "bear_call_spread", "bull_call_debit_spread",
               "iron_condor"}
Bullish == {"bull_put_spread", "bull_call_debit_spread"}
IsDebit(strategy) == strategy = "bull_call_debit_spread"

\* generate_signal of the four strategy classes.
BullPutEnters(m)  == m.rank >= 5 /\ m.above /\ m.rsi >= 45
BearCallEnters(m) == m.rank >= 30 /\ ~m.above /\ m.rsi <= 55
CondorEnters(m)   == m.rank >= 5 /\ m.adx < 20 /\ m.vix \in 15 .. 25
DebitEnters(m)    == m.rank < 100 /\ m.above /\ m.rsi > 55

Enters(strategy, m, status) ==
  /\ StrategyAllowed(strategy, status)
  /\ CASE strategy = "bull_put_spread"        -> BullPutEnters(m)
       [] strategy = "bear_call_spread"       -> BearCallEnters(m)
       [] strategy = "iron_condor"            -> CondorEnters(m)
       [] strategy = "bull_call_debit_spread" -> DebitEnters(m)

\* The regime's strategies are tried in order; an empty list means the bull
\* put, and the iron condor is skipped: only two legs can be ordered.
Tried(regime) ==
  LET listed == Config(regime).options
  IN  IF listed = <<>> THEN <<"bull_put_spread">> ELSE listed

Qualified(regime, m, status) ==
  LET tried == Tried(regime)
      able  == {i \in DOMAIN tried : /\ tried[i] # "iron_condor"
                                     /\ Enters(tried[i], m, status)}
  IN  IF able = {} THEN None ELSE tried[Min(able)]

\* Mutant: only an opposite BUY conflicts.
ConflictsOneSided(strategy, entry, maxAge) ==
  /\ entry # None /\ entry.age <= maxAge
  /\ strategy \notin Bullish /\ entry.action = "BUY"

\* _equity_confluence_reason, on the ticker's first entry in the list of
\* recent equity signals: a fresh opposite signal blocks, nothing else does.
Conflicts(strategy, entry, maxAge) ==
  /\ entry # None /\ entry.age <= maxAge
  /\ entry.action = (IF strategy \in Bullish THEN "SELL" ELSE "BUY")

\* A chain's quote is used for a credit strategy when it is a credit; the
\* helpers give none otherwise.
LiveCredit(q)   == q.live # None /\ q.live.amount > 0
ListedCredit(q) == q.listed # None /\ q.listed.amount > 0

Priced(strategy, q) ==
  IF IsDebit(strategy) THEN q.theory
  ELSE IF LiveCredit(q) THEN q.live
  ELSE IF ListedCredit(q) THEN q.listed
  ELSE q.theory

PriceRefused(strategy, price) ==
  \/ price.width <= 0
  \/ (IF IsDebit(strategy) THEN -price.amount ELSE price.amount) <= 0

MaxLoss(strategy, price) ==
  IF IsDebit(strategy) THEN -price.amount ELSE price.width * 100 - price.amount

\* calculate_position_size under the regime's multiplier; risk and scalar,
\* the volatility's multiplier, are in percent.
Contracts(account, regime, loss) ==
  (account.value * account.risk * Config(regime).optionsSize * account.scalar)
    \div (1000000 * Max({loss, 1}))

\* _build_portfolio_risk_state: what the open rows risk in the symbol and in its
\* sector; a table that cannot be read counts as empty.
Exposure(account) ==
  LET rows   == IF account.readable THEN account.rows ELSE {}
      sum(S) == MapThenSumSet(LAMBDA r : r.risk, S)
  IN  [symbol |-> sum({r \in rows : r.own}), sector |-> sum({r \in rows : r.peer})]

\* The concentration check; an unknown sector is none.
Concentrated(account, risk) ==
  LET book == Exposure(account)
  IN  /\ account.value > 0
      /\ \/ (book.symbol + risk) * 100 > 25 * account.value
         \/ account.cappable /\ (book.sector + risk) * 100 > 40 * account.value

\* The spread that is stored and routed, or None: rejected.
Spread(strategy, regime, q, approved, account) ==
  LET price == Priced(strategy, q)
      loss  == MaxLoss(strategy, price)
      size  == Contracts(account, regime, loss)
  IN  IF \/ PriceRefused(strategy, price) \/ ~approved
         \/ size <= 0 \/ Concentrated(account, loss * size)
      THEN None
      ELSE [strategy |-> strategy, size |-> size, loss |-> loss,
            width |-> price.width,
            liquid |-> ~IsDebit(strategy) /\ LiveCredit(q)]

-----------------------------------------------------------------------------
(* The scheduler and the start-up task.                                    *)

VARIABLES
  force,     \* _current_regime: None, or the regime and its age
  steady,    \* the stabilizer: regime, pending regime, count
  at,        \* what the scheduler is doing
  boot,      \* what the start-up task is doing
  view,      \* the signals an equity scan has made but not stored yet
  equity,    \* each ticker's first entry in _recent_signals
  newest,    \* history: its most recently generated entry
  stage,     \* how far each symbol's option scan is
  found,     \* the spread found for it
  routed,    \* signals each task has handed over for execution
  tape,      \* history: what the readings have said, see Heard and Begun
  overlapped, \* history: equity scans overlapped each other or an options scan
  restarts

vars == <<force, steady, at, boot, view, equity, newest, stage, found, routed,
          tape, overlapped, restarts>>

Actions == {"BUY", "SELL", "HOLD"}
Scanners == {"scheduler", "boot"}
Tasks == {"scheduler", "boot", "options"}
Idle == [t \in Tickers |-> [at |-> "idle", strategy |-> None]]
Nothing == [t \in Tickers |-> None]
NoneRouted == [k \in Tasks |-> {}]
Calm == [crisis |-> FALSE, last |-> None, agree |-> 0, quiet |-> 0, before |-> FALSE]

\* Ages and readings are numbers, and so are prices and accounts.
Figures == [amount : Int, width : Int]

ScansConstants ==
  /\ Required \in Nat \ {0} /\ {RegimeMaxAge, SignalMaxAge, MaxRestarts} \subseteq Nat
  /\ \A f \in Features : f.rank \in Int
  /\ \A q \in Quotes : q.theory \in Figures /\ {q.live, q.listed} \subseteq Figures \cup {None}
  /\ \A a \in Accounts : {a.value, a.risk, a.scalar} \subseteq Int
  /\ None \notin Regimes \cup [regime : Regimes, age : Nat]
                \cup [action : Actions, age : Nat]

Entries == [action : Actions, age : 0 .. SignalMaxAge + 1]

TypeOK ==
  /\ force = None \/ force \in [regime : Regimes, age : 0 .. RegimeMaxAge + 1]
  /\ steady \in [regime : Regimes \cup {None}, pending : Regimes \cup {None},
                 count : 0 .. Required]
  /\ at \in {"rest", "equity", "route", "options"}
  /\ boot \in {"reading", "scan", "gather", "route", "done"}
  /\ view \in [Scanners -> [Tickers -> Entries \cup {None}]]
  /\ equity \in [Tickers -> Entries \cup {None}]
  /\ newest \in [Tickers -> Entries \cup {None}]
  /\ \A t \in Tickers :
       /\ stage[t].at \in {"idle", "waiting", "gated", "chosen", "done"}
       /\ stage[t].strategy \in Strategies \cup {None}
       /\ found[t] = None \/ found[t].size > 0
  /\ routed \in [Tasks -> SUBSET Tickers]
  /\ tape.agree \in 0 .. Required /\ tape.quiet \in 0 .. RegimeMaxAge + 1
  /\ overlapped \in BOOLEAN /\ restarts \in 0 .. MaxRestarts

Init ==
  /\ force = None
  /\ steady = [regime |-> None, pending |-> None, count |-> 0]
  /\ at = "rest" /\ boot = "reading"
  /\ view = [s \in Scanners |-> Nothing] /\ equity = Nothing /\ newest = Nothing
  /\ stage = Idle /\ found = Nothing /\ routed = NoneRouted
  /\ tape = Calm /\ overlapped = FALSE /\ restarts = 0

-----------------------------------------------------------------------------
(* The regime.                                                             *)

Adopted(regime) ==
  /\ steady' = [regime |-> regime, pending |-> None, count |-> 0]
  /\ force' = [regime |-> regime, age |-> 0]

\* Mutant: crisis waits for its confirmations like any other change.
ObserveDelaysCrisis(regime) ==
  LET count == IF regime = steady.pending THEN steady.count + 1 ELSE 1
  IN  IF steady.regime \in {None, regime} \/ count >= Required
      THEN Adopted(regime)
      ELSE /\ steady' = [steady EXCEPT !.pending = regime, !.count = count]
           /\ force' = [regime |-> steady.regime, age |-> 0]

\* A change is withheld until Required readings in a row agree; crisis is not.
Observe(regime) ==
  LET count == IF regime = steady.pending THEN steady.count + 1 ELSE 1
  IN  IF \/ steady.regime \in {None, regime} \/ regime = "crisis"
         \/ count >= Required
      THEN Adopted(regime)
      ELSE /\ steady' = [steady EXCEPT !.pending = regime, !.count = count]
           /\ force' = [regime |-> steady.regime, age |-> 0]

\* History: a crisis stands until Required readings in a row contradict it.
Heard(regime) ==
  LET agree == IF regime = tape.last THEN Min({tape.agree + 1, Required}) ELSE 1
  IN  tape' = [tape EXCEPT
                 !.crisis = regime = "crisis" \/ (tape.crisis /\ agree < Required),
                 !.last = regime, !.agree = agree, !.quiet = 0]

\* History: a pass begins before or after such a crisis was over, or forgotten.
Begun ==
  tape' = [tape EXCEPT !.before = tape.crisis /\ tape.quiet <= RegimeMaxAge]

\* _reclassify_regime; a market that cannot be read changes nothing.
ReadMarket ==
  \/ \E f \in Features : Observe(Classify(f)) /\ Heard(Classify(f))
  \/ UNCHANGED <<force, steady, tape>>

\* _ensure_fresh_regime: missing or stale is unknown; the stabilizer is not told.
Ensured ==
  IF force # None /\ force.age <= RegimeMaxAge THEN force
  ELSE [regime |-> "unknown", age |-> 0]

EnsureFresh ==
  /\ at = "rest" /\ force' = Ensured
  /\ UNCHANGED <<steady, at, boot, view, equity, newest, stage, found, routed,
                 tape, overlapped, restarts>>

Reclassify ==
  /\ at = "rest" /\ ReadMarket
  /\ UNCHANGED <<at, boot, view, equity, newest, stage, found, routed,
                 overlapped, restarts>>

-----------------------------------------------------------------------------
(* The equity scan.                                                        *)

\* _scan_one of every ticker; one without prices or with earnings has none.
Gathered(s) ==
  \E sample \in [Tickers -> Actions \cup {None}] :
    view' = [view EXCEPT ![s] =
               [t \in Tickers |-> IF sample[t] = None THEN None
                                  ELSE [action |-> sample[t], age |-> 0]]]

Later(a, b) == IF b = None \/ (a # None /\ a.age <= b.age) THEN a ELSE b

\* The results go to the front of the list, whatever is there already.
Inserted(s) ==
  LET mine == view[s]
  IN  /\ equity' = [t \in Tickers |-> IF mine[t] = None THEN equity[t] ELSE mine[t]]
      /\ newest' = [t \in Tickers |-> Later(mine[t], newest[t])]

\* The routable signals of a scan: those of sufficient confidence.
Routable(s) ==
  {t \in Tickers : view[s][t] # None /\ view[s][t].action # "HOLD"}

\* The scheduler skips a scan that the regime in force does not allow.
StartEquity ==
  /\ at = "rest" /\ force' = Ensured /\ EquityAllowed(force'.regime)
  /\ Gathered("scheduler") /\ at' = "equity" /\ Begun
  /\ overlapped' = (overlapped \/ boot = "gather")
  /\ UNCHANGED <<steady, boot, equity, newest, stage, found, routed, restarts>>

InsertEquity ==
  /\ at = "equity" /\ Inserted("scheduler") /\ at' = "route"
  /\ UNCHANGED <<force, steady, boot, view, stage, found, routed, tape,
                 overlapped, restarts>>

\* handle_signal in autopilot executes; the order of the ranking is left open.
RouteEquity(t) ==
  /\ at = "route" /\ t \in Routable("scheduler") \ routed["scheduler"]
  /\ routed' = [routed EXCEPT !["scheduler"] = @ \cup {t}]
  /\ UNCHANGED <<force, steady, at, boot, view, equity, newest, stage, found,
                 tape, overlapped, restarts>>

\* The scan ends, or its guard cuts it off, at any point.
EndEquity ==
  /\ at \in {"equity", "route"} /\ at' = "rest"
  /\ view' = [view EXCEPT !["scheduler"] = Nothing]
  /\ routed' = [routed EXCEPT !["scheduler"] = {}]
  /\ UNCHANGED <<force, steady, boot, equity, newest, stage, found, tape,
                 overlapped, restarts>>

-----------------------------------------------------------------------------
(* The start-up task: no guard, no look at the regime it has just read.    *)

BootRead ==
  /\ boot = "reading" /\ ReadMarket /\ boot' = "scan"
  /\ UNCHANGED <<at, view, equity, newest, stage, found, routed, overlapped, restarts>>

BootGather ==
  /\ boot = "scan" /\ Gathered("boot") /\ boot' = "gather"
  /\ overlapped' = (overlapped \/ at = "equity")
  /\ UNCHANGED <<force, steady, at, equity, newest, stage, found, routed, tape, restarts>>

BootInsert ==
  /\ boot = "gather" /\ Inserted("boot") /\ boot' = "route"
  /\ overlapped' = (overlapped \/ at = "options")
  /\ UNCHANGED <<force, steady, at, view, stage, found, routed, tape, restarts>>

BootRoute(t) ==
  /\ boot = "route" /\ t \in Routable("boot") \ routed["boot"]
  /\ routed' = [routed EXCEPT !["boot"] = @ \cup {t}]
  /\ UNCHANGED <<force, steady, at, boot, view, equity, newest, stage, found,
                 tape, overlapped, restarts>>

BootEnd ==
  /\ boot \in {"scan", "gather", "route"} /\ boot' = "done"
  /\ view' = [view EXCEPT !["boot"] = Nothing]
  /\ routed' = [routed EXCEPT !["boot"] = {}]
  /\ UNCHANGED <<force, steady, at, equity, newest, stage, found, tape,
                 overlapped, restarts>>

-----------------------------------------------------------------------------
(* The options scan of the whole watchlist.                                *)

StartOptions ==
  /\ at = "rest" /\ force' = Ensured /\ at' = "options" /\ Begun
  /\ stage' = [t \in Tickers |-> [at |-> "waiting", strategy |-> None]]
  /\ UNCHANGED <<steady, boot, view, equity, newest, found, routed, overlapped,
                 restarts>>

Stage(t, where, strategy) ==
  stage' = [stage EXCEPT ![t] = [at |-> where, strategy |-> strategy]]

\* The gate on the regime; then the symbol's bars are fetched.
GateSymbol(t) ==
  /\ at = "options" /\ stage[t].at = "waiting"
  /\ Stage(t, IF OptionsAllowed(force.regime) THEN "gated" ELSE "done", None)
  /\ UNCHANGED <<force, steady, at, boot, view, equity, newest, found, routed,
                 tape, overlapped, restarts>>

\* With the risk state in hand: the strategy and its agreement with the
\* equity signal.  Short histories, unknown risk and errors end the symbol.
ChooseStrategy(t) ==
  /\ at = "options" /\ stage[t].at = "gated"
  /\ \/ Stage(t, "done", None)
     \/ \E m \in Markets, status \in Statuses :
          LET strategy == Qualified(force.regime, m, status)
              refused  == strategy = None \/ Conflicts(strategy, equity[t], SignalMaxAge)
          IN  Stage(t, IF refused THEN "done" ELSE "chosen",
                    IF refused THEN None ELSE strategy)
  /\ UNCHANGED <<force, steady, at, boot, view, equity, newest, found, routed,
                 tape, overlapped, restarts>>

\* Prices, score, size under the regime now in force, concentration.  A job
\* that times out or fails has no result.
PriceSymbol(t) ==
  /\ at = "options" /\ stage[t].at = "chosen"
  /\ \/ UNCHANGED found
     \/ \E q \in Quotes, account \in Accounts, approved \in BOOLEAN :
          found' = [found EXCEPT ![t] =
                      Spread(stage[t].strategy, force.regime, q, approved, account)]
  /\ Stage(t, "done", None)
  /\ UNCHANGED <<force, steady, at, boot, view, equity, newest, routed, tape,
                 overlapped, restarts>>

\* Candidates are routed when the last symbol is done.
RouteSpread(t) ==
  /\ at = "options" /\ \A u \in Tickers : stage[u].at = "done"
  /\ found[t] # None /\ t \notin routed["options"]
  /\ routed' = [routed EXCEPT !["options"] = @ \cup {t}]
  /\ UNCHANGED <<force, steady, at, boot, view, equity, newest, stage, found,
                 tape, overlapped, restarts>>

\* The pass ends or is cut off; the candidates not routed yet are dropped.
EndOptions ==
  /\ at = "options" /\ at' = "rest" /\ stage' = Idle /\ found' = Nothing
  /\ routed' = [routed EXCEPT !["options"] = {}]
  /\ UNCHANGED <<force, steady, boot, view, equity, newest, tape, overlapped, restarts>>

-----------------------------------------------------------------------------

Older(entry) ==
  IF entry = None THEN None
  ELSE [entry EXCEPT !.age = Min({@ + 1, SignalMaxAge + 1})]

TimePasses ==
  /\ at = "rest"
  /\ force' = IF force = None THEN None
              ELSE [force EXCEPT !.age = Min({@ + 1, RegimeMaxAge + 1})]
  /\ tape' = [tape EXCEPT !.quiet = Min({@ + 1, RegimeMaxAge + 1})]
  /\ equity' = [t \in Tickers |-> Older(equity[t])]
  /\ newest' = [t \in Tickers |-> Older(newest[t])]
  /\ view' = [s \in Scanners |-> [t \in Tickers |-> Older(view[s][t])]]
  /\ UNCHANGED <<steady, at, boot, stage, found, routed, overlapped, restarts>>

\* Nothing of this survives a restart.
Restart ==
  /\ restarts < MaxRestarts /\ restarts' = restarts + 1
  /\ force' = None /\ steady' = [regime |-> None, pending |-> None, count |-> 0]
  /\ at' = "rest" /\ boot' = "reading"
  /\ view' = [s \in Scanners |-> Nothing] /\ equity' = Nothing /\ newest' = Nothing
  /\ stage' = Idle /\ found' = Nothing /\ routed' = NoneRouted
  /\ tape' = Calm /\ overlapped' = FALSE

Next ==
  \/ EnsureFresh \/ Reclassify \/ StartEquity \/ InsertEquity \/ EndEquity
  \/ BootRead \/ BootGather \/ BootInsert \/ BootEnd
  \/ StartOptions \/ EndOptions
  \/ \E t \in Tickers :
       \/ RouteEquity(t) \/ BootRoute(t) \/ GateSymbol(t)
       \/ ChooseStrategy(t) \/ PriceSymbol(t) \/ RouteSpread(t)
  \/ TimePasses \/ Restart

Spec == Init /\ [][Next]_vars

-----------------------------------------------------------------------------

(***************************************************************************)
(* After a crisis has been read no pass of the scheduler hands anything    *)
(* over until Required readings in a row have contradicted it, or none has *)
(* succeeded for longer than a regime may age (RegimeStabilizer.observe,   *)
(* _ensure_fresh_regime, the gates of both scans).                         *)
(***************************************************************************)
CrisisIsHeeded ==
  tape.before /\ tape.crisis => routed["scheduler"] \cup routed["options"] = {}

(***************************************************************************)
(* A spread is handed over against a fresh equity signal of its own ticker *)
(* only if two equity scans overlapped, so that the list's first entry is  *)
(* not the newest, or a scan's results came in while the pass was running  *)
(* (_equity_confluence_reason on _recent_signals).                         *)
(***************************************************************************)
ConflictTakesOverlap ==
  [][\A t \in routed'["options"] \ routed["options"] :
       /\ newest[t] # None /\ newest[t].age <= SignalMaxAge
       /\ \/ newest[t].action = "SELL" /\ found[t].strategy \in Bullish
          \/ newest[t].action = "BUY" /\ found[t].strategy \notin Bullish
       => overlapped]_vars

-----------------------------------------------------------------------------
(* What the repository says and the code does not do.                      *)

(***************************************************************************)
(* regime_classifier: "NOTHING trades in crisis"; yet the start-up task    *)
(* scans and executes right after it has read one.                         *)
(***************************************************************************)
NothingTradesInCrisis ==
  [][routed'["boot"] \subseteq routed["boot"] \/ force.regime # "crisis"]_vars
=============================================================================
