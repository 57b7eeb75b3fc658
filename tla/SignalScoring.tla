--------------------------- MODULE SignalScoring ---------------------------
(***************************************************************************)
(* How the two scans score what they find.                                 *)
(*                                                                         *)
(* The signal of one equity (services/equity_signal_engine.py, scanned by  *)
(* main.py and by services/equity_scan_engine.py): the earnings gate with  *)
(* its cache, the score of a reading of the indicators, the trade plan and *)
(* the figures by which a scan ranks its candidates.  Each indicator       *)
(* votes: "bull", "bear" or "none"; the 200-day average and the VWAP       *)
(* always vote.  Points are in tenths, the order flow in halves,           *)
(* confidence in basis points, as the code rounds it.  Sentiment is left   *)
(* out: every caller passes none.                                          *)
(*                                                                         *)
(* The score that an options spread must pass (services/signal_scorer.py,  *)
(* called by main.py's options scan).  The scorer is built at the first    *)
(* spread and keeps the model it loaded then; without a usable artifact,   *)
(* or when the model fails on a spread, rules of thumb give the score.     *)
(* The health page shows the scorer in use, or one it builds for the       *)
(* purpose.  Scores and thresholds are in percent; a regressor predicts a  *)
(* return on risk, a classifier and the rules a quality from 0 to 100.     *)
(***************************************************************************)
EXTENDS Integers, FiniteSetsExt, Functions

CONSTANTS
  None,
  Readings,         \* readings of the indicators that may come up
  MinConfidence,    \* in basis points
  Quotes,           \* pairs of price and average true range
  Worth,            \* the account value
  StopAtr, TargetAtr,
  Spreads,          \* features of a spread, and what either model makes of them
  RorThreshold, ProbThreshold, Band,
  MaxSwaps          \* bound: times the artifact is replaced

\* Indicators that vote say one of three things; prices, sizes and scores are numbers.
Vote == {"bull", "bear", "none"}

ScoringConstants ==
  /\ \A r \in Readings :
       /\ {r.rsi, r.bands, r.stoch, r.flow} \subseteq Int
       /\ {r.macd, r.trend, r.vwap, r.aligned} \subseteq Vote
  /\ \A q \in Quotes : {q.price, q.atr} \subseteq Nat \ {0}
  /\ Worth \in Nat /\ StopAtr \in Nat \ {0} /\ TargetAtr \in Nat
  /\ \A f \in Spreads :
       /\ {f.rank, f.edge, f.calm, f.credit} \subseteq 0 .. 100
       /\ {f.model["regressor"], f.model["classifier"]} \subseteq -100 .. 100
  /\ {RorThreshold, ProbThreshold, Band} \subseteq Int

VARIABLES
  soon,             \* an earnings date is near
  cache,            \* the gate's answer, whether its lookup worked and whether the
                    \* date has moved since; None when there is none younger than the TTL
  reading,          \* the reading scored last, or None
  signal,           \* its action and plan
  cleared,          \* what the gate went by: soon and cache as they were
  artifact,         \* the file a model is loaded from
  scorer,           \* the kind of model in memory, or None before the first spread
  shown,            \* the kind the page showed last, or None
  doubt,            \* since then the artifact was replaced or the process restarted
  result,           \* the score given last, or None
  swaps

equityVars  == <<soon, cache, reading, signal, cleared>>
optionsVars == <<artifact, scorer, shown, doubt, result, swaps>>

-----------------------------------------------------------------------------
(* The score of an equity.                                                 *)

Opposite(d) == CASE d = "bull" -> "bear" [] d = "bear" -> "bull" [] OTHER -> "none"

-----------------------------------------------------------------------------
(* score_equity_signal.                                                    *)

\* An oscillator that reads exactly zero is taken for the default, mid-range:
\* the lowest reading of all casts no vote.
Oscillator(x, low, high) ==
  IF x = 0 THEN "none" ELSE IF x < low THEN "bull" ELSE IF x > high THEN "bear" ELSE "none"

Votes(r) ==
  [rsi   |-> Oscillator(r.rsi, 35, 65),
   bands |-> Oscillator(r.bands, 10, 90),
   stoch |-> Oscillator(r.stoch, 20, 80),
   macd  |-> r.macd, cross |-> IF r.crossed THEN r.macd ELSE "none",
   trend |-> r.trend, vwap |-> r.vwap, aligned |-> r.aligned,
   volume |-> IF r.heavy THEN r.vwap ELSE "none"]

Weight ==
  [rsi |-> 15, bands |-> 15, stoch |-> 10, macd |-> 8, cross |-> 20,
   trend |-> 5, vwap |-> 6, aligned |-> 8, volume |-> 7]

\* Order flow counts in proportion.
FlowPoints(f, d) == Max({0, IF d = "bull" THEN 6 * f ELSE -6 * f})

Points(v, flow, d) ==
  SumFunctionOnSet([i \in DOMAIN v |-> IF v[i] = d THEN Weight[i] ELSE 0], DOMAIN v)
  + FlowPoints(flow, d)

\* Action and confidence from the points of both sides.
Judge(bull, bear) ==
  LET top   == Max({bull, bear})
      total == bull + bear
      extra == Min({Max({top - 10, 0}), 80})
  IN [action     |-> IF total = 0 \/ 100 * (top - (total - top)) < 6 * Max({total, 10})
                     THEN "HOLD" ELSE IF bull > bear THEN "BUY" ELSE "SELL",
      confidence |-> IF total = 0 THEN 0
                     ELSE (25 * top * (1040 + 7 * extra)) \div (4 * total)]

Scored(v, flow) == Judge(Points(v, flow, "bull"), Points(v, flow, "bear"))

Routable(s) == s.action # "HOLD" /\ s.confidence >= MinConfidence

-----------------------------------------------------------------------------
(* compute_equity_trade_plan and the figures of a candidate.               *)

\* mutant of Shares: only the risk limits the size.
SharesByRisk(q) == (Worth * 2) \div (100 * q.atr * StopAtr)

\* Two percent of the account at risk, eight percent of it in the position.
Shares(q) ==
  LET byRisk == (Worth * 2) \div (100 * q.atr * StopAtr)
      byCap  == (Worth * 8) \div (100 * q.price)
  IN IF byRisk > 0 THEN Min({byRisk, byCap}) ELSE 0

\* The way to the stop and the way to the target are all that POP is made of ...
Planned(q) ==
  [shares |-> Shares(q), risk |-> q.atr * StopAtr, reward |-> q.atr * TargetAtr,
   price |-> q.price]

Pop(p) == [num |-> p.risk, den |-> p.risk + p.reward]

\* ... and so is the edge, which is the expected value and, over the reward, the
\* Kelly fraction (times Pop's denominator).
Edge(p) == Pop(p).num * p.reward - (Pop(p).den - Pop(p).num) * p.risk

-----------------------------------------------------------------------------
EquityInit ==
  /\ soon \in BOOLEAN
  /\ cache = None /\ reading = None /\ signal = None /\ cleared = None

\* An earnings date comes near, passes or is moved.
DateMoves ==
  /\ soon' = ~soon
  /\ cache' = IF cache = None THEN None ELSE [cache EXCEPT !.moved = TRUE]
  /\ UNCHANGED <<reading, signal, cleared>>

\* An hour has passed since the lookup.
Expire ==
  /\ cache # None
  /\ cache' = None
  /\ UNCHANGED <<soon, reading, signal, cleared>>

\* The answers earnings_gate may go by: the cached one, or a lookup; one that
\* fails says no date is near, and is cached as well.
Answers ==
  IF cache # None THEN {cache}
  ELSE {[gated |-> soon, known |-> TRUE, moved |-> FALSE],
        [gated |-> FALSE, known |-> FALSE, moved |-> FALSE]}

\* The gate keeps the ticker out of the scan.
Gated ==
  /\ reading = None
  /\ \E a \in Answers : a.gated /\ cache' = a
  /\ UNCHANGED <<soon, reading, signal, cleared>>

\* The gate lets it through: score a reading, and plan a trade if it is routable.
Scan ==
  /\ reading = None
  /\ \E a \in Answers : /\ ~a.gated
                        /\ cache' = a
                        /\ cleared' = [soon |-> soon, by |-> a]
  /\ \E r \in Readings, q \in Quotes :
       LET s == Scored(Votes(r), r.flow)
       IN /\ reading' = r
          /\ signal' = [score |-> s, plan |-> IF Routable(s) THEN Planned(q) ELSE None]
  /\ UNCHANGED soon

\* The next scan.
Again ==
  /\ reading # None
  /\ reading' = None /\ signal' = None /\ cleared' = None
  /\ UNCHANGED <<soon, cache>>

EquityNext == DateMoves \/ Expire \/ Gated \/ Scan \/ Again

-----------------------------------------------------------------------------
EquityTypeOK ==
  /\ soon \in BOOLEAN
  /\ reading \in Readings \cup {None}
  /\ signal # None => signal.score.action \in {"BUY", "SELL", "HOLD"}

\* A ticker is scanned with earnings near only after a lookup failed or the
\* date moved within the hour.
EarningsTakeAGap ==
  cleared # None /\ cleared.soon => ~cleared.by.known \/ cleared.by.moved

\* The score knows no side: turned about, a reading gets the opposite action
\* with the same confidence.
NoSide ==
  reading # None =>
    LET v == Votes(reading)
        t == Scored([i \in DOMAIN v |-> Opposite(v[i])], -reading.flow)
    IN /\ t.confidence = signal.score.confidence
       /\ t.action = CASE signal.score.action = "BUY" -> "SELL"
                       [] signal.score.action = "SELL" -> "BUY"
                       [] OTHER -> "HOLD"

\* A vote that turns towards a signal neither undoes nor weakens it.
SupportHelps ==
  reading # None /\ signal.score.action # "HOLD" =>
    LET v    == Votes(reading)
        side == IF signal.score.action = "BUY" THEN "bull" ELSE "bear"
    IN \A i \in DOMAIN v :
         LET t == Scored([v EXCEPT ![i] = side], reading.flow)
         IN /\ t.action = signal.score.action
            /\ t.confidence >= signal.score.confidence

\* A plan loses at its stop no more than two percent of the account and ties
\* up no more than eight.
PlanWithinRisk ==
  signal # None /\ signal.plan # None =>
    /\ 100 * signal.plan.shares * signal.plan.risk <= 2 * Worth
    /\ 100 * signal.plan.shares * signal.plan.price <= 8 * Worth

\* Whatever the stop and the target are, no candidate has an expected value
\* other than nil: the ranking of a scan by it orders nothing.
ValueRanksNothing ==
  signal # None /\ signal.plan # None => Edge(signal.plan) = 0

EquityScoreHolds ==
  EarningsTakeAGap /\ NoSide /\ SupportHelps /\ PlanWithinRisk /\ ValueRanksNothing

-----------------------------------------------------------------------------
(* The score of a spread.                                                  *)

Artifacts == {"missing", "broken", "regressor", "classifier"}

\* What loading makes of an artifact; "rules" stands for no model.
Loaded(a) == IF a \in {"missing", "broken"} THEN "rules" ELSE a

\* The rules: a weighted mean of eight components, each from 0 to 100.
Heuristic(f) ==
  (20 * f.rank + 15 * f.edge + 15 * (IF f.uptrend THEN 100 ELSE 30) + 15 * f.calm
   + 10 * (IF f.days \in 30..45 THEN 100 ELSE 50) + 10 * f.credit + 10 * 100
   + 5 * (IF f.vix \in 15..25 THEN 100 ELSE 50)) \div 100

\* The threshold goes by the kind of the model.
Threshold(kind) == IF kind = "regressor" THEN RorThreshold ELSE ProbThreshold

\* A score near its threshold is no approval.
Result(kind, fails, f) ==
  LET scale == IF kind = "rules" \/ fails THEN "rules" ELSE kind
      score == IF scale = "rules" THEN Heuristic(f) ELSE f.model[kind]
  IN [kind |-> kind, scale |-> scale, score |-> score,
      approved |-> score >= Threshold(kind) + Band]

-----------------------------------------------------------------------------
OptionsInit ==
  /\ artifact \in Artifacts
  /\ scorer = None /\ shown = None /\ doubt = FALSE /\ result = None /\ swaps = 0

\* Training writes a new artifact, or a copy of it fails half-way.
Train ==
  /\ swaps < MaxSwaps
  /\ artifact' \in Artifacts \ {artifact}
  /\ doubt' = TRUE /\ swaps' = swaps + 1
  /\ UNCHANGED <<scorer, shown, result>>

Restart ==
  /\ scorer # None
  /\ scorer' = None /\ doubt' = TRUE /\ result' = None
  /\ UNCHANGED <<artifact, shown, swaps>>

\* The health page.
Show ==
  /\ shown' = IF scorer # None THEN scorer ELSE Loaded(artifact)
  /\ doubt' = FALSE
  /\ UNCHANGED <<artifact, scorer, result, swaps>>

\* The scan scores a spread; a model may fail on it.
Score ==
  /\ scorer' = IF scorer # None THEN scorer ELSE Loaded(artifact)
  /\ \E f \in Spreads, fails \in BOOLEAN :
       /\ fails => scorer' # "rules"
       /\ result' = Result(scorer', fails, f)
  /\ UNCHANGED <<artifact, shown, doubt, swaps>>

OptionsNext == Train \/ Restart \/ Show \/ Score

-----------------------------------------------------------------------------
OptionsTypeOK ==
  /\ artifact \in Artifacts
  /\ scorer \in {None, "rules", "regressor", "classifier"}
  /\ shown \in {None, "rules", "regressor", "classifier"}
  /\ result # None => result.score \in -100..100 /\ result.approved \in BOOLEAN

\* A spread that the rules of thumb rate below the quality threshold and its band
\* is approved only where a regressor failed on it: that rating, out of a hundred,
\* is then held against a return on risk of a few percent.
LowQualityTakesAFailure ==
  result # None /\ result.approved /\ result.scale = "rules"
    /\ result.score < ProbThreshold + Band =>
    result.kind = "regressor"

\* What the page showed is what scores, until the artifact is replaced or the
\* process restarts.
ShownIsUsed ==
  shown # None /\ ~doubt /\ scorer # None => scorer = shown

OptionsScoreHolds == LowQualityTakesAFailure /\ ShownIsUsed
=============================================================================
