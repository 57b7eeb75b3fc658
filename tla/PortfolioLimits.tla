-------------------------- MODULE PortfolioLimits --------------------------
(***************************************************************************)
(* The portfolio gate against the book it protects.  A signal is admitted  *)
(* on an estimate of its risk; its row then stands in the book with the    *)
(* risk that position_risk_dollars measures from the row, and the next     *)
(* signal is judged on that.  Rows also come from the reconciler, and go   *)
(* when positions close.                                                   *)
(***************************************************************************)
EXTENDS Integers, FiniteSets, Functions

CONSTANTS
  Tickers,
  SectorOf,      \* [Tickers -> sectors]; "Unknown" for an unclassified one
  Plans,         \* what a signal may propose
  Worths,        \* account values
  GlobalMax,     \* max_concurrent_positions
  ModeMax,       \* the trading mode's own cap
  Adoptions,     \* price and shares of positions the reconciler finds
  None

VARIABLES book,     \* the open row of each ticker and asset class
          worth     \* the account's value

vars == <<book, worth>>

\* The duplicate guard allows one row of each class in a ticker.
Classes == {"equity", "options"}
Slots   == Tickers \X Classes

ClassOf(kind) == IF kind = "spread" THEN "options" ELSE "equity"

Kinds == {"equity_long", "equity_short", "spread"}

\* percent of the account
MaxSingle == 25
MaxSector == 40
HeatHigh  == 50

\* The regime's factor on the number of positions, in percent.
RegimeFactor ==
  [low_vol_trending |-> 100, normal_mean_revert |-> 100,
   high_vol_trending |-> 75, crisis |-> 0, unknown |-> 50]

Regimes == DOMAIN RegimeFactor

\* What a row of the book says of its risk.
Rows == [kind : Kinds, price : Int, stop : Int, quantity : Int, width : Int]

\* A cap of no positions at all is no cap that either configuration has.
PortfolioConstants ==
  /\ IsFiniteSet(Tickers) /\ None \notin Rows
  /\ GlobalMax \in Nat \ {0} /\ ModeMax \in Nat \ {0}
  /\ Plans \subseteq [kind : Kinds, price : Int, stop : Int \cup {None}, quantity : Int,
                     width : Int, maxLoss : Int]
  /\ Adoptions \subseteq [price : Int, quantity : Int]

Distance(a, b) == IF a >= b THEN a - b ELSE b - a

Smaller(a, b) == IF a <= b THEN a ELSE b

-----------------------------------------------------------------------------
(* Risk, as estimated from a signal and as measured from a row.            *)

\* estimate_proposed_risk_dollars
Estimate(s) ==
  CASE s.kind = "spread"                    -> s.maxLoss * s.quantity
    [] s.kind # "spread" /\ s.stop # None   -> Distance(s.price, s.stop) * s.quantity
    [] OTHER                                -> s.price * s.quantity

\* equity_stop_distance believes a stop that is not a placeholder and lies on
\* the losing side of the entry.
TrustedStop(r) ==
  /\ r.price > 0 /\ r.stop > 0
  /\ Distance(r.price, r.stop) * 1000 >= r.price
  /\ IF r.kind = "equity_short" THEN r.stop >= r.price ELSE r.stop <= r.price

\* position_risk_dollars; a row of options carries its credit (negative for a
\* debit) and the distance of its strikes.
Measure(r) ==
  IF r.kind # "spread"
  THEN (IF TrustedStop(r) THEN Distance(r.price, r.stop) ELSE r.price) * r.quantity
  ELSE IF r.price < 0 THEN -r.price * r.quantity
  ELSE IF r.width > r.price THEN (r.width - r.price) * r.quantity ELSE 0

Held(b) == {x \in Slots : b[x] # None}

\* The risk a book has in the tickers.
RiskIn(b, ts) ==
  LET at == {x \in Held(b) : x[1] \in ts}
  IN  SumFunctionOnSet([x \in at |-> Measure(b[x])], at)

InSector(sector) == {t \in Tickers : SectorOf[t] = sector}

Cappable(sector) == sector # "Unknown"

-----------------------------------------------------------------------------
(* The gate.                                                               *)

\* mutant of MaxPositions: the mode's cap replaces the global one.
MaxPositionsOfMode(regime) ==
  LET factor == RegimeFactor[regime]
      some   == (ModeMax * factor) \div 100
  IN  IF factor < 100 THEN (IF some < 1 THEN 1 ELSE some) ELSE ModeMax

\* The tighter of the two caps, tightened once more by the regime.
MaxPositions(regime) ==
  LET cap    == Smaller(GlobalMax, ModeMax)
      factor == RegimeFactor[regime]
      some   == (cap * factor) \div 100
  IN  IF factor < 100 THEN (IF some < 1 THEN 1 ELSE some) ELSE cap

\* evaluate_portfolio_gates on the exposures read from the book: counted rows
\* or broker positions, the ticker's, the sector's and all risk.
GateAllows(s, count, single, sector, heat) ==
  /\ count < MaxPositions(s.regime)
  /\ worth > 0 =>
       /\ (single + Estimate(s)) * 100 <= MaxSingle * worth
       /\ Cappable(SectorOf[s.ticker]) =>
            (sector + Estimate(s)) * 100 <= MaxSector * worth
       /\ (heat + Estimate(s)) * 100 <= HeatHigh * worth

\* load_portfolio_risk_state: the rows, and a count that the broker may raise.
GatePasses(s) ==
  \E seen \in Cardinality(Held(book)) .. Cardinality(Slots) :
    GateAllows(s, seen, RiskIn(book, {s.ticker}),
               RiskIn(book, InSector(SectorOf[s.ticker])), RiskIn(book, Tickers))

\* A book that cannot be read counts as empty.
GatePassesBlind(s) == GateAllows(s, 0, 0, 0, 0)

\* The row that record_fill writes for the signal; without a stop it has 0.
RowOf(s) ==
  [kind |-> s.kind, price |-> s.price, quantity |-> s.quantity, width |-> s.width,
   stop |-> IF s.stop = None THEN 0 ELSE s.stop]

SlotOf(s) == <<s.ticker, ClassOf(s.kind)>>

Recorded(s) ==
  /\ book[SlotOf(s)] = None
  /\ book' = [book EXCEPT ![SlotOf(s)] = RowOf(s)]
  /\ UNCHANGED worth

Init == book = [x \in Slots |-> None] /\ worth \in Worths

Admit(s) == GatePasses(s) /\ Recorded(s)

AdmitBlind(s) == GatePassesBlind(s) /\ Recorded(s)

\* The reconciler writes the average cost into every price of the row.
AdoptRow(t, a) ==
  /\ book[<<t, "equity">>] = None
  /\ book' = [book EXCEPT ![<<t, "equity">>] =
                [kind |-> "equity_long", price |-> a.price, stop |-> a.price,
                 quantity |-> a.quantity, width |-> 0]]
  /\ UNCHANGED worth

Exit(x) ==
  /\ book[x] # None
  /\ book' = [book EXCEPT ![x] = None]
  /\ UNCHANGED worth

Reprice ==
  /\ worth' \in Worths \ {worth}
  /\ UNCHANGED book

Candidates == {[ticker |-> t, regime |-> r, kind |-> p.kind, price |-> p.price,
                stop |-> p.stop, quantity |-> p.quantity, width |-> p.width,
                maxLoss |-> p.maxLoss] : t \in Tickers, r \in Regimes, p \in Plans}

Next ==
  \/ \E s \in Candidates : Admit(s) \/ AdmitBlind(s)
  \/ \E x \in Slots : Exit(x)
  \/ \E t \in Tickers, a \in Adoptions : AdoptRow(t, a)
  \/ Reprice

Spec == Init /\ [][Next]_vars

-----------------------------------------------------------------------------
(* Properties.                                                             *)

TypeOK ==
  /\ worth \in Worths /\ book \in [Slots -> Rows \cup {None}]
  /\ \A x \in Held(book) : ClassOf(book[x].kind) = x[2]

\* A plan whose stop the measure will believe, or a spread whose stated loss is
\* what its strikes and credit leave at risk.
Sound(s) ==
  IF s.kind = "spread" THEN s.maxLoss * s.quantity = Measure(RowOf(s))
  ELSE TrustedStop(RowOf(s))

\* Estimate and measure agree for sound plans, so that an admission on a book
\* that was read leaves the book itself, measured anew, within every limit: on
\* the ticker, on a sector that has a name, on the whole, and on the count.
AdmissionKeepsLimits ==
  [][book' # book => \A s \in Candidates :
       (worth > 0 /\ Sound(s) /\ Admit(s)) =>
         /\ RiskIn(book', {s.ticker}) * 100 <= MaxSingle * worth
         /\ Cappable(SectorOf[s.ticker]) =>
              RiskIn(book', InSector(SectorOf[s.ticker])) * 100 <= MaxSector * worth
         /\ RiskIn(book', Tickers) * 100 <= HeatHigh * worth
         /\ Cardinality(Held(book')) <= GlobalMax]_vars
=============================================================================
