---------------------------- MODULE SpreadLedger ----------------------------
(***************************************************************************)
(* The life of one credit spread, from the signal to the P&L that is       *)
(* booked: the limit of its combo order, the order's retries, the row that *)
(* is recorded, and the fill poller, which resolves a pending row and      *)
(* books an open one whose symbol the broker no longer lists.              *)
(*                                                                         *)
(* The broker lists an option under the symbol of the contract, a share    *)
(* under the ticker; the poller compares the ticker of the row.  Prices    *)
(* are in cents per share of the underlying.  The cancel race of a retry   *)
(* is OrderRetry's and the races of the poller are TradeLedger's: here     *)
(* cancels land and a poll is one step.                                    *)
(***************************************************************************)
EXTENDS Integers, FiniteSetsExt

CONSTANTS
  Sizes,        \* the quantities of signals
  Credits,      \* their net credits, in dollars per contract
  Aggression,   \* settings.limit_price_aggression, in percent
  Gain,         \* a fill at the limit and one that is better by this
  RetryStep,    \* settings.retry_price_step
  MaxRetries,   \* settings.max_order_retries
  ClosePrices,  \* what a leg may be closed at
  Holdings,     \* shares of the ticker that are held besides the spread
  Grace         \* polls an open row may be missing without a price

VARIABLES
  plan,         \* the signal
  shares,       \* shares of the ticker at the broker
  ticket,       \* the combo order
  lost,         \* the caller has stopped waiting for the order's result
  row,          \* the recorded trade
  legs,         \* contracts of each leg that are held, without their sign
  closes,       \* executions on the closing side of each leg: contracts and proceeds
  mixed,        \* another trade's execution is among them
  missing,      \* polls that have missed the open row
  cash,         \* what the spread has brought in, in cents
  booked        \* the P&L of the row: "no", "unknown" or "known", in hundredths of a cent

vars == <<plan, shares, ticket, lost, row, legs, closes, mixed, missing, cash, booked>>

\* An order is for something, and a credit that is lowered at first is halved at most.
SpreadConstants ==
  /\ Sizes \subseteq Nat \ {0} /\ Credits \subseteq Int /\ Aggression \in Nat \ 0 .. 49
  /\ Gain \in Nat /\ RetryStep \in Nat /\ MaxRetries \in Nat
  /\ ClosePrices \subseteq Int /\ Holdings \subseteq Int /\ Grace \in Nat

Sides == {"short", "long"}
NoTicket == [state |-> "none", limit |-> 0, tries |-> 0, filled |-> 0, price |-> 0]
NoRow == [status |-> "none", credit |-> 0, quantity |-> 0]
NotYet == [as |-> "no", pnl |-> 0]

\* A contract is for a hundred shares.
Multiplier == 100

\* The whole number nearest to a fraction.
Rounded(n, d) == (2 * n + d) \div (2 * d)

-----------------------------------------------------------------------------
(* The signal and its order.                                               *)

\* The signal's credit is in dollars per contract, the order's price per share: as
\* cents they are the same number.  A signal without a credit counts as zero.
Credit == plan.credit

FirstLimit == Rounded(Credit * Aggression, 100)

\* The legs of a combo: their quantities, of which the order takes the common part.
Quantities == [l \in Sides |-> plan.quantity]

ComboSize ==
  LET total == Max({d \in 1 .. plan.quantity : \A l \in Sides : Quantities[l] % d = 0}) IN
    [total |-> total, ratio |-> [l \in Sides |-> Quantities[l] \div total]]

Init ==
  /\ plan \in [quantity : Sizes, credit : Credits] /\ shares \in Holdings
  /\ ticket = NoTicket /\ lost = FALSE /\ row = NoRow
  /\ legs = [l \in Sides |-> 0] /\ closes = [l \in Sides |-> [n |-> 0, paid |-> 0]]
  /\ mixed = FALSE /\ missing = 0 /\ cash = 0 /\ booked = NotYet

Place ==
  /\ ticket.state = "none"
  /\ ticket' = [NoTicket EXCEPT !.state = "working", !.limit = FirstLimit]
  /\ UNCHANGED <<plan, shares, lost, row, legs, closes, mixed, missing, cash, booked>>

\* The row of a fill, whole or in part, and of an order without an answer.
Recorded(status) == [status |-> status, credit |-> Credit, quantity |-> plan.quantity]

\* The order fills in full, or in part and its rest is cancelled; a caller that still
\* waits records it as planned.
Fill ==
  /\ ticket.state = "working"
  /\ \E n \in 1 .. ComboSize.total, gain \in {0, Gain} :
       LET price == ticket.limit + gain IN
         /\ ticket' = [ticket EXCEPT !.state = "done", !.filled = n, !.price = price]
         /\ legs' = [l \in Sides |-> n * ComboSize.ratio[l]]
         /\ cash' = price * n * Multiplier
  /\ row' = IF lost THEN row ELSE Recorded("open")
  /\ UNCHANGED <<plan, shares, lost, closes, mixed, missing, booked>>

\* It ends unfilled: cancelled or rejected orders are not recorded.
End ==
  /\ ticket.state = "working"
  /\ ticket' = [ticket EXCEPT !.state = "done"]
  /\ UNCHANGED <<plan, shares, lost, row, legs, closes, mixed, missing, cash, booked>>

\* Nothing has filled in time: the order is cancelled and placed again for less, while
\* attempts are left and the price stays above zero.
Retry ==
  /\ ticket.state = "working"
  /\ LET lower == ticket.limit - RetryStep IN
       ticket' = IF ticket.tries = MaxRetries \/ lower <= 0
                 THEN [ticket EXCEPT !.state = "done"]
                 ELSE [ticket EXCEPT !.limit = lower, !.tries = @ + 1]
  /\ UNCHANGED <<plan, shares, lost, row, legs, closes, mixed, missing, cash, booked>>

\* The request to the gateway times out; the order goes on, what becomes of it is the
\* poller's to find out.
LoseResult ==
  /\ ticket.state = "working" /\ ~lost
  /\ lost' = TRUE /\ row' = Recorded("pending")
  /\ UNCHANGED <<plan, shares, ticket, legs, closes, mixed, missing, cash, booked>>

-----------------------------------------------------------------------------
(* The broker.                                                             *)

Proceeds(l, price) == IF l = "long" THEN price ELSE -price

\* Contracts of one leg are closed, by hand or by expiry's broker; what happens after
\* the booking is not followed.
CloseLeg ==
  /\ booked = NotYet
  /\ \E l \in Sides, price \in ClosePrices :
     \E n \in 1 .. legs[l] :
       /\ legs' = [legs EXCEPT ![l] = @ - n]
       /\ closes' = [closes EXCEPT ![l] = [n |-> @.n + n, paid |-> @.paid + n * price]]
       /\ cash' = cash + Proceeds(l, price) * n * Multiplier
  /\ UNCHANGED <<plan, shares, ticket, lost, row, mixed, missing, booked>>

\* Another trade buys the contract that this one is short, as the long leg of its own.
Mix ==
  /\ ~mixed /\ booked = NotYet /\ row.status # "none"
  /\ mixed' = TRUE
  /\ \E price \in ClosePrices :
       closes' = [closes EXCEPT !["short"] = [n |-> @.n + 1, paid |-> @.paid + price]]
  /\ UNCHANGED <<plan, shares, ticket, lost, row, legs, missing, cash, booked>>

-----------------------------------------------------------------------------
(* The poller.                                                             *)

\* The ticker is listed by the shares alone.
Listed == shares > 0

\* Executions of the ticker, of whatever contract.
Traded == ticket.filled > 0 \/ \E l \in Sides : closes[l].n > 0

\* A pending row is confirmed when the ticker is listed or has traded, with the shares
\* listed as its quantity; after its grace it is cancelled, and with it the ticker's
\* working orders.
PollPending ==
  /\ row.status = "pending"
  /\ \E heard \in BOOLEAN :
       IF Listed \/ (heard /\ Traded)
       THEN /\ row' = [row EXCEPT !.status = "open",
                                  !.quantity = IF Listed THEN shares ELSE @]
            /\ UNCHANGED ticket
       ELSE /\ row' = [row EXCEPT !.status = "cancelled"]
            /\ ticket' = [ticket EXCEPT !.state = "done"]
  /\ UNCHANGED <<plan, shares, lost, legs, closes, mixed, missing, cash, booked>>

\* The average price of the executions that closed the short leg less that of the long,
\* rounded to a hundredth of a cent.
CostToClose ==
  LET s == closes["short"]
      l == closes["long"]
  IN  Rounded(100 * (s.paid * l.n - l.paid * s.n), s.n * l.n)

ExitKnown == \A l \in Sides : closes[l].n > 0

\* In hundredths of a cent.
ProfitOrLoss == (100 * row.credit - CostToClose) * row.quantity * Multiplier

\* An open row whose ticker is not listed: it is booked at the price of its closing
\* executions, or, when none can be told for the length of the grace, as unknown.
PollMissing ==
  /\ row.status = "open" /\ ~Listed
  /\ \E heard \in BOOLEAN :
       \/ /\ heard /\ ExitKnown
          /\ row' = [row EXCEPT !.status = "closed"]
          /\ booked' = [as |-> "known", pnl |-> ProfitOrLoss]
          /\ missing' = 0
       \/ /\ ~(heard /\ ExitKnown) /\ missing < Grace
          /\ missing' = missing + 1
          /\ UNCHANGED <<row, booked>>
       \/ /\ ~(heard /\ ExitKnown) /\ missing = Grace
          /\ row' = [row EXCEPT !.status = "closed"]
          /\ booked' = [as |-> "unknown", pnl |-> 0]
          /\ missing' = 0
  /\ UNCHANGED <<plan, shares, ticket, lost, legs, closes, mixed, cash>>

Next ==
  \/ Place \/ Fill \/ End \/ Retry \/ LoseResult
  \/ CloseLeg \/ Mix
  \/ PollPending \/ PollMissing

Spec == Init /\ [][Next]_vars

-----------------------------------------------------------------------------

TypeOK ==
  /\ plan \in [quantity : Sizes, credit : Credits] /\ shares \in Holdings
  /\ ticket.state \in {"none", "working", "done"} /\ ticket.tries \in 0 .. MaxRetries
  /\ lost \in BOOLEAN /\ mixed \in BOOLEAN /\ missing \in 0 .. Grace
  /\ row.status \in {"none", "pending", "open", "cancelled", "closed"}
  /\ legs \in [Sides -> Nat] /\ cash \in Int /\ booked.as \in {"no", "unknown", "known"}

WholeAndAsPlanned ==
  /\ ticket.filled = ComboSize.total /\ ticket.price = Credit
  /\ row.quantity = plan.quantity

\* A P&L that is booked for a spread that is wholly closed is the cash it brought, to
\* half a cent per contract, unless it filled in part, at another price than the signal's or after its result was
\* lost with shares of the ticker held, or another trade's execution was taken for its own.
BookedIsCash ==
  booked.as = "known" /\ (\A l \in Sides : legs[l] = 0) /\ WholeAndAsPlanned /\ ~mixed =>
    2 * (booked.pnl - 100 * cash) \in -(100 * plan.quantity) .. 100 * plan.quantity

\* An order that never filled is recorded as a position only when shares or another
\* trade of the ticker are mistaken for it.
PhantomTakesAnotherTrade ==
  row.status \in {"open", "closed"} /\ ticket.filled = 0 /\ ticket.state = "done" => Listed \/ mixed

\* Never more contracts of a leg than the signal names, and no credit is lowered to nothing.
OrderIsThePlan ==
  /\ \A l \in Sides : legs[l] <= plan.quantity
  /\ Credit > 0 /\ ticket.filled > 0 => ticket.price > 0

SpreadLedgerHolds == BookedIsCash /\ PhantomTakesAnotherTrade /\ OrderIsThePlan

\* What the poller books as closed is gone from the broker: "When a position disappears
\* from IBKR (fully closed)".
ClosedWhenGone ==
  [][row'.status = "closed" /\ row.status = "open" => \A l \in Sides : legs[l] = 0]_vars
=============================================================================
