----------------------------- MODULE OrderRetry -----------------------------
(***************************************************************************)
(* One call of IBKRClient.place_order (options, a combo) or of             *)
(* place_equity_order: submit, poll the order's status until it fills,     *)
(* ends or times out, and cancel and resubmit a limit order at a better    *)
(* price.                                                                  *)
(*                                                                         *)
(* The call reads the local copy of the order's status, which trails the   *)
(* broker; a cancel is a request, and the order may fill before it lands.  *)
(***************************************************************************)
EXTENDS Integers, FiniteSets, Functions

CONSTANTS
  Qty,         \* quantity the call is for
  MaxRetries   \* settings.max_order_retries

Attempts == 1 .. MaxRetries + 1

VARIABLES
  kind,        \* "combo": place_order, "equity": place_equity_order
  market,      \* a market order rather than a limit order
  at,          \* where the call is
  attempt,     \* the loop's counter
  seen,        \* local copy of the present order's status
  result,      \* status of the OrderResult
  reported,    \* filled_quantity of the OrderResult (place_order only)
  state,       \* each attempt's order at the broker
  dying,       \* attempts whose order a cancel has been sent for
  filled,      \* quantity each attempt's order has filled at the broker
  late         \* attempts that filled unseen by the time they were cancelled

call == <<at, attempt, result, reported>>
book == <<state, dying, filled, late>>
vars == <<kind, market, call, seen, book>>

Unseen == [ended |-> FALSE, filled |-> 0]

TypeOK ==
  /\ kind \in {"combo", "equity"} /\ market \in BOOLEAN
  /\ at \in {"submit", "awaiting", "cancelling", "returned", "raised"}
  /\ attempt \in Attempts
  /\ seen \in [ended : BOOLEAN, filled : 0 .. Qty]
  /\ result \in {"none", "filled", "partial", "submitted", "cancelled",
                 "rejected"}
  /\ reported \in 0 .. Qty
  /\ state \in [Attempts -> {"none", "working", "done"}]
  /\ dying \subseteq Attempts /\ late \subseteq Attempts
  /\ filled \in [Attempts -> 0 .. Qty]

Init ==
  /\ kind \in {"combo", "equity"} /\ market \in BOOLEAN
  /\ at = "submit" /\ attempt = 1
  /\ seen = Unseen /\ result = "none" /\ reported = 0
  /\ state = [a \in Attempts |-> "none"] /\ dying = {} /\ late = {}
  /\ filled = [a \in Attempts |-> 0]

LastAttempt == IF market THEN 1 ELSE MaxRetries + 1

Return(status, quantity) ==
  /\ at' = "returned" /\ result' = status /\ reported' = quantity
  /\ UNCHANGED attempt

\* ib.cancelOrder on the present order.
CancelIt ==
  /\ dying' = dying \cup {attempt}
  /\ late' = IF filled[attempt] > seen.filled THEN late \cup {attempt} ELSE late
  /\ UNCHANGED <<state, filled>>

-----------------------------------------------------------------------------
(* The call.                                                               *)

\* ib.placeOrder: the status of the new order starts blank.
Submit ==
  /\ at = "submit"
  /\ at' = "awaiting"
  /\ state' = [state EXCEPT ![attempt] = "working"]
  /\ seen' = Unseen
  /\ UNCHANGED <<kind, market, attempt, result, reported, dying, filled, late>>

\* A status message of the present order reaches the process.
StatusArrives ==
  /\ at \in {"awaiting", "cancelling"}
  /\ seen' = [ended |-> state[attempt] = "done", filled |-> filled[attempt]]
  /\ seen' # seen
  /\ UNCHANGED <<kind, market, call, book>>

SeesFill ==
  /\ at = "awaiting" /\ seen.filled = Qty
  /\ Return("filled", Qty)
  /\ UNCHANGED <<kind, market, seen, book>>

(***************************************************************************)
(* The order ended short.  What had filled by then is reported as partial  *)
(* by place_order and as filled by place_equity_order, whose result has no *)
(* such status.                                                            *)
(***************************************************************************)
SeesEnd ==
  /\ at = "awaiting" /\ seen.ended /\ seen.filled < Qty
  /\ \/ /\ seen.filled > 0
        /\ Return(IF kind = "combo" THEN "partial" ELSE "filled", seen.filled)
     \/ /\ seen.filled = 0
        /\ \E status \in {"cancelled", "rejected"} : Return(status, 0)
  /\ UNCHANGED <<kind, market, seen, book>>

TimedOut == at = "awaiting" /\ ~seen.ended /\ seen.filled < Qty

\* place_order: a part has filled, the rest is cancelled.
TimesOutPartly ==
  /\ TimedOut /\ kind = "combo" /\ seen.filled > 0
  /\ CancelIt
  /\ Return("partial", seen.filled)
  /\ UNCHANGED <<kind, market, seen>>

\* A market order is left working.
LeavesMarketOrder ==
  /\ TimedOut /\ market /\ (kind = "equity" \/ seen.filled = 0)
  /\ Return("submitted", 0)
  /\ UNCHANGED <<kind, market, seen, book>>

\* A limit order is cancelled and the call sleeps for two seconds.
TimesOut ==
  /\ TimedOut /\ ~market /\ (kind = "equity" \/ seen.filled = 0)
  /\ CancelIt
  /\ at' = "cancelling"
  /\ UNCHANGED <<kind, market, attempt, seen, result, reported>>

\* mutant of Retry: the loop does not advance.
RetryForever ==
  /\ at = "cancelling" /\ attempt < LastAttempt
  /\ at' = "submit"
  /\ UNCHANGED <<kind, market, attempt, seen, result, reported, book>>

\* It wakes with attempts left and a price still above zero.
Retry ==
  /\ at = "cancelling" /\ attempt < LastAttempt
  /\ at' = "submit" /\ attempt' = attempt + 1
  /\ UNCHANGED <<kind, market, seen, result, reported, book>>

\* Or the attempts are used up, or the price has reached zero: whatever the
\* cancelled order has done meanwhile, nothing is reported as filled.
GivesUp ==
  /\ at = "cancelling"
  /\ Return("cancelled", 0)
  /\ UNCHANGED <<kind, market, seen, book>>

\* placeOrder or cancelOrder raises: the gateway connection is gone.
Raises ==
  /\ \/ at = "submit"
     \/ TimedOut /\ (market => kind = "combo" /\ seen.filled > 0)
  /\ at' = "raised"
  /\ UNCHANGED <<kind, market, attempt, seen, result, reported, book>>

-----------------------------------------------------------------------------
(* The broker.                                                             *)

\* A working order fills by n, whether or not a cancel is on its way.
Fill(a) ==
  /\ state[a] = "working"
  /\ \E n \in 1 .. Qty - filled[a] :
       /\ filled' = [filled EXCEPT ![a] = @ + n]
       /\ state' = [state EXCEPT
                      ![a] = IF filled[a] + n = Qty THEN "done" ELSE @]
  /\ late' = IF a \in dying THEN late \cup {a} ELSE late
  /\ UNCHANGED <<kind, market, call, seen, dying>>

\* It ends: cancelled, rejected, expired.
End(a) ==
  /\ state[a] = "working"
  /\ state' = [state EXCEPT ![a] = "done"]
  /\ UNCHANGED <<kind, market, call, seen, dying, filled, late>>

-----------------------------------------------------------------------------
CallStep ==
  \/ Submit \/ SeesFill \/ SeesEnd \/ TimesOutPartly \/ LeavesMarketOrder
  \/ TimesOut \/ Retry \/ GivesUp

Over == at \in {"returned", "raised"} /\ UNCHANGED vars

Next ==
  \/ CallStep \/ StatusArrives \/ Raises \/ Over
  \/ \E a \in Attempts : Fill(a) \/ End(a)

Spec == Init /\ [][Next]_vars

\* The sleeping call is resumed: its timers run out.
FairSpec == Spec /\ WF_vars(CallStep)

-----------------------------------------------------------------------------
(* Properties the code has.                                                *)

(***************************************************************************)
(* An order nobody has cancelled is the one the call is watching, or the   *)
(* market order it reports as submitted, or one the lost connection left   *)
(* behind: a returned call leaves nothing else working (both functions;    *)
(* the docstring of place_equity_order tells of the orders that were).     *)
(* And what place_order reports is true: "partial fills ... are NEVER      *)
(* reported as a clean fill", and a reported part has filled.              *)
(***************************************************************************)
NothingLeftWorking ==
  /\ \A a \in Attempts : state[a] = "working" /\ a \notin dying =>
       a = attempt /\ (at \in {"awaiting", "raised"} \/ result = "submitted")
  /\ kind = "combo" =>
       /\ result = "filled" => filled[attempt] = Qty
       /\ reported <= filled[attempt]

(***************************************************************************)
(* place_order buys more than it was asked for only if an order filled     *)
(* unseen before, or after, the call cancelled it: the code sees no part   *)
(* of a fill and submits the full quantity again.                          *)
(***************************************************************************)
ComboExcessTakesARace ==
  kind = "combo" /\ SumFunctionOnSet(filled, Attempts) > Qty
    => \E a \in late : filled[a] > 0

-----------------------------------------------------------------------------
(* What the repository says and the code does not do.                      *)

(***************************************************************************)
(* place_equity_order retries "mirroring place_order's (options) existing  *)
(* behavior", and its own warning reads "not retrying (would double the    *)
(* filled portion)": an order seen to have filled in part is not replaced. *)
(***************************************************************************)
PartlyFilledNotReplaced ==
  [][at = "cancelling" /\ at' = "submit" => seen.filled = 0 \/ attempt \in late]_vars
=============================================================================
