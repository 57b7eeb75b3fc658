----------------------------- MODULE OrderCancel -----------------------------
(***************************************************************************)
(* Cancelling resting orders by id (api/routes/portfolio.py, cancel_orders *)
(* on the gateway client): read the order book, read the positions, refuse *)
(* the whole request if an order in it belongs to a held symbol, send, and *)
(* read the book again to report what is gone.  Orders fill and brackets   *)
(* take hold between those steps.  A position in shares is named by its    *)
(* symbol, one in options by its contract, which no order's symbol equals. *)
(***************************************************************************)
EXTENDS Naturals, FiniteSets

CONSTANTS
  None,
  Ids,          \* order ids
  OrderSymbol,  \* per id: the symbol and ...
  OrderSec,     \* ... "STK" or "OPT"
  Opens,        \* the ids that open a position when they fill; the others guard one
  MaxTurns      \* bound: fills and new positions

VARIABLES
  live,         \* orders working at the broker
  held,         \* positions: pairs of symbol and kind
  at,           \* where the request is
  asked,        \* the ids of the request
  book,         \* the order book as read
  names,        \* the names of the positions as read
  report,       \* per id asked: "gone", "open" or "unknown"
  stripped,     \* positions that lost a guarding order to the request
  crossed,      \* positions opened after the request read them
  turns

vars == <<live, held, at, asked, book, names, report, stripped, crossed, turns>>

Position(i) == <<OrderSymbol[i], OrderSec[i]>>

\* The symbols get_positions reports: an option is named by its contract.
HeldNames == {p[1] : p \in {q \in held : q[2] = "STK"}}

\* Orders of the request that belong to a held symbol.
Protected == {i \in asked \cap book : OrderSymbol[i] \in names}

Init ==
  /\ live \in SUBSET Ids
  /\ held \in SUBSET {Position(i) : i \in Ids}
  /\ at = "idle" /\ asked = {} /\ book = {} /\ names = {}
  /\ report = [i \in Ids |-> None]
  /\ stripped = {} /\ crossed = {} /\ turns = 0

\* The request reads the order book; only a refreshed reading will do.
ReadBook ==
  /\ at = "idle"
  /\ asked' \in SUBSET Ids \ {{}}
  /\ \/ at' = "booked" /\ book' = live
     \/ at' = "refused" /\ book' = {}
  /\ report' = [i \in Ids |-> None] /\ stripped' = {} /\ crossed' = {}
  /\ UNCHANGED <<live, held, names, turns>>

\* It reads the positions, or fails.
ReadPositions ==
  /\ at = "booked"
  /\ \/ at' = "checked" /\ names' = HeldNames
     \/ at' = "refused" /\ UNCHANGED names
  /\ UNCHANGED <<live, held, asked, book, report, stripped, crossed, turns>>

\* One protected order refuses them all.
Refuse ==
  /\ at = "checked" /\ Protected # {}
  /\ at' = "refused"
  /\ UNCHANGED <<live, held, asked, book, names, report, stripped, crossed, turns>>

\* cancel_orders_by_id: each id the client knows is cancelled; IBKR may leave
\* some of them working, out of hours for one.
Send ==
  /\ at = "checked" /\ Protected = {}
  /\ at' = "sent"
  /\ \E kept \in SUBSET asked :
       /\ live' = live \ (asked \ kept)
       /\ stripped' = {Position(i) : i \in (asked \cap live) \ (kept \cup Opens)} \cap held
  /\ UNCHANGED <<held, asked, book, names, report, crossed, turns>>

\* The book is read once more, or cannot be.
Verify ==
  /\ at = "sent"
  /\ at' = "done"
  /\ \E readable \in BOOLEAN :
       report' = [i \in Ids |-> IF i \notin asked THEN None
                                ELSE IF ~readable THEN "unknown"
                                ELSE IF i \in live THEN "open" ELSE "gone"]
  /\ UNCHANGED <<live, held, asked, book, names, stripped, crossed, turns>>

\* The next request.
Again ==
  /\ at \in {"refused", "done"}
  /\ at' = "idle"
  /\ UNCHANGED <<live, held, asked, book, names, report, stripped, crossed, turns>>

\* An order fills: an entry opens its position, a guard closes it.
Fill(i) ==
  /\ turns < MaxTurns /\ i \in live
  /\ turns' = turns + 1
  /\ live' = live \ {i}
  /\ IF i \in Opens
     THEN /\ held' = held \cup {Position(i)}
          /\ crossed' = IF at = "checked" THEN crossed \cup {Position(i)} ELSE crossed
     ELSE held' = held \ {Position(i)} /\ UNCHANGED crossed
  /\ UNCHANGED <<at, asked, book, names, report, stripped>>

\* A new order is placed under an id.
Place(i) ==
  /\ turns < MaxTurns /\ i \notin live
  /\ turns' = turns + 1
  /\ live' = live \cup {i}
  /\ UNCHANGED <<held, at, asked, book, names, report, stripped, crossed>>

Next ==
  \/ ReadBook \/ ReadPositions \/ Refuse \/ Send \/ Verify \/ Again
  \/ \E i \in Ids : Fill(i) \/ Place(i)

-----------------------------------------------------------------------------
TypeOK ==
  /\ live \subseteq Ids /\ asked \subseteq Ids /\ book \subseteq Ids
  /\ at \in {"idle", "booked", "checked", "sent", "done", "refused"}
  /\ report \in [Ids -> {None, "gone", "open", "unknown"}]
  /\ held \cup stripped \cup crossed \subseteq {Position(i) : i \in Ids}

\* A position in shares loses a guarding order only if it was opened after
\* the request had read the positions, or the order placed after the book was;
\* and a request that was refused has cancelled nothing.
StrippingTakesARace ==
  /\ \A p \in stripped : p[2] = "STK" =>
       p \in crossed \/ \E i \in asked \ (book \cup Opens) : Position(i) = p
  /\ at = "refused" => stripped = {}
=============================================================================
