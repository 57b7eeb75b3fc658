---------------------------- MODULE StopBackfill ----------------------------
(***************************************************************************)
(* One pass of backfill_equity_stops over one symbol: probe the table, ask *)
(* the broker for its order book, read the live positions, read the table  *)
(* again and record the stop.  The position, its protective orders and the *)
(* rows go on moving between the reads.                                    *)
(***************************************************************************)
EXTENDS Integers, FiniteSets, Functions

CONSTANTS
  Rows,      \* rows of the symbol
  Legs,      \* protective orders
  Prices,    \* of entries and stops, in units far above 0.1% of one another
  MaxQty,    \* of a position and of an order
  MaxMoves,  \* bound on what happens at the broker and in the table
  None

VARIABLES
  position,  \* signed quantity at the broker
  leg,       \* each protective order: its side, stop price and remaining quantity
  row,       \* each row: open or not, its side, entry and recorded stop
  at,        \* where the pass is
  seen,      \* what the pass has read at the broker
  moves,     \* moves so far
  (* history, read by the properties only *)
  moved      \* the broker has moved since the pass read the order book

vars == <<position, leg, row, at, seen, moves, moved>>

Sides == {"long", "short"}

\* A recorded stop is a fraction: the sum of the tranches' prices over the
\* quantity they cover.
NoStop == [sum |-> 0, over |-> 0]

Size(n) == IF n < 0 THEN -n ELSE n

Unread == [book |-> <<>>, position |-> 0]

Exits(side) == IF side = "long" THEN "SELL" ELSE "BUY"

Resting == {l \in Legs : leg[l] # None}

Init ==
  /\ position \in (-MaxQty .. MaxQty) \ {0}
  /\ leg \in [Legs -> {None} \cup
                [action : {"BUY", "SELL"}, price : Prices, qty : 1 .. MaxQty]]
  /\ row \in [Rows -> [open : {TRUE}, side : Sides, entry : Prices, stop : {NoStop}]]
  /\ \A r \in Rows : row[r].side = IF position > 0 THEN "long" ELSE "short"
  /\ at = "idle" /\ seen = Unread
  /\ moves = 0 /\ moved = FALSE

TypeOK ==
  /\ position \in -MaxQty .. MaxQty
  /\ at \in {"idle", "probed", "booked", "located"}
  /\ DOMAIN seen.book \subseteq Legs /\ moves \in 0 .. MaxMoves
  /\ \A r \in Rows : row[r].stop.over \in 0 .. MaxQty

-----------------------------------------------------------------------------
(* The decision on one row.                                                *)

\* equity_stop_distance: the row has a stop on the losing side of its entry.
Trusted(t) ==
  /\ t.stop.over > 0
  /\ IF t.side = "long" THEN t.stop.sum < t.entry * t.stop.over
     ELSE t.stop.sum > t.entry * t.stop.over

Stopless == {r \in Rows : row[r].open /\ ~Trusted(row[r])}

\* _weighted_stop of the orders of a book.
Blend(book) ==
  [sum  |-> SumFunction([l \in DOMAIN book |-> book[l].price * book[l].qty]),
   over |-> SumFunction([l \in DOMAIN book |-> book[l].qty])]

\* mutant of Covers: some of the position is covered.
CoversSome(stop, quantity) == stop.over > 0

\* Full coverage or nothing.
Covers(stop, quantity) == stop.over = quantity

Backfills(t, book, quantity) ==
  LET stop == Blend(book)
  IN  /\ quantity # 0 /\ DOMAIN book # {}
      /\ \A l \in DOMAIN book : book[l].action = Exits(t.side)
      /\ Covers(stop, Size(quantity))
      /\ Trusted([t EXCEPT !.stop = stop])

-----------------------------------------------------------------------------
(* The pass.                                                               *)

Probe ==
  /\ at = "idle" /\ Stopless # {} /\ at' = "probed"
  /\ UNCHANGED <<position, leg, row, seen, moves, moved>>

\* get_open_orders; a book that came from the cache is refused.
ReadBook ==
  /\ at = "probed" /\ moved' = FALSE
  /\ \/ at' = "booked" /\ seen' = [seen EXCEPT !.book = Restrict(leg, Resting)]
     \/ at' = "idle" /\ UNCHANGED seen
  /\ UNCHANGED <<position, leg, row, moves>>

ReadPositions ==
  /\ at = "booked"
  /\ \/ at' = "located" /\ seen' = [seen EXCEPT !.position = position]
     \/ at' = "idle" /\ UNCHANGED seen
  /\ UNCHANGED <<position, leg, row, moves, moved>>

\* The table is read again, and every row decided on and written in one go; a
\* failure writes none.
Finish ==
  /\ at = "located" /\ at' = "idle" /\ seen' = Unread
  /\ row' \in {row,
       [r \in Rows |->
          IF r \in Stopless /\ Backfills(row[r], seen.book, seen.position)
          THEN [row[r] EXCEPT !.stop = Blend(seen.book)] ELSE row[r]]}
  /\ UNCHANGED <<position, leg, moves, moved>>

-----------------------------------------------------------------------------
(* Meanwhile.                                                              *)

Moves == moves < MaxMoves /\ moves' = moves + 1

\* An order fires, in part or in full, and takes its quantity off the position.
LegFires ==
  /\ Moves /\ moved' = TRUE
  /\ \E l \in Resting :
       \E q \in 1 .. leg[l].qty :
         /\ position' = IF leg[l].action = "SELL" THEN position - q ELSE position + q
         /\ Size(position') <= MaxQty
         /\ leg' = [leg EXCEPT ![l] = IF q = @.qty THEN None ELSE [leg[l] EXCEPT !.qty = @ - q]]
  /\ UNCHANGED <<row, at, seen>>

\* An order is cancelled or placed; shares are bought or sold without it.
BrokerMoves ==
  /\ Moves /\ moved' = TRUE
  /\ \/ /\ \E l \in Resting : leg' = [leg EXCEPT ![l] = None]
        /\ UNCHANGED position
     \/ /\ position' \in {position - 1, position + 1} /\ Size(position') <= MaxQty
        /\ UNCHANGED leg
  /\ UNCHANGED <<row, at, seen>>

\* Another task books the row as closed.
RowCloses ==
  /\ Moves
  /\ \E r \in Rows : row[r].open /\ row' = [row EXCEPT ![r].open = FALSE]
  /\ UNCHANGED <<position, leg, at, seen, moved>>

Next ==
  Probe \/ ReadBook \/ ReadPositions \/ Finish \/ LegFires \/ BrokerMoves \/ RowCloses

Spec == Init /\ [][Next]_vars

-----------------------------------------------------------------------------
(* Properties.                                                             *)

\* What the whole position loses if its protective orders fire at their stops;
\* an order that has been moved past the entry makes up for others.
LossAtLegs(t) ==
  SumFunction([l \in Resting |-> leg[l].qty * (IF t.side = "long" THEN t.entry - leg[l].price
                                               ELSE leg[l].price - t.entry)])

(***************************************************************************)
(* Unless the broker moved between the reads, the single stop that a row   *)
(* gets risks on the live position exactly what its orders risk one by one,*)
(* and they cover all of it: the blend understates nothing.                *)
(***************************************************************************)
BlendIsExact ==
  [][\A r \in Rows :
       row'[r].stop # row[r].stop /\ ~moved =>
         LET t == row'[r]
         IN  /\ Size(t.entry * t.stop.over - t.stop.sum) = LossAtLegs(t)
             /\ SumFunction([l \in Resting |-> leg[l].qty]) = Size(position)]_vars
=============================================================================
