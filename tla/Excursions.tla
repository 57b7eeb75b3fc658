----------------------------- MODULE Excursions -----------------------------
(***************************************************************************)
(* What is measured of a trade while it is open, and the name its close is *)
(* given.  Two passes of the background loop measure how far a trade ran   *)
(* for and against it, each into columns of its own: one from all that is  *)
(* held on the underlying, the other from the shares.  When the position   *)
(* is gone the second also takes the exit from the executions and asks     *)
(* which of its levels was hit.  One underlying; every row is for one      *)
(* share, entered at Entry, or for a spread.                               *)
(***************************************************************************)
EXTENDS Integers, FiniteSetsExt, SequencesExt

CONSTANTS
  Rows,      \* of the table, numbered as they are recorded
  Entry,     \* the price at which all enter
  Prices,    \* where the price may go
  Plans,     \* [kind, stop, target]; None where a level is missing
  Marks,     \* unrealized profits of an option position
  MaxShares, MaxFills,
  MaxMoves,  \* moves of the price and of the option
  None

VARIABLES
  price,
  shares,    \* held at the broker, signed
  option,    \* the option position's unrealized profit, or None
  fills,     \* prices of the executions that closed shares
  row,       \* each row, or None
  missing,   \* _close_pending: rows found without a position
  moves,     \* how often the market has moved
  (* history *)
  own,       \* how far each row's own share ran
  mixed      \* rows whose measure another position entered, by pass

Reasons == {"closed_at_broker", "stop_hit", "target_hit", "closed_price_unavailable"}

\* Prices are numbers, and a row that has no price yet is told from one.
ExcursionConstants ==
  /\ Entry \in Prices \cap Nat /\ Entry > 0 /\ Prices \subseteq Int /\ Marks \subseteq Int
  /\ MaxShares \in Nat /\ MaxFills \in Nat /\ None \notin Int \cup Reasons
  /\ None \notin [plan : Plans, born : Nat, reason : Reasons \cup {None}, mfe : Int \cup {None},
                  mae : Int \cup {None}, up : Int, down : Int, profit : Int \cup {None}]
  /\ \A p \in Plans : {p.stop, p.target} \subseteq Int \cup {None}

vars == <<price, shares, option, fills, row, missing, moves, own, mixed>>

Sign(plan) == IF plan.kind = "equity_short" THEN -1 ELSE 1
IsEquity(r) == row[r] # None /\ row[r].plan.kind \in {"equity_long", "equity_short"}
Open == {r \in Rows : row[r] # None /\ row[r].reason = None}
Held == shares # 0

Init ==
  /\ price = Entry /\ shares = 0 /\ option = None /\ fills = <<>>
  /\ row = [r \in Rows |-> None] /\ missing = {} /\ moves = 0
  /\ own = [r \in Rows |-> [up |-> 0, down |-> 0]]
  /\ mixed = [track |-> {}, poll |-> {}]

-----------------------------------------------------------------------------
(* Meanwhile.                                                              *)

\* A row is recorded for a share just bought or sold short, or for a spread.
Enter(r, plan) ==
  /\ r = Min({q \in Rows : row[q] = None}) /\ price = Entry
  /\ row' = [row EXCEPT ![r] = [plan |-> plan, born |-> Len(fills), reason |-> None,
                                mfe |-> None, mae |-> None, up |-> 0, down |-> 0,
                                profit |-> None]]
  /\ IF plan.kind = "put" THEN UNCHANGED shares
     ELSE shares' = shares + Sign(plan) /\ shares' * Sign(plan) \in 1 .. MaxShares
  /\ UNCHANGED <<price, option, fills, missing, moves, own, mixed>>

Moves == moves < MaxMoves /\ moves' = moves + 1

\* The price moves, and with it what the rows' own shares would bring.
PriceMoves(p) ==
  /\ p # price /\ price' = p
  /\ own' = [r \in Rows |->
       IF r \notin Open \/ ~IsEquity(r) THEN own[r]
       ELSE LET mark == (p - Entry) * Sign(row[r].plan)
            IN  [up |-> Max({own[r].up, mark}), down |-> Min({own[r].down, mark})]]
  /\ Moves
  /\ UNCHANGED <<shares, option, fills, row, missing, mixed>>

\* An option on the underlying is bought, moves or goes.
OptionMoves ==
  /\ option' \in (Marks \cup {None}) \ {option}
  /\ Moves
  /\ UNCHANGED <<price, shares, fills, row, missing, own, mixed>>

\* A share is closed at the broker: a stop, a target, or another's order.
ShareCloses ==
  /\ Held /\ Len(fills) < MaxFills
  /\ shares' = IF shares > 0 THEN shares - 1 ELSE shares + 1
  /\ fills' = Append(fills, price)
  /\ UNCHANGED <<price, option, row, missing, moves, own, mixed>>

-----------------------------------------------------------------------------
(* The excursion tracker.                                                  *)

SharesMark == (price - Entry) * shares

\* A position without a mark adds nothing; no position, no mark.
UnderlyingMark(marked) ==
  LET parts == (IF Held /\ "shares" \in marked THEN {"shares"} ELSE {})
               \cup (IF option # None /\ "option" \in marked THEN {"option"} ELSE {})
      marks == [shares |-> SharesMark, option |-> option]
  IN  IF parts = {} THEN None ELSE SumFunctionOnSet(marks, parts)

\* More than one open row on the underlying is ambiguous and passed over.
Unambiguous == {r \in Open : Open = {r}}

Measured(r, mark) ==
  [row[r] EXCEPT !.up = Max({@, mark, 0}), !.down = Min({@, mark, 0})]

\* Every share held belongs to an open row.
Matched ==
  \/ ~Held
  \/ /\ \A r \in Open : IsEquity(r) => shares * Sign(row[r].plan) > 0
     /\ Max({shares, -shares}) = Cardinality({r \in Open : IsEquity(r)})

\* update_from_broker_positions
Track ==
  /\ \E marked \in SUBSET {"shares", "option"} :
       LET mark == UnderlyingMark(marked) IN
         row' = [r \in Rows |-> IF mark # None /\ r \in Unambiguous
                                THEN Measured(r, mark) ELSE row[r]]
  /\ mixed' = IF option = None /\ Matched
              THEN mixed ELSE [mixed EXCEPT !.track = @ \cup Open]
  /\ UNCHANGED <<price, shares, option, fills, missing, moves, own>>

-----------------------------------------------------------------------------
(* The fill poller.                                                        *)

\* update_excursion, with the profit of all the symbol's shares.
Advanced(r) ==
  [row[r] EXCEPT !.mfe = IF @ = None \/ SharesMark > @ THEN SharesMark ELSE @,
                 !.mae = IF @ = None \/ SharesMark < @ THEN SharesMark ELSE @]

\* _compute_exit_price: the mean of the closing executions since the entry.
ExitPrice(r, known) ==
  LET since == SubSeq(fills, row[r].born + 1, Len(fills)) IN
    IF ~IsEquity(r) \/ ~known \/ since = <<>> THEN None
    ELSE FoldSeq(LAMBDA f, sum : f + sum, 0, since) \div Len(since)

\* A stop within a thousandth of the entry or on its wrong side is a placeholder.
StopIsReal(plan) ==
  /\ plan.stop # None
  /\ (Entry - plan.stop) * Sign(plan) * 1000 >= Entry

\* A level with its tolerance of a quarter of a percent, which favours the label.
HitStop(plan, exit) ==
  /\ StopIsReal(plan)
  /\ IF plan.kind = "equity_short" THEN exit * 10000 >= plan.stop * 9975
     ELSE exit * 10000 <= plan.stop * 10025

HitTarget(plan, exit) ==
  /\ plan.target # None /\ (plan.target - Entry) * Sign(plan) > 0
  /\ IF plan.kind = "equity_short" THEN exit * 10000 <= plan.target * 10025
     ELSE exit * 10000 >= plan.target * 9975

\* classify_broker_exit
Label(plan, exit) ==
  CASE plan.kind = "put" \/ HitStop(plan, exit) = HitTarget(plan, exit) -> "closed_at_broker"
    [] HitStop(plan, exit)   -> "stop_hit"
    [] HitTarget(plan, exit) -> "target_hit"

\* record_exit
Closed(r, exit) ==
  [row[r] EXCEPT !.reason = Label(row[r].plan, exit),
                 !.profit = (exit - Entry) * Sign(row[r].plan)]

\* A row whose underlying is listed is measured; one that is not is closed if its exit
\* is known, and else when it was missing before and the grace is over.
Poll ==
  /\ \E known, graceOver \in BOOLEAN :
       /\ row' = [r \in Rows |->
            CASE r \notin Open -> row[r]
              [] r \in Open /\ Held -> Advanced(r)
              [] r \in Open /\ ~Held /\ ExitPrice(r, known) # None -> Closed(r, ExitPrice(r, known))
              [] r \in Open /\ ~Held /\ ExitPrice(r, known) = None ->
                   IF r \in missing /\ graceOver
                   THEN [row[r] EXCEPT !.reason = "closed_price_unavailable"] ELSE row[r]]
       /\ missing' = {r \in Open : ~Held /\ row'[r].reason = None}
  /\ mixed' = IF Matched /\ shares \in {-1, 0, 1} THEN mixed ELSE [mixed EXCEPT !.poll = @ \cup Open]
  /\ UNCHANGED <<price, shares, option, fills, moves, own>>

Next ==
  \/ \E r \in {q \in Rows : row[q] = None}, plan \in Plans : Enter(r, plan)
  \/ \E p \in Prices : PriceMoves(p)
  \/ OptionMoves \/ ShareCloses \/ Track \/ Poll

Spec == Init /\ [][Next]_vars

-----------------------------------------------------------------------------

TypeOK ==
  /\ price \in Prices /\ shares \in -MaxShares .. MaxShares /\ Len(fills) <= MaxFills
  /\ option \in Marks \cup {None} /\ missing \subseteq Open
  /\ \A r \in Rows : row[r] # None =>
       row[r].plan \in Plans /\ row[r].down <= 0 /\ row[r].up >= 0

\* What is measured of a row is what its own share went through, unless a pass of the
\* tracker met an option or a share that belongs to no open row, and one of the poller
\* such a share or a second one.
ExcursionIsOwn ==
  \A r \in Rows : IsEquity(r) =>
    /\ r \notin mixed.track => row[r].up <= own[r].up /\ row[r].down >= own[r].down
    /\ r \notin mixed.poll /\ row[r].mfe # None =>
         row[r].mfe <= own[r].up /\ row[r].mae >= own[r].down

\* What the close of a row says of its plan and profit, given the executions since.
Earned(q, since) ==
  LET far(level) == 10000 * Max({level - Entry, Entry - level}) > 26 * Entry
  IN  /\ q.reason = "stop_hit" =>
           /\ StopIsReal(q.plan) /\ \E f \in since : HitStop(q.plan, f)
           /\ far(q.plan.stop) => q.profit < 0
      /\ q.reason = "target_hit" =>
           /\ \E f \in since : HitTarget(q.plan, f)
           /\ far(q.plan.target) => q.profit > 0

\* A close that is called a stop has an execution at or through a trustworthy stop and
\* lost money unless that stop is within the tolerance of the entry; likewise a target.
LabelsAreEarned ==
  \A r \in Rows : row[r] # None =>
    Earned(row[r], {fills[i] : i \in row[r].born + 1 .. Len(fills)})

TradesAreMeasured == ExcursionIsOwn /\ LabelsAreEarned
=============================================================================
