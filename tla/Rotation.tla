------------------------------ MODULE Rotation ------------------------------
(***************************************************************************)
(* The rehearsal of a rotation: the thirteen checks of the preflight, the  *)
(* position that ranks worst, its comparison with a challenger, and the    *)
(* order that would close it.  Each read is an await; fills, closes and    *)
(* stops go on meanwhile.  Scores are in percent.                          *)
(***************************************************************************)
EXTENDS Integers, FiniteSetsExt, SequencesExt

CONSTANTS
  Rows,         \* of the table
  Facts,        \* each row's symbol, kind, entry price, age and scores
  Symbols,
  Pool,         \* the orders that may rest at the broker, by name
  Challengers,  \* the signals to compare with
  Pnls, Value,  \* unrealized profits; the account's value
  MaxShares, Floor, Margin, MaxHeat,
  None

VARIABLES
  open,      \* the quantity of each open row; 0: not open
  shares,    \* the equity positions at the broker, signed
  contracts, \* option contracts held, under symbols of their own
  resting,   \* the orders at the broker
  run,       \* the rehearsal
  moved      \* history: something changed since the rehearsal began

vars == <<open, shares, contracts, resting, run, moved>>

Intents == [side : {"SELL", "BUY"}, quantity : 0 .. MaxShares]

\* The table is finite, and what is known of a row is a number.
RotationConstants ==
  /\ IsFiniteSet(Rows) /\ None \notin Rows \cup Intents /\ MaxShares \in Nat \ {0}
  /\ \A r \in Rows :
       /\ Facts[r].symbol \in Symbols
       /\ {Facts[r].quality, Facts[r].confidence} \subseteq Int \cup {None}
       /\ Facts[r].born \in Int

Kinds == {"equity_long", "equity_short", "put", "call"}
Idle == [at |-> "idle", seen |-> None, failed |-> FALSE, held |-> {}, worst |-> None,
         challenger |-> None, advice |-> None, stillOpen |-> FALSE, intent |-> None]

TypeOK ==
  /\ open \in [Rows -> 0 .. MaxShares]
  /\ shares \in [Symbols -> -MaxShares .. MaxShares] /\ contracts \in Nat
  /\ resting \subseteq DOMAIN Pool /\ moved \in BOOLEAN
  /\ run.worst \in Rows \cup {None}
  /\ run.advice \in {None, "replace", "hold", "insufficient_data"}
  /\ run.intent \in Intents \cup {None}

\* Tables and positions that agree, and others.
Init ==
  /\ open \in [Rows -> 0 .. MaxShares]
  /\ shares \in [Symbols -> -1 .. MaxShares] /\ contracts \in {0, 2}
  /\ resting \in SUBSET DOMAIN Pool
  /\ run = Idle /\ moved = FALSE

Abs(n) == Max({n, -n})

OpenRows == {r \in Rows : open[r] > 0}

\* What a reading of the table says is held of a symbol.
Total(seen, s) == MapThenSumSet(LAMBDA r : seen[r], {r \in Rows : Facts[r].symbol = s})

-----------------------------------------------------------------------------
(* The preflight.                                                          *)

\* _positions_synchronized, on the rows read before: every symbol of either
\* side has the same absolute quantity on both.  Option contracts are under
\* symbols that no row has.
Agree(seen) ==
  /\ contracts = 0
  /\ \A s \in Symbols : Total(seen, s) = Abs(shares[s])

\* Each order's symbol is held, no two are the same, and no stop without a
\* parent is on a symbol that is not held.
OrdersClear(held) ==
  /\ \A o \in resting : Pool[o].symbol \in held
  /\ \A o, p \in resting : o # p => Pool[o] # Pool[p]
  /\ ~\E o \in resting :
        Pool[o].protective /\ ~Pool[o].parent /\ Pool[o].symbol \notin held

Held == {s \in Symbols : shares[s] # 0}

-----------------------------------------------------------------------------
(* Which position to give up.                                              *)

\* The rank, ascending: quality, then a flagged cluster, confidence and age;
\* what is not known comes last.
Rank(r) ==
  LET f == Facts[r]
  IN  <<IF f.quality = None THEN 1000 ELSE f.quality,
        IF f.flagged = TRUE THEN 0 ELSE 1,
        IF f.confidence = None THEN 1000 ELSE f.confidence, f.born>>

Before(a, b) ==
  \E i \in 1 .. 4 : a[i] < b[i] /\ \A j \in 1 .. i - 1 : a[j] = b[j]

\* _unrealized_by_position: the broker's own figures by symbol and class, from one
\* call; a position may come without one, and a call that fails brings none.
Class(r) == IF Facts[r].kind \in {"put", "call"} THEN "options" ELSE "equity"

Key(r) == <<Facts[r].symbol, Class(r)>>

Reports ==
  LET keys == {<<s, "equity">> : s \in {x \in Symbols : shares[x] # 0}}
              \cup {Key(r) : r \in {q \in Rows : Class(q) = "options" /\ contracts # 0}}
  IN  UNION {[known -> Pnls] : known \in SUBSET keys}

\* Rows of one symbol and class share a figure; absent is unknown, never zero.
Unrealized(report) ==
  [r \in OpenRows |-> IF Key(r) \in DOMAIN report THEN report[Key(r)] ELSE None]

\* Winner protection: a position above the floor, or of unknown profit, is no
\* candidate, nor is the challenger's own symbol.
Eligible(rows, pnl, incoming) ==
  {r \in rows : /\ Facts[r].symbol # incoming /\ Facts[r].kind \in Kinds
                /\ pnl[r] # None /\ pnl[r] <= Floor}

\* propose_rotation_incumbent: exactly one.
Worst(rows, pnl, incoming) ==
  LET able == Eligible(rows, pnl, incoming)
  IN  IF able = {} THEN None
      ELSE CHOOSE r \in able : \A q \in able : ~Before(Rank(q), Rank(r))

-----------------------------------------------------------------------------
(* The comparison.                                                         *)

\* Six times the mean of the scores there are.
Composite(f) ==
  LET known == {k \in {"alpha", "quality", "confidence"} : f[k] # None}
  IN  IF known = {} THEN None
      ELSE (MapThenSumSet(LAMBDA k : f[k], known) * 6) \div Cardinality(known)

\* A constraint that cannot be verified is not met.
Vetoed(challenger, heat) ==
  \/ challenger.liquid # TRUE \/ challenger.flagged = TRUE
  \/ heat = None \/ heat * 100 > MaxHeat * Value

Review(incumbent, challenger, heat) ==
  IF Composite(incumbent) = None \/ Composite(challenger) = None
  THEN "insufficient_data"
  ELSE IF \/ Vetoed(challenger, heat)
          \/ Composite(challenger) - Composite(incumbent) < 6 * Margin
       THEN "hold" ELSE "replace"

Scores(r) ==
  IF r = None THEN [alpha |-> None, quality |-> None, confidence |-> None]
  ELSE [alpha |-> None, quality |-> Facts[r].quality, confidence |-> Facts[r].confidence]

\* _portfolio_heat_fraction: what the open rows risk down to their stops; None
\* if one has no protective order.  Of several the highest price counts.
Stop(s) ==
  LET prices == {Pool[o].price : o \in {q \in resting : Pool[q].symbol = s /\ Pool[q].protective}}
  IN  IF prices = {} THEN None ELSE Max(prices)

\* Mutant: a row without a stop adds nothing.
HeatOfCovered(rows) ==
  MapThenSumSet(LAMBDA r : Abs(Facts[r].entry - Stop(Facts[r].symbol)) * open[r],
                {r \in rows : Stop(Facts[r].symbol) # None})

Heat(rows) ==
  IF \E r \in rows : Stop(Facts[r].symbol) = None \/ Facts[r].entry <= 0 THEN None
  ELSE MapThenSumSet(LAMBDA r : Abs(Facts[r].entry - Stop(Facts[r].symbol)) * open[r], rows)

-----------------------------------------------------------------------------
(* The rehearsal, read by read.                                            *)

Still == UNCHANGED <<open, shares, contracts, resting>>

At(where) == run.at = where /\ Still /\ UNCHANGED moved

ReadRows ==
  /\ run.at = "idle" /\ Still /\ moved' = FALSE
  /\ run' = [Idle EXCEPT !.at = "rows", !.seen = open]

\* Any other check of the preflight may fail, or not be readable, here.
Synchronized ==
  /\ At("rows")
  /\ \E other \in BOOLEAN :
       run' = [run EXCEPT !.at = "positions", !.failed = other \/ ~Agree(run.seen)]

ReadHeld ==
  /\ At("positions")
  /\ run' = [run EXCEPT !.at = "held", !.held = Held]

ReadOrders ==
  /\ At("held")
  /\ run' = [run EXCEPT !.at = "checked", !.failed = @ \/ ~OrdersClear(run.held)]

\* A preflight that is not clear ends the rehearsal unless it is overridden.
Blocked ==
  /\ At("checked") /\ run.failed /\ run' = Idle

Detect ==
  /\ At("checked")
  /\ \E report \in Reports, c \in Challengers :
       LET worst == Worst(OpenRows, Unrealized(report), c.symbol)
       IN  run' = [run EXCEPT !.at = "detected", !.worst = worst, !.challenger = c]

\* The heat's own read of the table and of the orders, and the review.
Compare ==
  /\ At("detected")
  /\ \E refreshed \in BOOLEAN :
       run' = [run EXCEPT !.at = "compared",
                 !.advice = Review(Scores(run.worst), run.challenger,
                                   IF refreshed THEN Heat(OpenRows) ELSE None)]

Validate ==
  /\ At("compared")
  /\ run' = [run EXCEPT !.at = "validated",
                        !.stillOpen = run.worst \in OpenRows]

\* The side and the quantity of the close, from the live position.
Intend ==
  /\ At("validated")
  /\ run' = [run EXCEPT !.at = "done", !.challenger = None,
               !.intent = IF run.worst = None \/ shares[Facts[run.worst].symbol] = 0
                          THEN None
                          ELSE [side |-> IF shares[Facts[run.worst].symbol] > 0
                                         THEN "SELL" ELSE "BUY",
                                quantity |-> Abs(shares[Facts[run.worst].symbol])]]

Forget == At("done") /\ run' = Idle

-----------------------------------------------------------------------------
(* Meanwhile; one change is enough.                                        *)

Moves ==
  /\ run.at # "idle" /\ ~moved /\ moved' = TRUE /\ UNCHANGED run
  /\ \/ \E r \in Rows, q \in 0 .. MaxShares :
          open' = [open EXCEPT ![r] = q] /\ UNCHANGED <<shares, contracts, resting>>
     \/ \E s \in Symbols, q \in {0, MaxShares} :
          shares' = [shares EXCEPT ![s] = q] /\ UNCHANGED <<open, contracts, resting>>
     \/ \E o \in DOMAIN Pool :
          /\ resting' = (resting \ {o}) \cup ({o} \ resting)
          /\ UNCHANGED <<open, shares, contracts>>

Next ==
  \/ ReadRows \/ Synchronized \/ ReadHeld \/ ReadOrders \/ Blocked \/ Detect
  \/ Compare \/ Validate \/ Intend \/ Forget \/ Moves

Spec == Init /\ [][Next]_vars

-----------------------------------------------------------------------------

(***************************************************************************)
(* A rehearsal under a clear preflight says what a rotation would do: the  *)
(* close is exactly as large as the open rows of its symbol, every order   *)
(* that rests belongs to a position, and "replace" is advised only when    *)
(* each open row has a stop.  Anything else takes a change between two of  *)
(* its reads (run_preflight, rotation_dry_run).                            *)
(***************************************************************************)
ClearRehearsalIsExact ==
  run.at = "done" /\ ~run.failed /\ ~moved =>
    /\ run.worst # None =>
         /\ run.stillOpen /\ run.intent # None
         /\ run.intent.quantity = Total(open, Facts[run.worst].symbol)
    /\ \A o \in resting : shares[Pool[o].symbol] # 0
    /\ run.advice = "replace" => \A r \in OpenRows : Stop(Facts[r].symbol) # None
=============================================================================
