---------------------------- MODULE PositionsDesk ----------------------------
(***************************************************************************)
(* The positions of one ticker as the desk shows, closes and reconciles    *)
(* them: the page that joins the broker's positions with the open rows     *)
(* (api/routes/paper_trade.py), the close of shares no row tracks          *)
(* (api/routes/trade_desk.py) and the reconciliation an operator asks for, *)
(* with its record (services/position_reconciler.py, api/routes/risk.py).  *)
(* Each reads the broker and the table one after the other while entries   *)
(* fill, rows are written and closed, and the protective stop may fill.    *)
(***************************************************************************)
EXTENDS Integers, FiniteSets, FiniteSetsExt, Functions

CONSTANTS
  None,
  Rows, Class,      \* the rows there may be, each of "equity" or "options"
  Closers,          \* requests to close the untracked shares
  MaxRequests,      \* bound: pages, closes and reconciliations asked for
  MaxFaults         \* bound: reads and writes that fail

DeskConstants == IsFiniteSet(Rows) /\ Class \in [Rows -> {"equity", "options"}]

VARIABLES
  shares,           \* held at the broker; negative when short
  legs,             \* option positions held: two of each spread
  rows,             \* the open rows
  entered, due,     \* entries that filled, those whose row is still to be written
  stop,             \* a protective stop for the shares is working
  page, look,       \* the page just shown; what it read at the broker
  at, seen,         \* the step of each close; the shares it read
  raced,            \* closes since whose check a row was opened or the shares moved
  stripped, turned, \* a close sold shares of a row; it turned the position about
  run, latest,      \* the reconciliation under way; the record it left last
  last,             \* the verdict it reached last
  asked, faults

bookVars  == <<shares, legs, rows, entered, due, stop>>
closeVars == <<at, seen, raced, stripped, turned>>
runVars   == <<run, latest, last>>

vars == <<bookVars, page, look, closeVars, runVars, asked, faults>>

OfClass(R, c) == {r \in R : Class[r] = c}

Abs(n) == IF n < 0 THEN -n ELSE n

-----------------------------------------------------------------------------
Init ==
  /\ shares = 0 /\ legs = 0 /\ rows = {} /\ entered = {} /\ due = {} /\ stop = FALSE
  /\ page = None /\ look = None
  /\ at = [c \in Closers |-> "idle"] /\ seen = [c \in Closers |-> 0]
  /\ raced = {} /\ stripped = FALSE /\ turned = FALSE
  /\ run = None /\ latest = None /\ last = None
  /\ asked = 0 /\ faults = 0

Ask == asked < MaxRequests /\ asked' = asked + 1

Disturbed == raced' = {c \in Closers : at[c] # "idle"}

\* An entry fills; its row is written later ...
Enter ==
  /\ \E r \in Rows \ entered :
       /\ entered' = entered \cup {r} /\ due' = due \cup {r}
       /\ IF Class[r] = "equity" THEN shares' = shares + 1 /\ legs' = legs /\ stop' = TRUE
          ELSE legs' = legs + 2 /\ shares' = shares /\ stop' = stop
  /\ Disturbed
  /\ UNCHANGED <<rows, look, at, seen, stripped, turned, runVars, asked, faults>>

\* ... or never.
Record ==
  /\ \E r \in due :
       /\ due' = due \ {r}
       /\ rows' = rows \cup {r} \/ (rows' = rows /\ faults < MaxFaults)
  /\ faults' = IF rows' = rows THEN faults + 1 ELSE faults
  /\ Disturbed
  /\ UNCHANGED <<shares, legs, entered, stop, look, at, seen, stripped, turned, runVars,
                 asked>>

\* The poller closes a row whose position it no longer finds.
RowCloses ==
  /\ \E r \in rows : /\ IF Class[r] = "equity" THEN shares <= 0 ELSE legs = 0
                     /\ rows' = rows \ {r}
  /\ UNCHANGED <<shares, legs, entered, due, stop, look, closeVars, runVars, asked, faults>>

StopFills ==
  /\ stop /\ shares > 0
  /\ shares' = 0 /\ stop' = FALSE
  /\ Disturbed
  /\ UNCHANGED <<legs, rows, entered, due, look, at, seen, stripped, turned, runVars, asked, faults>>

-----------------------------------------------------------------------------
(* get_positions of the page.                                              *)

PageReadsBroker ==
  /\ look = None /\ Ask
  /\ look' = [held |-> {c \in {"equity", "options"} :
                          IF c = "equity" THEN shares # 0 ELSE legs # 0},
              rows |-> rows]
  /\ UNCHANGED <<bookVars, closeVars, runVars, faults>>

\* Rows are kept by class, the last one read standing for all; a position shows
\* the row of its class, and a row without a position is shown by itself.
PageReadsRows ==
  /\ look # None
  /\ \E pick \in [{Class[r] : r \in rows} -> rows] :
       /\ \A c \in DOMAIN pick : Class[pick[c]] = c
       /\ page' = [shown     |-> Range(pick),
                   untracked |-> look.held \ DOMAIN pick,
                   before    |-> look.rows, after |-> rows]
  /\ look' = None
  /\ UNCHANGED <<bookVars, closeVars, runVars, asked, faults>>

-----------------------------------------------------------------------------
(* close_untracked_position.                                               *)

\* mutant of CloseChecks: rows of the ticker do not matter.
CloseChecksNoRows(c) ==
  /\ at[c] = "idle" /\ Ask
  /\ at' = [at EXCEPT ![c] = "checked"]
  /\ raced' = raced \ {c}
  /\ UNCHANGED <<bookVars, look, seen, stripped, turned, runVars, faults>>

\* A row of either class, and just as well two of them, turn it down.
CloseChecks(c) ==
  /\ at[c] = "idle" /\ rows = {} /\ Ask
  /\ at' = [at EXCEPT ![c] = "checked"]
  /\ raced' = raced \ {c}
  /\ UNCHANGED <<bookVars, look, seen, stripped, turned, runVars, faults>>

\* The first position of the ticker counts: nothing is done where it is an option.
CloseReads(c) ==
  /\ at[c] = "checked"
  /\ \/ /\ shares # 0
        /\ at' = [at EXCEPT ![c] = "read"] /\ seen' = [seen EXCEPT ![c] = shares]
     \/ /\ shares = 0 \/ legs > 0
        /\ at' = [at EXCEPT ![c] = "idle"] /\ seen' = seen
  /\ UNCHANGED <<bookVars, look, raced, stripped, turned, runVars, asked, faults>>

CloseCancels(c) ==
  /\ at[c] = "read"
  /\ stop' = FALSE
  /\ at' = [at EXCEPT ![c] = "cancelled"]
  /\ UNCHANGED <<shares, legs, rows, entered, due, look, seen, raced, stripped, turned,
                 runVars, asked, faults>>

\* The order fills.
CloseSends(c) ==
  /\ at[c] = "cancelled"
  /\ shares' = shares - seen[c]
  /\ stripped' = (stripped \/ (OfClass(rows, "equity") # {} /\ c \notin raced))
  /\ turned' = (turned \/ (shares' * seen[c] < 0 /\ c \notin raced))
  /\ at' = [at EXCEPT ![c] = "idle"] /\ seen' = [seen EXCEPT ![c] = 0]
  /\ raced' = {d \in Closers : at'[d] # "idle"}
  /\ UNCHANGED <<legs, rows, entered, due, stop, look, runVars, asked, faults>>

-----------------------------------------------------------------------------
(* Reconciliation.                                                         *)

\* Both functions compare sums of sizes without signs, over both classes.
AtBroker(b) == Abs(b.shares) + b.legs
Untracked(b, R) == AtBroker(b) # 0 /\ R = {}
Phantom(b, R)   == AtBroker(b) = 0 /\ R # {}
Mismatch(b, R)  == AtBroker(b) # 0 /\ R # {} /\ AtBroker(b) # Cardinality(R)

\* reconcile: a row without a position is no more than a warning ...
Verdict(b, R) ==
  IF Untracked(b, R) \/ Mismatch(b, R) THEN "error" ELSE IF Phantom(b, R) THEN "warning" ELSE "clean"

\* ... and check finds it unclean.
CheckClean(b, R) == ~(Untracked(b, R) \/ Phantom(b, R) \/ Mismatch(b, R))

\* Its writing fails at times, which changes nothing else.
Persist(status) ==
  \/ latest' = status /\ faults' = faults
  \/ latest' = latest /\ faults < MaxFaults /\ faults' = faults + 1

RunReadsBroker ==
  /\ run = None /\ Ask
  /\ run' = [shares |-> shares, legs |-> legs]
  /\ UNCHANGED <<bookVars, look, closeVars, latest, last, faults>>

RunWithoutBroker ==
  /\ run = None /\ Ask /\ faults < MaxFaults
  /\ last' = "error" /\ Persist("error")
  /\ UNCHANGED <<bookVars, look, closeVars, run>>

RunReadsRows ==
  /\ run # None
  /\ last' = Verdict(run, rows) /\ Persist(last')
  /\ run' = None
  /\ UNCHANGED <<bookVars, look, closeVars, asked>>

\* Where the table cannot be read nothing is recorded.
RunWithoutRows ==
  /\ run # None /\ faults < MaxFaults
  /\ run' = None /\ last' = "error" /\ faults' = faults + 1
  /\ UNCHANGED <<bookVars, look, closeVars, latest, asked>>

Elsewhere ==
  \/ Enter \/ Record \/ RowCloses \/ StopFills \/ PageReadsBroker
  \/ \E c \in Closers : CloseChecks(c) \/ CloseReads(c) \/ CloseCancels(c) \/ CloseSends(c)
  \/ RunReadsBroker \/ RunWithoutBroker \/ RunReadsRows \/ RunWithoutRows

\* A page is judged as it is shown.
Next == PageReadsRows \/ (Elsewhere /\ page' = None)

-----------------------------------------------------------------------------
TypeOK ==
  /\ shares \in Int
  /\ legs \in 0..2 * Cardinality(Rows)
  /\ rows \cup due \subseteq entered /\ entered \subseteq Rows
  /\ latest \in {None, "clean", "warning", "error"}

\* A row that was open all the while the page was read is missing from it only
\* where another row of its class is shown.
RowHiddenTakesATwin ==
  page # None =>
    \A r \in page.before \cap page.after :
      r \notin page.shown => \E s \in page.shown : s # r /\ Class[s] = Class[r]

\* Shares a row tracks are called untracked only if the row was opened or closed
\* while the page was read.
GhostTakesARace ==
  page # None /\ "equity" \in page.untracked =>
    OfClass(page.before \cap page.after, "equity") = {}

\* A close sells shares that a row tracks, or turns the position about, only if
\* a row was opened, an order filled or another close passed it after its check.
CloseTakesNoMore == ~stripped /\ ~turned

\* What reconcile lets pass, check does too, but for rows without a position.
CheckIsStricter ==
  LET b == [shares |-> shares, legs |-> legs]
  IN (Verdict(b, rows) = "clean") = CheckClean(b, rows)

\* The record differs from the verdict reached last only after a failure.
RecordLagsAFailure == last # latest => faults > 0

PositionsHold ==
  /\ RowHiddenTakesATwin /\ GhostTakesARace /\ CloseTakesNoMore /\ CheckIsStricter
  /\ RecordLagsAFailure
=============================================================================
