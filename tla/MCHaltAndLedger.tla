-------------------------- MODULE MCHaltAndLedger --------------------------
(***************************************************************************)
(* The kill switch and the trade table, for what must happen in the end (a *)
(* halt drains, the table catches up with the broker), with the orders and *)
(* the positions of the desk, side by side.  They share no state here, so  *)
(* a behaviour is a behaviour of one of them, its subject; the others keep *)
(* an initial state.  No symmetry: the run checks liveness.                *)
(***************************************************************************)
EXTENDS KillSwitch

CONSTANTS Rows, Closers, EntryQty, MaxPos, MaxEntries, MaxFaults, NoRow,
          Compositions, Days, Nominal, MaxShifts,
          DeskRows, Class, DeskClosers, MaxCalls, MaxMishaps

VARIABLES
  subject,
  rows, aged, missing, entry, pass, seen, plan, closer, conn, pos, working,
  dying, legs, legsDying, closing, closeDying, anyExec, exitSeen, entries,
  faults, filled, late, raced,
  day, rule, preview, composed, sent, shifts,
  stock, spreads, listed, entered, due, guard, page, look, step, counted, overtaken,
  robbed, turned, round, record, verdict, calls, mishaps

ledgerVars ==
  <<rows, aged, missing, entry, pass, seen, plan, closer, conn, pos, working,
    dying, legs, legsDying, closing, closeDying, anyExec, exitSeen, entries,
    faults, filled, late, raced>>
orderVars == <<day, rule, preview, composed, sent, shifts>>
positionVars ==
  <<stock, spreads, listed, entered, due, guard, page, look, step, counted, overtaken,
    robbed, turned, round, record, verdict, calls, mishaps>>
deskVars == <<orderVars, positionVars>>

L == INSTANCE TradeLedger

\* A day on which every gate is open, and days on which one of them is not.
Clear == [killed |-> FALSE, open |-> TRUE, regime |-> {"equity", "options"}, account |-> TRUE,
          guard |-> "clear", room |-> 400, rest |-> FALSE]

Composed(asset, strategy, size, risk, whole) ==
  [asset |-> asset, strategy |-> strategy, size |-> size, risk |-> risk, filled |-> whole]

MCCompositions ==
  {Composed("equity", "", 0, 300, TRUE), Composed("equity", "", 2, 300, TRUE),
   Composed("options", "bull_put_spread", 1, 50, TRUE),
   Composed("options", "bull_call_spread", 2, 300, TRUE),
   Composed("options", "iron_condor", 1, 250, TRUE),
   Composed("options", "bull_put_spread", 1, 50, FALSE)}

MCDays ==
  {Clear} \cup
  {[Clear EXCEPT !.killed = TRUE], [Clear EXCEPT !.open = FALSE],
   [Clear EXCEPT !.regime = {"equity"}], [Clear EXCEPT !.regime = {}],
   [Clear EXCEPT !.regime = None], [Clear EXCEPT !.account = FALSE],
   [Clear EXCEPT !.guard = "preserves"], [Clear EXCEPT !.guard = "blocks"],
   [Clear EXCEPT !.guard = "unread", !.room = 100],
   [Clear EXCEPT !.room = 100], [Clear EXCEPT !.rest = TRUE]}

O == INSTANCE DeskOrders
       WITH Orders <- Compositions, mode <- rule, shown <- preview, pending <- composed

ASSUME OrdersAssumption == O!OrderConstants

\* Two rows of shares and one of a spread.
MCClass == [r \in {"e1", "e2", "o1"} |-> IF r = "o1" THEN "options" ELSE "equity"]

P == INSTANCE PositionsDesk
       WITH Rows <- DeskRows, Closers <- DeskClosers, MaxRequests <- MaxCalls,
            MaxFaults <- MaxMishaps,
            shares <- stock, legs <- spreads, rows <- listed, stop <- guard, at <- step,
            seen <- counted, raced <- overtaken, stripped <- robbed, run <- round,
            latest <- record, last <- verdict, asked <- calls, faults <- mishaps

ASSUME PositionsAssumption == P!DeskConstants

SumInit ==
  /\ subject \in {"halt", "ledger", "orders", "positions"}
  /\ Init /\ L!Init /\ P!Init
  /\ O!Init /\ rule = "manual" /\ (subject = "orders" \/ day = Clear)

\* The subject takes a step; the desk's pages rest when their requests are used up.
SumNext ==
  \/ subject = "halt" /\ Next /\ UNCHANGED <<subject, ledgerVars, deskVars>>
  \/ subject = "ledger" /\ L!Next /\ UNCHANGED <<subject, vars, deskVars>>
  \/ subject = "orders" /\ O!Next /\ UNCHANGED <<subject, vars, ledgerVars, positionVars>>
  \/ subject = "positions" /\ P!Next /\ UNCHANGED <<subject, vars, ledgerVars, orderVars>>
  \/ subject = "positions" /\ calls = MaxCalls /\ UNCHANGED <<subject, vars, ledgerVars, deskVars>>

\* The fairness of KillSwitch and of TradeLedger.
SumFairness ==
  /\ \A r \in Requests : WF_vars(subject = "halt" /\ RequestStep(r))
  /\ \A t \in Tickers :
       /\ WF_vars(subject = "halt" /\ ExecStep(t))
       /\ WF_vars(subject = "halt" /\ (BrokerFill(t) \/ BrokerCancel(t)))
  /\ WF_ledgerVars(subject = "ledger" /\ L!EntryStep)
  /\ WF_ledgerVars(subject = "ledger" /\ L!PassStep)
  /\ SF_ledgerVars(subject = "ledger" /\ L!PollStart)
  /\ SF_ledgerVars(subject = "ledger" /\ L!ReconcileStart)
  /\ \A r \in Rows :
       /\ WF_ledgerVars(subject = "ledger" /\ L!Age(r))
       /\ WF_ledgerVars(subject = "ledger" /\ L!GraceOver(r))
       /\ WF_ledgerVars(subject = "ledger" /\ (L!EntryFills(r) \/ L!EntryEnds(r)))
  /\ WF_ledgerVars(subject = "ledger" /\ L!LegsCancelled)
  /\ \A c \in Closers : WF_ledgerVars(subject = "ledger" /\ L!CloseStep(c))
  /\ WF_ledgerVars(subject = "ledger" /\ L!Reconnect)
  /\ WF_ledgerVars(subject = "ledger" /\ L!Resync)

SumSpec ==
  SumInit /\ [][SumNext]_<<subject, vars, ledgerVars, deskVars>> /\ SumFairness

\* TradeLedger: the table follows the broker in the end.
LedgerConverges == L!LedgerConverges

\* DeskOrders and PositionsDesk: what a person is shown of an order or of a
\* position is what the desk then does, races and the named gaps apart.
DeskShowsWhatItDoes ==
  /\ subject = "orders" => O!TypeOK /\ O!DeskOrdersHold
  /\ subject = "positions" => P!TypeOK /\ P!PositionsHold
=============================================================================
