----------------------------- MODULE TradeLedger ----------------------------
(***************************************************************************)
(* How the trades table follows the broker, for one equity symbol: the     *)
(* execution that records an entry, the scheduler's fill poller and        *)
(* position reconciler, operators' close requests, and the broker's book   *)
(* with its bracket legs.                                                  *)
(*                                                                         *)
(* The poller decides on what it read (positions, then rows and            *)
(* executions) and writes its decisions row by row later, with other tasks *)
(* running in between; plan holds those decisions.                         *)
(***************************************************************************)
EXTENDS Integers, FiniteSets, FiniteSetsExt

CONSTANTS
  Rows,        \* identifiers of trade rows for the symbol
  Closers,     \* close requests
  EntryQty,    \* shares an entry orders
  MaxPos,      \* bound on the size of the position
  MaxEntries,  \* bound on the number of entry orders
  MaxFaults,   \* bound on restarts, cut-off passes and lost connections
  NoRow        \* no row

ASSUME LedgerAssumption ==
  /\ MaxPos \in Nat /\ EntryQty \in 1 .. MaxPos /\ MaxEntries \in Nat
  /\ MaxFaults \in Nat /\ NoRow \notin Rows

VARIABLES
  rows,        \* the trades table
  aged,        \* pending rows older than FILL_GRACE_SECONDS
  missing,     \* _close_pending: the clock of a row gone from the broker
  entry,       \* the execution task: where it is and its order's row
  pass,        \* the scheduler's reconciliation work: where it is
  seen,        \* signed quantity the scheduler read from the broker
  plan,        \* what the poll pass has decided for each row, or has done
  closer,      \* each close request: where it is, its row, its size
  (* the broker *)
  conn,        \* "up", "resyncing" (connected, cache still empty), "down"
  pos,         \* signed position
  working,     \* rows whose entry order is working
  dying,       \* those of them with a cancel outstanding
  legs,        \* shares covered by resting protective legs
  legsDying,   \* a cancel of the legs is outstanding
  closing,     \* closing[c]: signed quantity of c's working close order
  closeDying,  \* closers whose order has a cancel outstanding
  anyExec,     \* an execution of the symbol is in today's report
  exitSeen,    \* rows recorded before a closing execution in the report
  (* bounds and history *)
  entries, faults,
  filled,      \* rows whose entry order filled
  late,        \* rows recorded after the poll pass read the table again
  raced        \* two closing orders met, or a leg outlived its position

table     == <<rows, aged>>
scheduler == <<missing, pass, seen, plan>>
brokerVars == <<conn, pos, working, dying, legs, legsDying, closing,
                closeDying, anyExec, exitSeen>>
ghosts    == <<entries, faults, filled, late, raced>>
vars == <<table, scheduler, entry, closer, brokerVars, ghosts>>

Statuses == {"none", "pending", "open", "closed", "cancelled"}
Prices   == {"null", "close_order", "executions"}
Steps    == {"confirm", "cancel", "live", "exit", "wait", "unknown"}
Done     == {"none", "cancelled", "missing"}
Quantities == -MaxPos .. MaxPos

TypeOK ==
  /\ rows \in [Rows -> [status : Statuses, qty : 0 .. MaxPos, pnl : Prices]]
  /\ aged \subseteq Rows
  /\ missing \in [Rows -> {"no", "waiting", "expired"}]
  /\ entry \in [at : {"idle", "submitted", "filled", "pending"},
                row : Rows \cup {NoRow}]
  /\ pass \in {"idle", "load", "act", "sweep", "rec_load", "adopt", "correct"}
  /\ seen \in Quantities /\ plan \in [Rows -> Steps \cup Done]
  /\ closer \in [Closers -> [at : {"idle", "checked", "sized", "waiting",
                                   "sold", "refused"},
                             row : Rows \cup {NoRow}, qty : Quantities]]
  /\ conn \in {"up", "resyncing", "down"} /\ pos \in Quantities
  /\ working \subseteq Rows /\ dying \subseteq working
  /\ legs \in 0 .. MaxPos /\ legsDying \in BOOLEAN
  /\ closing \in [Closers -> Quantities]
  /\ closeDying \subseteq Closers
  /\ anyExec \in BOOLEAN /\ exitSeen \subseteq Rows
  /\ entries \in 0 .. MaxEntries /\ faults \in 0 .. MaxFaults
  /\ filled \subseteq Rows /\ late \subseteq Rows /\ raced \in BOOLEAN

Abs(n) == IF n < 0 THEN -n ELSE n
Blank  == [status |-> "none", qty |-> 0, pnl |-> "null"]
NoEntry == [at |-> "idle", row |-> NoRow]
NoClose == [at |-> "idle", row |-> NoRow, qty |-> 0]

With(s) == {r \in Rows : rows[r].status \in s}
Fresh   == With({"none"}) \ (working \cup filled \cup {entry.row})

\* get_positions: ib.portfolio(), a local cache that is empty until the
\* account subscription has caught up after a reconnect.
View == IF conn = "up" THEN pos ELSE 0

Init ==
  /\ rows = [r \in Rows |-> Blank] /\ aged = {}
  /\ missing = [r \in Rows |-> "no"]
  /\ entry = NoEntry
  /\ pass = "idle" /\ seen = 0
  /\ plan = [r \in Rows |-> "none"]
  /\ closer = [c \in Closers |-> NoClose]
  /\ conn = "up" /\ pos = 0 /\ working = {} /\ dying = {}
  /\ legs = 0 /\ legsDying = FALSE
  /\ closing = [c \in Closers |-> 0] /\ closeDying = {}
  /\ anyExec = FALSE /\ exitSeen = {}
  /\ entries = 0 /\ faults = 0 /\ filled = {} /\ late = {} /\ raced = FALSE

-----------------------------------------------------------------------------
(* The execution task, from the duplicate guard on.                        *)

\* No row of the symbol is open or pending: the bracket goes to the broker.
\* (The window between the guard and the order is not in this module.)
SubmitEntry ==
  /\ entry = NoEntry /\ conn # "down" /\ entries < MaxEntries
  /\ With({"open", "pending"}) = {}
  /\ \E r \in Fresh :
       /\ entry' = [at |-> "submitted", row |-> r]
       /\ working' = working \cup {r}
  /\ entries' = entries + 1
  /\ UNCHANGED <<table, scheduler, closer, conn, pos, dying, legs, legsDying,
                 closing, closeDying, anyExec, exitSeen, faults, filled, late,
                 raced>>

(***************************************************************************)
(* The order call returns: filled; still working, or past the coordinator's*)
(* timeout (the row is then recorded as pending); ended unfilled (nothing  *)
(* is recorded); or out of attempts, when the last order is cancelled and  *)
(* reported as cancelled without a look at whether it filled.              *)
(***************************************************************************)
EntryReturns ==
  /\ entry.at = "submitted"
  /\ \/ /\ entry.row \in filled
        /\ entry' = [entry EXCEPT !.at = "filled"] /\ UNCHANGED dying
     \/ /\ entry.row \in working
        /\ entry' = [entry EXCEPT !.at = "pending"] /\ UNCHANGED dying
     \/ /\ entry.row \notin working \cup filled
        /\ entry' = NoEntry /\ UNCHANGED dying
     \/ /\ entry.row \in working
        /\ entry' = NoEntry /\ dying' = dying \cup {entry.row}
  /\ UNCHANGED <<table, scheduler, closer, conn, pos, working, legs,
                 legsDying, closing, closeDying, anyExec, exitSeen, ghosts>>

\* record_fill with the quantity planned at signal time, or its failure,
\* which leaves the order without a row.
RecordFill ==
  /\ entry.at \in {"filled", "pending"}
  /\ \/ rows' = [rows EXCEPT ![entry.row] =
            [status |-> IF entry.at = "filled" THEN "open" ELSE "pending",
             qty |-> EntryQty, pnl |-> "null"]]
     \/ UNCHANGED rows
  /\ late' = IF pass = "sweep" THEN late \cup {entry.row} ELSE late
  /\ entry' = NoEntry
  /\ UNCHANGED <<aged, scheduler, closer, brokerVars, entries, faults, filled,
                 raced>>

\* FILL_GRACE_SECONDS pass since a pending row's entry_date.
Age(r) ==
  /\ rows[r].status = "pending" /\ r \notin aged
  /\ aged' = aged \cup {r}
  /\ UNCHANGED <<rows, scheduler, entry, closer, brokerVars, ghosts>>

-----------------------------------------------------------------------------
(* The fill poller, _poll_fills.                                           *)

\* It skips a disconnected broker and reads the positions.
PollStart ==
  /\ pass = "idle" /\ conn # "down"
  /\ pass' = "load" /\ seen' = View
  /\ UNCHANGED <<table, missing, plan, entry, closer, brokerVars,
                 ghosts>>

(***************************************************************************)
(* What the pass decides for row r from the positions it saw and the       *)
(* executions it got (any: some execution of the symbol; exits: rows with  *)
(* a closing execution after their entry).                                 *)
(***************************************************************************)
Decide(r, any, exits) ==
  CASE rows[r].status = "pending" ->
         IF seen # 0 \/ any THEN "confirm"
         ELSE IF r \in aged THEN "cancel" ELSE "none"
    [] rows[r].status = "open" ->
         IF seen # 0 THEN "live"
         ELSE IF r \in exits THEN "exit"
         ELSE IF missing[r] = "expired" THEN "unknown" ELSE "wait"
    [] OTHER -> "none"

\* Rows and executions are read; the execution request may time out.
PollLoad ==
  /\ pass = "load"
  /\ IF With({"open", "pending"}) = {}
     THEN /\ pass' = "idle"
          /\ missing' = [r \in Rows |-> "no"]
          /\ UNCHANGED plan
     ELSE /\ pass' = "act"
          /\ \/ plan' = [r \in Rows |-> Decide(r, anyExec, exitSeen)]
             \/ plan' = [r \in Rows |-> Decide(r, FALSE, {})]
          /\ UNCHANGED missing
  /\ UNCHANGED <<table, seen, entry, closer, brokerVars, ghosts>>

ToDo == {r \in Rows : plan[r] \in Steps}

\* A step that may fail and be logged: at most MaxFaults in a behavior.
Fails == faults < MaxFaults /\ faults' = faults + 1

\* What a step leaves of row r.  confirm_fill and cancel_pending look at the
\* row's status again; record_exit and record_close_unknown do not.
Booked(r) ==
  CASE plan[r] = "confirm" /\ rows[r].status = "pending" ->
         [rows[r] EXCEPT !.status = "open",
                         !.qty = IF seen # 0 THEN Abs(seen) ELSE @]
    [] plan[r] = "cancel" /\ rows[r].status = "pending" ->
         [rows[r] EXCEPT !.status = "cancelled"]
    [] plan[r] = "exit" ->
         [rows[r] EXCEPT !.status = "closed", !.pnl = "executions"]
    [] plan[r] = "unknown" ->
         [rows[r] EXCEPT !.status = "closed", !.pnl = "null"]
    [] OTHER -> rows[r]

\* One row's decision is carried out, pending rows before open ones.  A
\* database error leaves the row as it is and the pass goes on.
PollRow(r) ==
  /\ pass = "act" /\ r \in ToDo
  /\ \/ plan[r] \in {"confirm", "cancel"}
     \/ \A q \in ToDo : plan[q] \notin {"confirm", "cancel"}
  /\ \/ rows' = [rows EXCEPT ![r] = Booked(r)] /\ UNCHANGED faults
     \/ plan[r] \notin {"live", "wait"} /\ Fails /\ UNCHANGED rows
  /\ missing' = [missing EXCEPT ![r] =
                   IF plan[r] # "wait" THEN "no"
                   ELSE IF @ = "no" THEN "waiting" ELSE @]
  /\ plan' = [plan EXCEPT ![r] = CASE @ = "cancel" -> "cancelled"
                                   [] @ \in {"confirm", "live"} -> "none"
                                   [] OTHER -> "missing"]
  /\ UNCHANGED <<aged, pass, seen, entry, closer, brokerVars, entries, filled,
                 late, raced>>

EndPass ==
  /\ missing' = [r \in Rows |-> IF plan[r] = "missing" THEN missing[r] ELSE "no"]
  /\ plan' = [r \in Rows |-> "none"]

\* mutant of PollReread: the rows loaded at the start of the pass are used.
PollRereadOld ==
  /\ pass = "act" /\ ToDo = {}
  /\ EndPass /\ late' = {}
  /\ pass' = IF \E r \in Rows : plan[r] # "none" THEN "sweep" ELSE "idle"
  /\ UNCHANGED <<table, seen, entry, closer, brokerVars, entries, faults,
                 filled, raced>>

\* All rows done: the clocks of other rows are dropped and, if the symbol was
\* booked or found missing, its open and pending rows are read again.
PollReread ==
  /\ pass = "act" /\ ToDo = {}
  /\ EndPass /\ late' = {}
  /\ pass' = IF With({"open", "pending"}) = {} /\ \E r \in Rows : plan[r] # "none"
             THEN "sweep" ELSE "idle"
  /\ UNCHANGED <<table, seen, entry, closer, brokerVars, entries, faults,
                 filled, raced>>

\* broker.cancel_open_orders: a cancel is sent for every order of the symbol.
CancelOpenOrders ==
  /\ dying' = working
  /\ legsDying' = (legs > 0)
  /\ closeDying' = {c \in Closers : closing[c] # 0}

\* There were none: the symbol's resting orders are cancelled, or the cancel
\* fails and is logged.
PollSweep ==
  /\ pass = "sweep"
  /\ pass' = "idle"
  /\ \/ conn # "down" /\ CancelOpenOrders
     \/ UNCHANGED <<dying, legsDying, closeDying>>
  /\ UNCHANGED <<table, missing, seen, plan, entry, closer, conn, pos, working,
                 legs, closing, anyExec, exitSeen, ghosts>>

\* CLOSE_GRACE_SECONDS pass while a row stays missing.
GraceOver(r) ==
  /\ missing[r] = "waiting"
  /\ missing' = [missing EXCEPT ![r] = "expired"]
  /\ UNCHANGED <<table, pass, seen, plan, entry, closer, brokerVars,
                 ghosts>>

-----------------------------------------------------------------------------
(* The reconciler, _reconcile_positions, in the same task as the poller.   *)

\* PositionReconciler.check reads the positions ...
ReconcileStart ==
  /\ pass = "idle" /\ conn # "down"
  /\ pass' = "rec_load" /\ seen' = View
  /\ UNCHANGED <<table, missing, plan, entry, closer, brokerVars,
                 ghosts>>

\* Shares the open rows of the symbol account for.
Tracked == MapThenSumSet(LAMBDA r : rows[r].qty, With({"open"}))

\* mutant of ReconcileLoad: only symbols with an open row are compared.
ReconcileLoadTrackedOnly ==
  /\ pass = "rec_load"
  /\ pass' = IF seen # 0 /\ With({"open"}) # {} /\ Tracked # Abs(seen)
             THEN "correct" ELSE "idle"
  /\ seen' = View
  /\ UNCHANGED <<table, missing, plan, entry, closer, brokerVars,
                 ghosts>>

\* ... then the open rows, and compares the two sums.  Adoption and quantity
\* correction start by reading the positions again.
ReconcileLoad ==
  /\ pass = "rec_load"
  /\ pass' = IF seen = 0 THEN "idle"
             ELSE IF With({"open"}) = {} THEN "adopt"
             ELSE IF Tracked # Abs(seen) THEN "correct" ELSE "idle"
  /\ seen' = View
  /\ UNCHANGED <<table, missing, plan, entry, closer, brokerVars,
                 ghosts>>

\* mutant of Adopt: the signed quantity is recorded.
AdoptSigned ==
  /\ pass = "adopt"
  /\ pass' = "idle"
  /\ IF seen # 0 /\ With({"open"}) = {} /\ Fresh # {}
     THEN \E r \in Fresh :
            rows' = [rows EXCEPT ![r] =
                       [status |-> "open", qty |-> seen, pnl |-> "null"]]
     ELSE UNCHANGED rows
  /\ UNCHANGED <<aged, missing, seen, plan, entry, closer, brokerVars,
                 ghosts>>

\* _adopt_untracked_positions: if there is still no open row, insert one.
Adopt ==
  /\ pass = "adopt"
  /\ pass' = "idle"
  /\ IF seen # 0 /\ With({"open"}) = {} /\ Fresh # {}
     THEN \E r \in Fresh :
            rows' = [rows EXCEPT ![r] =
                       [status |-> "open", qty |-> Abs(seen), pnl |-> "null"]]
     ELSE UNCHANGED rows
  /\ UNCHANGED <<aged, missing, seen, plan, entry, closer, brokerVars,
                 ghosts>>

\* _correct_quantity_mismatches: only when exactly one row is open.
Correct ==
  /\ pass = "correct"
  /\ pass' = "idle"
  /\ rows' = [r \in Rows |->
                IF seen # 0 /\ With({"open"}) = {r}
                THEN [rows[r] EXCEPT !.qty = Abs(seen)] ELSE rows[r]]
  /\ UNCHANGED <<aged, missing, seen, plan, entry, closer, brokerVars,
                 ghosts>>

\* _guarded's timeout, or an exception, ends the scheduler's work midway.
PassAborted ==
  /\ pass # "idle" /\ faults < MaxFaults
  /\ faults' = faults + 1
  /\ pass' = "idle"
  /\ plan' = [r \in Rows |-> "none"]
  /\ UNCHANGED <<table, missing, seen, entry, closer, brokerVars, entries,
                 filled, late, raced>>

-----------------------------------------------------------------------------
(* Close requests, close_position and close_equity_trade.                  *)

\* mutant of CloseCheck: the route does not look at the row's status.
CloseCheckAnyRow(c) ==
  /\ closer[c] = NoClose /\ closing[c] = 0
  /\ \E r \in With({"open", "pending"}) :
       closer' = [closer EXCEPT ![c].at = "checked", ![c].row = r]
  /\ UNCHANGED <<table, scheduler, entry, brokerVars, ghosts>>

\* The route finds the row open.
CloseCheck(c) ==
  /\ closer[c] = NoClose /\ closing[c] = 0
  /\ \E r \in With({"open"}) :
       closer' = [closer EXCEPT ![c].at = "checked", ![c].row = r]
  /\ UNCHANGED <<table, scheduler, entry, brokerVars, ghosts>>

\* mutant of CloseQuantity: the close is sized from the trade row.
CloseQuantityFromRow(c) == IF View = 0 THEN 0 ELSE rows[closer[c].row].qty

\* The close is sized from the broker's own live position.
CloseQuantity(c) == View

(***************************************************************************)
(* The symbol's open orders are cancelled and the close order follows a    *)
(* second later.  A position that reads flat ends the request.             *)
(***************************************************************************)
CloseSize(c) ==
  /\ closer[c].at = "checked" /\ conn # "down"
  /\ IF CloseQuantity(c) = 0
     THEN /\ closer' = [closer EXCEPT ![c] = NoClose]
          /\ UNCHANGED <<dying, legsDying, closeDying>>
     ELSE /\ closer' = [closer EXCEPT ![c].at = "sized",
                                      ![c].qty = CloseQuantity(c)]
          /\ CancelOpenOrders
  /\ UNCHANGED <<table, scheduler, entry, conn, pos, working, legs, closing,
                 anyExec, exitSeen, ghosts>>

\* The market order for that quantity goes to the broker.
CloseSubmit(c) ==
  /\ closer[c].at = "sized"
  /\ closing' = [closing EXCEPT ![c] = closer[c].qty]
  /\ closer' = [closer EXCEPT ![c].at = "waiting"]
  /\ UNCHANGED <<table, scheduler, entry, conn, pos, working, dying, legs,
                 legsDying, closeDying, anyExec, exitSeen, ghosts>>

(***************************************************************************)
(* The order call returns: filled, and record_exit books the row whatever  *)
(* its status is by now; cancelled or rejected, and the request fails; or  *)
(* still working, and the booking is left to the poller.                   *)
(***************************************************************************)
CloseReturns(c) ==
  /\ closer[c].at \in {"waiting", "sold", "refused"}
  /\ closer' = [closer EXCEPT ![c] = NoClose]
  /\ \/ /\ closer[c].at = "sold"
        /\ rows' = [rows EXCEPT ![closer[c].row].status = "closed",
                                ![closer[c].row].pnl = "close_order"]
        /\ UNCHANGED faults
     \/ closer[c].at = "sold" /\ Fails /\ UNCHANGED rows
     \/ closer[c].at # "sold" /\ UNCHANGED <<rows, faults>>
  /\ UNCHANGED <<aged, scheduler, entry, brokerVars, entries, filled, late,
                 raced>>

-----------------------------------------------------------------------------
(* The broker and the connection to it.                                    *)

\* The entry fills, in part (the rest is cancelled) or in full, and its
\* bracket legs rest for what filled.
EntryFills(r) ==
  /\ r \in working
  /\ \E q \in 1 .. EntryQty :
       /\ pos + q <= MaxPos /\ legs + q <= MaxPos
       /\ pos' = pos + q /\ legs' = legs + q
  /\ working' = working \ {r} /\ dying' = dying \ {r}
  /\ filled' = filled \cup {r}
  /\ anyExec' = TRUE /\ legsDying' = FALSE
  /\ UNCHANGED <<table, scheduler, entry, closer, conn, closing, closeDying,
                 exitSeen, entries, faults, late, raced>>

\* The entry ends unfilled: cancelled, rejected, or its day is over.
EntryEnds(r) ==
  /\ r \in working
  /\ working' = working \ {r} /\ dying' = dying \ {r}
  /\ UNCHANGED <<table, scheduler, entry, closer, conn, pos, legs, legsDying,
                 closing, closeDying, anyExec, exitSeen, ghosts>>

\* A closing execution of n shares, after the entry of every recorded row.
Execute(n) ==
  /\ pos - n \in Quantities
  /\ pos' = pos - n
  /\ anyExec' = TRUE
  /\ exitSeen' = Rows \ With({"none"})

\* c has a close order at the broker or is about to send one.
InFlight(c) == closing[c] # 0 \/ closer[c].at = "sized"

\* A protective leg fires, a cancel of it outstanding or not.
LegsFire ==
  /\ legs > 0
  /\ Execute(legs)
  /\ legs' = 0 /\ legsDying' = FALSE
  /\ raced' = (raced \/ pos < legs \/ \E c \in Closers : InFlight(c))
  /\ UNCHANGED <<table, scheduler, entry, closer, conn, working, dying,
                 closing, closeDying, entries, faults, filled, late>>

LegsCancelled ==
  /\ legsDying
  /\ legs' = 0 /\ legsDying' = FALSE
  /\ UNCHANGED <<table, scheduler, entry, closer, conn, pos, working, dying,
                 closing, closeDying, anyExec, exitSeen, ghosts>>

\* The waiter, if it still waits, learns how its close order ended.
Tell(c, outcome) ==
  closer' = [closer EXCEPT ![c].at = IF @ = "waiting" THEN outcome ELSE @]

CloseFills(c) ==
  /\ closing[c] # 0
  /\ Execute(closing[c])
  /\ closing' = [closing EXCEPT ![c] = 0]
  /\ closeDying' = closeDying \ {c}
  /\ Tell(c, "sold")
  /\ raced' = (raced \/ \E d \in Closers \ {c} : InFlight(d))
  /\ UNCHANGED <<table, scheduler, entry, conn, working, dying, legs,
                 legsDying, entries, faults, filled, late>>

\* A close order is cancelled or rejected.
CloseEnds(c) ==
  /\ closing[c] # 0
  /\ closing' = [closing EXCEPT ![c] = 0]
  /\ closeDying' = closeDying \ {c}
  /\ Tell(c, "refused")
  /\ UNCHANGED <<table, scheduler, entry, conn, pos, working, dying, legs,
                 legsDying, anyExec, exitSeen, ghosts>>

\* The report of executions covers the current day only.
NewDay ==
  /\ anyExec
  /\ anyExec' = FALSE /\ exitSeen' = {}
  /\ UNCHANGED <<table, scheduler, entry, closer, conn, pos, working, dying,
                 legs, legsDying, closing, closeDying, ghosts>>

Connection(from, to) ==
  /\ conn = from /\ conn' = to
  /\ UNCHANGED <<table, scheduler, entry, closer, pos, working, dying, legs,
                 legsDying, closing, closeDying, anyExec, exitSeen, entries,
                 filled, late, raced>>

Disconnect ==
  /\ faults < MaxFaults /\ faults' = faults + 1
  /\ Connection("up", "down")
Reconnect == Connection("down", "resyncing") /\ UNCHANGED faults
Resync    == Connection("resyncing", "up") /\ UNCHANGED faults

\* The process restarts: its tasks and its clocks are gone.
Crash ==
  /\ faults < MaxFaults /\ faults' = faults + 1
  /\ missing' = [r \in Rows |-> "no"]
  /\ entry' = NoEntry
  /\ closer' = [c \in Closers |-> NoClose]
  /\ pass' = "idle" /\ seen' = 0
  /\ plan' = [r \in Rows |-> "none"]
  /\ conn' = "resyncing"
  /\ UNCHANGED <<table, pos, working, dying, legs, legsDying, closing,
                 closeDying, anyExec, exitSeen, entries, filled, late, raced>>

-----------------------------------------------------------------------------
EntryStep == EntryReturns \/ RecordFill

PassStep ==
  \/ PollLoad \/ (\E r \in Rows : PollRow(r)) \/ PollReread \/ PollSweep
  \/ ReconcileLoad \/ Adopt \/ Correct

CloseStep(c) == CloseSize(c) \/ CloseSubmit(c) \/ CloseReturns(c)

BrokerStep ==
  \/ \E r \in Rows : EntryFills(r) \/ EntryEnds(r)
  \/ LegsFire \/ LegsCancelled
  \/ \E c \in Closers : CloseFills(c) \/ CloseEnds(c)
  \/ NewDay \/ Disconnect \/ Reconnect \/ Resync

Next ==
  \/ SubmitEntry \/ EntryStep
  \/ PollStart \/ ReconcileStart \/ PassStep \/ PassAborted
  \/ \E r \in Rows : Age(r) \/ GraceOver(r)
  \/ \E c \in Closers : CloseCheck(c) \/ CloseStep(c)
  \/ BrokerStep \/ Crash

Spec == Init /\ [][Next]_vars

(***************************************************************************)
(* The scheduler's loop starts a poll and a reconciliation over and over   *)
(* and resumes them, tasks are resumed, time passes, a lost connection is  *)
(* re-established, and the broker ends a DAY entry or a cancelled leg.     *)
(***************************************************************************)
Fairness ==
  /\ WF_vars(EntryStep) /\ WF_vars(PassStep)
  /\ SF_vars(PollStart) /\ SF_vars(ReconcileStart)
  /\ \A r \in Rows : /\ WF_vars(Age(r)) /\ WF_vars(GraceOver(r))
                     /\ WF_vars(EntryFills(r) \/ EntryEnds(r))
  /\ WF_vars(LegsCancelled)
  /\ \A c \in Closers : WF_vars(CloseStep(c))
  /\ WF_vars(Reconnect) /\ WF_vars(Resync)

FairSpec == Spec /\ Fairness

-----------------------------------------------------------------------------
(* Properties the code has.                                                *)

Promise == INSTANCE TradeStatus WITH status <- [r \in Rows |-> rows[r].status]

(***************************************************************************)
(* Through every interleaving of recorder, poller, reconciler and close    *)
(* requests each row follows TradeStatus: nothing reopens or re-records a  *)
(* closed or cancelled row, nothing closes a pending one (trade_recorder). *)
(***************************************************************************)
KeepsPromise == Promise!Spec

(***************************************************************************)
(* A close sized from the live position does not reverse the position on   *)
(* its own, however wrong the row's quantity is: it takes a second closing *)
(* order in flight or a leg that outlived its shares (close_equity_trade). *)
(***************************************************************************)
ReversalTakesARace == pos < 0 => raced

(***************************************************************************)
(* The poller's sweep cancels the symbol's orders, stops included, only    *)
(* when no row of it is open or pending, save one recorded between the     *)
(* sweep's own read of the table and its cancels (_poll_fills, the sweep). *)
(***************************************************************************)
SweepSparesTracked ==
  [][pass = "sweep" /\ legsDying' /\ ~legsDying
       => With({"open", "pending"}) \subseteq late]_vars

(***************************************************************************)
(* A live position does not stay unseen by the guardrails: it closes or an *)
(* open row stands for it (the poller's promotion, the reconciler's        *)
(* adoption), as long as the model has a row left to insert.               *)
(***************************************************************************)
PositionsGetTracked ==
  pos # 0 ~> (pos = 0 \/ With({"open"}) # {} \/ Fresh = {})

(***************************************************************************)
(* No phantom stays: once the position is gone for good every open and     *)
(* pending row is resolved (the graces of _poll_fills).                    *)
(***************************************************************************)
PhantomsGetResolved == <>[](pos = 0) => <>[](With({"open", "pending"}) = {})

(***************************************************************************)
(* A single open row beside a lasting position gets the broker's quantity  *)
(* (_correct_quantity_mismatches, confirm_fill).                           *)
(***************************************************************************)
QuantityConverges ==
  \A r \in Rows : <>[](pos # 0 /\ With({"open"}) = {r})
                    => []<>(rows[r].qty = Abs(pos))

\* The table follows the broker in the end, in all three ways.
LedgerConverges == PositionsGetTracked /\ PhantomsGetResolved /\ QuantityConverges

-----------------------------------------------------------------------------
(* What the repository says and the code does not do.                      *)

(***************************************************************************)
(* close_equity_trade: "Sourcing the live quantity here makes every close  *)
(* self-correcting" - no close order turns a long position short.          *)
(***************************************************************************)
CloseNeverReverses ==
  [][\A c \in Closers :
       closing[c] > 0 /\ closing'[c] = 0 /\ pos' # pos => pos' >= 0]_vars
=============================================================================
