------------------------- MODULE TradeLedgerProofs -------------------------
(* Theorems about TradeLedger, for every number of rows and closes.        *)
EXTENDS TradeLedger, TLAPS

(***************************************************************************)
(* The inductive invariant.  What a suspended task is about to write fits  *)
(* the row it is about to write to: an entry's row is still blank, a close *)
(* request's row and one the poller means to book were open at some time.  *)
(* And while nothing has raced, no close order that is about to be sent or *)
(* at the broker is for more than the position.                            *)
(***************************************************************************)
Opened(r) == rows[r].status \in {"open", "closed"}

TasksFit ==
  /\ entry.at # "idle" => entry.row \in Rows /\ rows[entry.row].status = "none"
  /\ \A r \in Rows : plan[r] \in {"exit", "unknown"} => Opened(r)
  /\ \A c \in Closers : closer[c].at # "idle" => closer[c].row \in Rows /\ Opened(closer[c].row)

SweepFits == pass = "sweep" => With({"open", "pending"}) \subseteq late

ClosesFit ==
  \A c \in Closers :
    /\ closing[c] # 0 => closer[c].at \notin {"checked", "sized"}
    /\ ~raced => /\ closer[c].at = "sized" => closer[c].qty <= pos
                 /\ closing[c] # 0 => closing[c] <= pos

IInv == TypeOK /\ TasksFit /\ SweepFits /\ ClosesFit /\ ReversalTakesARace

-----------------------------------------------------------------------------
LEMMA InitIInv == Init => IInv
<1> SUFFICES ASSUME Init PROVE IInv
  OBVIOUS
<1> USE LedgerAssumption
<1>1. TypeOK
  <2>1. /\ rows \in [Rows -> [status : Statuses, qty : 0 .. MaxPos, pnl : Prices]]
        /\ missing \in [Rows -> {"no", "waiting", "expired"}]
        /\ plan \in [Rows -> Steps \cup Done]
    BY DEF Init, Blank, Statuses, Prices, Steps, Done
  <2>2. /\ entry \in [at : {"idle", "submitted", "filled", "pending"}, row : Rows \cup {NoRow}]
        /\ closer \in [Closers -> [at : {"idle", "checked", "sized", "waiting", "sold", "refused"},
                                   row : Rows \cup {NoRow}, qty : Quantities]]
        /\ closing \in [Closers -> Quantities]
    BY DEF Init, NoEntry, NoClose, Quantities
  <2>3. legsDying \in BOOLEAN /\ anyExec \in BOOLEAN /\ raced \in BOOLEAN
    BY Zenon DEF Init
  <2> QED BY <2>1, <2>2, <2>3 DEF Init, TypeOK, Quantities
<1>2. TasksFit /\ SweepFits /\ ClosesFit /\ ReversalTakesARace
  BY DEF Init, TasksFit, SweepFits, ClosesFit, ReversalTakesARace, Opened, NoEntry, NoClose
<1> QED BY <1>1, <1>2 DEF IInv

\* What is seen of the position is a position.
LEMMA ViewTyped == TypeOK => View \in Quantities
BY LedgerAssumption DEF TypeOK, View, Quantities

LEMMA TypeStep == TypeOK /\ TasksFit /\ [Next]_vars => TypeOK'
<1> SUFFICES ASSUME TypeOK, TasksFit, [Next]_vars PROVE TypeOK'
  OBVIOUS
<1> USE LedgerAssumption, ViewTyped
    DEF TypeOK, Statuses, Prices, Done, Steps, Quantities, table, scheduler, brokerVars, ghosts,
        NoEntry, NoClose
<1>1. CASE SubmitEntry
  BY <1>1 DEF SubmitEntry, Fresh, With
<1>2. CASE EntryReturns
  BY <1>2 DEF EntryReturns
<1>3. CASE RecordFill
  <2>1. EntryQty \in 0 .. MaxPos
    OBVIOUS
  <2>2. rows' \in [Rows -> [status : Statuses, qty : 0 .. MaxPos, pnl : Prices]]
    <3>1. [status |-> IF entry.at = "filled" THEN "open" ELSE "pending", qty |-> EntryQty,
           pnl |-> "null"] \in [status : Statuses, qty : 0 .. MaxPos, pnl : Prices]
      BY <2>1
    <3> QED BY <1>3, <3>1 DEF RecordFill
  <2>3. late' \subseteq Rows
    BY <1>3 DEF RecordFill, TasksFit
  <2> QED BY <1>3, <2>2, <2>3 DEF RecordFill
<1>4. CASE PollStart
  BY <1>4 DEF PollStart
<1>5. CASE ReconcileStart
  BY <1>5 DEF ReconcileStart
<1>6. CASE PollLoad
  BY <1>6 DEF PollLoad, Decide
<1>7. ASSUME NEW r \in Rows, PollRow(r) PROVE TypeOK'
  <2>1. Booked(r) \in [status : Statuses, qty : 0 .. MaxPos, pnl : Prices]
    <3> DEFINE Row == [status : Statuses, qty : 0 .. MaxPos, pnl : Prices]
    <3>1. rows[r] \in Row
      OBVIOUS
    <3>2. CASE plan[r] = "confirm" /\ rows[r].status = "pending"
      <4>1. (IF seen # 0 THEN Abs(seen) ELSE rows[r].qty) \in 0 .. MaxPos
        BY <3>1 DEF Abs
      <4>2. Booked(r) = [rows[r] EXCEPT !.status = "open",
                                        !.qty = IF seen # 0 THEN Abs(seen) ELSE @]
        BY <3>2 DEF Booked
      <4> QED BY <3>1, <4>1, <4>2
    <3>3. CASE plan[r] # "confirm" \/ rows[r].status # "pending"
      BY <3>1, <3>3 DEF Booked
    <3> QED BY <3>2, <3>3
  <2>2. rows' \in [Rows -> [status : Statuses, qty : 0 .. MaxPos, pnl : Prices]]
    BY <1>7, <2>1 DEF PollRow
  <2>3. /\ missing' \in [Rows -> {"no", "waiting", "expired"}]
        /\ plan' \in [Rows -> Steps \cup Done]
    BY <1>7 DEF PollRow, ToDo
  <2> QED BY <1>7, <2>2, <2>3 DEF PollRow, Fails
<1>8. CASE PollReread
  BY <1>8 DEF PollReread, EndPass
<1>9. CASE PollSweep
  <2>1. dying' \subseteq working /\ closeDying' \subseteq Closers /\ pass' = "idle"
    BY <1>9 DEF PollSweep, CancelOpenOrders
  <2>2. legsDying' \in BOOLEAN /\ anyExec' \in BOOLEAN /\ raced' \in BOOLEAN
    <3>1. (legs > 0) \in BOOLEAN
      OBVIOUS
    <3> QED BY <1>9, <3>1, Zenon DEF PollSweep, CancelOpenOrders
  <2> QED BY <1>9, <2>1, <2>2 DEF PollSweep
<1>10. CASE ReconcileLoad
  BY <1>10 DEF ReconcileLoad
<1>11. CASE Adopt
  BY <1>11 DEF Adopt, Fresh, With, Abs
<1>12. CASE Correct
  <2>1. Abs(seen) \in 0 .. MaxPos
    BY DEF Abs
  <2>2. rows' \in [Rows -> [status : Statuses, qty : 0 .. MaxPos, pnl : Prices]]
    BY <1>12, <2>1 DEF Correct
  <2> QED BY <1>12, <2>2 DEF Correct
<1>13. CASE PassAborted
  BY <1>13 DEF PassAborted
<1>14. ASSUME NEW r \in Rows, Age(r) \/ GraceOver(r) PROVE TypeOK'
  BY <1>14 DEF Age, GraceOver
<1>15. ASSUME NEW c \in Closers, CloseCheck(c) PROVE TypeOK'
  BY <1>15 DEF CloseCheck, With
<1>16. ASSUME NEW c \in Closers, CloseStep(c) PROVE TypeOK'
  <2>1. CASE CloseSize(c)
    <3>1. dying' \subseteq working /\ closeDying' \subseteq Closers
      BY <2>1 DEF CloseSize, CancelOpenOrders
    <3>2. legsDying' \in BOOLEAN /\ anyExec' \in BOOLEAN /\ raced' \in BOOLEAN
      <4>1. (legs > 0) \in BOOLEAN
        OBVIOUS
      <4> QED BY <2>1, <4>1, Zenon DEF CloseSize, CancelOpenOrders
    <3> QED BY <2>1, <3>1, <3>2 DEF CloseSize, CloseQuantity
  <2>2. CASE CloseSubmit(c)
    BY <2>2 DEF CloseSubmit
  <2>3. CASE CloseReturns(c)
    BY <2>3 DEF CloseReturns, Fails
  <2> QED BY <1>16, <2>1, <2>2, <2>3 DEF CloseStep
<1>17. ASSUME NEW r \in Rows, EntryFills(r) \/ EntryEnds(r) PROVE TypeOK'
  <2>1. CASE EntryFills(r)
    <3>1. pos' \in Quantities /\ legs' \in 0 .. MaxPos
      BY <2>1 DEF EntryFills
    <3> QED BY <2>1, <3>1 DEF EntryFills
  <2>2. CASE EntryEnds(r)
    BY <2>2 DEF EntryEnds
  <2> QED BY <1>17, <2>1, <2>2
<1>18. CASE LegsFire \/ LegsCancelled
  <2>1. CASE LegsFire
    <3>1. pos' \in Quantities /\ exitSeen' \subseteq Rows /\ anyExec' = TRUE
      BY <2>1 DEF LegsFire, Execute
    <3>2. legsDying' \in BOOLEAN /\ anyExec' \in BOOLEAN /\ raced' \in BOOLEAN
      BY <2>1, Zenon DEF LegsFire, Execute
    <3> QED BY <2>1, <3>1, <3>2 DEF LegsFire
  <2>2. CASE LegsCancelled
    <3>1. legsDying' \in BOOLEAN /\ anyExec' \in BOOLEAN /\ raced' \in BOOLEAN
      BY <2>2, Zenon DEF LegsCancelled
    <3> QED BY <2>2, <3>1 DEF LegsCancelled
  <2> QED BY <1>18, <2>1, <2>2
<1>19. ASSUME NEW c \in Closers, CloseFills(c) \/ CloseEnds(c) PROVE TypeOK'
  <2>1. CASE CloseFills(c)
    <3>1. pos' \in Quantities /\ exitSeen' \subseteq Rows /\ anyExec' = TRUE
      BY <2>1 DEF CloseFills, Execute
    <3>2. legsDying' \in BOOLEAN /\ anyExec' \in BOOLEAN /\ raced' \in BOOLEAN
      BY <2>1, Zenon DEF CloseFills, Execute
    <3>3. closer' \in [Closers -> [at : {"idle", "checked", "sized", "waiting", "sold", "refused"},
                                  row : Rows \cup {NoRow}, qty : Quantities]]
      BY <2>1 DEF CloseFills, Tell
    <3>4. closing' \in [Closers -> Quantities] /\ closeDying' \subseteq Closers
      BY <2>1 DEF CloseFills
    <3> QED BY <2>1, <3>1, <3>2, <3>3, <3>4 DEF CloseFills
  <2>2. CASE CloseEnds(c)
    BY <2>2 DEF CloseEnds, Tell
  <2> QED BY <1>19, <2>1, <2>2
<1>20. CASE NewDay
  BY <1>20 DEF NewDay
<1>21. CASE Disconnect \/ Reconnect \/ Resync
  BY <1>21 DEF Disconnect, Reconnect, Resync, Connection
<1>22. CASE Crash
  BY <1>22 DEF Crash
<1>23. CASE UNCHANGED vars
  BY <1>23 DEF vars
<1> QED
  BY <1>1, <1>2, <1>3, <1>4, <1>5, <1>6, <1>7, <1>8, <1>9, <1>10, <1>11, <1>12, <1>13, <1>14,
     <1>15, <1>16, <1>17, <1>18, <1>19, <1>20, <1>21, <1>22, <1>23
     DEF Next, EntryStep, PassStep, BrokerStep

-----------------------------------------------------------------------------
(* What rows have been stays what they have been.                          *)

LEMMA FitStep == TypeOK /\ TasksFit /\ [Next]_vars => TasksFit'
<1> SUFFICES ASSUME TypeOK, TasksFit, [Next]_vars PROVE TasksFit'
  OBVIOUS
<1> USE LedgerAssumption DEF TypeOK, TasksFit, Opened, table, scheduler, NoEntry, NoClose
<1>1. CASE SubmitEntry
  BY <1>1 DEF SubmitEntry, Fresh, With
<1>2. CASE EntryReturns
  BY <1>2 DEF EntryReturns
<1>3. CASE RecordFill
  BY <1>3 DEF RecordFill
<1>4. CASE PollStart \/ ReconcileStart \/ ReconcileLoad
  BY <1>4 DEF PollStart, ReconcileStart, ReconcileLoad
<1>5. CASE PollLoad
  <2>1. ASSUME NEW r \in Rows
        PROVE  /\ Decide(r, anyExec, exitSeen) \in {"exit", "unknown"} => Opened(r)
               /\ Decide(r, FALSE, {}) \in {"exit", "unknown"} => Opened(r)
    BY DEF Decide
  <2>2. \/ plan' = plan
        \/ plan' = [r \in Rows |-> Decide(r, anyExec, exitSeen)]
        \/ plan' = [r \in Rows |-> Decide(r, FALSE, {})]
    BY <1>5 DEF PollLoad
  <2>3. \A r \in Rows : plan'[r] \in {"exit", "unknown"} => Opened(r)
    <3>1. CASE plan' = plan
      BY <3>1
    <3>2. CASE plan' = [r \in Rows |-> Decide(r, anyExec, exitSeen)]
      BY <2>1, <3>2
    <3>3. CASE plan' = [r \in Rows |-> Decide(r, FALSE, {})]
      BY <2>1, <3>3
    <3> QED BY <2>2, <3>1, <3>2, <3>3
  <2> QED BY <1>5, <2>3 DEF PollLoad
<1>6. ASSUME NEW r \in Rows, PollRow(r) PROVE TasksFit'
  <2>1. Opened(r) => Booked(r).status \in {"open", "closed"}
    BY DEF Booked
  <2>2. rows[r].status = "none" => Booked(r).status = "none"
    BY DEF Booked
  <2>3. \A q \in Rows : plan'[q] \in {"exit", "unknown"} => q # r /\ plan[q] = plan'[q]
    BY <1>6 DEF PollRow
  <2>4. \A q \in Rows : rows'[q] = rows[q] \/ (q = r /\ rows'[q] = Booked(r))
    BY <1>6 DEF PollRow
  <2> QED BY <1>6, <2>1, <2>2, <2>3, <2>4 DEF PollRow
<1>7. CASE PollReread
  BY <1>7 DEF PollReread, EndPass
<1>8. CASE PollSweep
  BY <1>8 DEF PollSweep
<1>9. CASE Adopt
  BY <1>9 DEF Adopt, Fresh, With
<1>10. CASE Correct
  BY <1>10 DEF Correct
<1>11. CASE PassAborted
  BY <1>11 DEF PassAborted
<1>12. ASSUME NEW r \in Rows, Age(r) \/ GraceOver(r) PROVE TasksFit'
  BY <1>12 DEF Age, GraceOver
<1>13. ASSUME NEW c \in Closers, CloseCheck(c) PROVE TasksFit'
  BY <1>13 DEF CloseCheck, With
<1>14. ASSUME NEW c \in Closers, CloseStep(c) PROVE TasksFit'
  <2>1. CASE CloseSize(c)
    BY <2>1 DEF CloseSize
  <2>2. CASE CloseSubmit(c)
    BY <2>2 DEF CloseSubmit
  <2>3. CASE CloseReturns(c)
    <3>1. closer[c].row \in Rows /\ Opened(closer[c].row)
      BY <2>3 DEF CloseReturns
    <3>2. \A r \in Rows : \/ rows'[r] = rows[r]
                          \/ r = closer[c].row /\ rows'[r].status = "closed"
      BY <2>3, <3>1 DEF CloseReturns
    <3>3. \A d \in Closers : closer'[d] = closer[d] \/ closer'[d] = NoClose
      BY <2>3 DEF CloseReturns
    <3> QED BY <2>3, <3>1, <3>2, <3>3 DEF CloseReturns
  <2> QED BY <1>14, <2>1, <2>2, <2>3 DEF CloseStep
<1>15. ASSUME NEW r \in Rows, EntryFills(r) \/ EntryEnds(r) PROVE TasksFit'
  BY <1>15 DEF EntryFills, EntryEnds
<1>16. CASE LegsFire \/ LegsCancelled \/ NewDay
  BY <1>16 DEF LegsFire, LegsCancelled, NewDay
<1>17. ASSUME NEW c \in Closers, CloseFills(c) \/ CloseEnds(c) PROVE TasksFit'
  BY <1>17 DEF CloseFills, CloseEnds, Tell
<1>18. CASE Disconnect \/ Reconnect \/ Resync
  BY <1>18 DEF Disconnect, Reconnect, Resync, Connection
<1>19. CASE Crash
  BY <1>19 DEF Crash
<1>20. CASE UNCHANGED vars
  BY <1>20 DEF vars
<1> QED
  BY <1>1, <1>2, <1>3, <1>4, <1>5, <1>6, <1>7, <1>8, <1>9, <1>10, <1>11, <1>12, <1>13, <1>14,
     <1>15, <1>16, <1>17, <1>18, <1>19, <1>20
     DEF Next, EntryStep, PassStep, BrokerStep

-----------------------------------------------------------------------------
(* The sweep spares what is tracked.                                       *)

LEMMA SweepStep == IInv /\ [Next]_vars => SweepFits'
<1> SUFFICES ASSUME IInv, [Next]_vars PROVE SweepFits'
  OBVIOUS
<1> USE DEF IInv, TypeOK, TasksFit, SweepFits, With, table, scheduler, ghosts
<1>1. CASE RecordFill
  BY <1>1 DEF RecordFill
<1>2. CASE PollReread
  BY <1>2 DEF PollReread
<1>3. ASSUME NEW c \in Closers, CloseReturns(c) PROVE SweepFits'
  <2>1. \A r \in Rows : rows'[r].status \in {rows[r].status, "closed"}
    BY <1>3 DEF CloseReturns
  <2> QED BY <1>3, <2>1 DEF CloseReturns
<1>4. CASE pass' # "sweep"
  BY <1>4
<1>5. CASE UNCHANGED <<rows, pass, late>>
  BY <1>5
<1>6. \/ RecordFill \/ PollReread \/ pass' # "sweep" \/ UNCHANGED <<rows, pass, late>>
      \/ \E c \in Closers : CloseReturns(c)
  BY DEF Next, EntryStep, PassStep, CloseStep, BrokerStep, vars, SubmitEntry, EntryReturns, PollStart,
         ReconcileStart, PollLoad, PollRow, PollSweep, ReconcileLoad, Adopt, Correct,
         PassAborted, Age, GraceOver, CloseCheck, CloseSize, CloseSubmit, EntryFills, EntryEnds,
         LegsFire, LegsCancelled, CloseFills, CloseEnds, NewDay, Disconnect, Reconnect,
         Resync, Connection, Crash
<1> QED BY <1>1, <1>2, <1>3, <1>4, <1>5, <1>6

-----------------------------------------------------------------------------
(* A close is for no more than the position, races apart.                  *)

LEMMA CloseStepFits ==
  IInv /\ [Next]_vars => ClosesFit' /\ ReversalTakesARace'
<1> SUFFICES ASSUME IInv, [Next]_vars PROVE ClosesFit' /\ ReversalTakesARace'
  OBVIOUS
<1> USE LedgerAssumption
    DEF IInv, TypeOK, ClosesFit, ReversalTakesARace, Quantities, NoClose, ghosts, brokerVars
<1>1. ASSUME NEW c \in Closers, CloseCheck(c) PROVE ClosesFit' /\ ReversalTakesARace'
  BY <1>1 DEF CloseCheck
<1>2. ASSUME NEW c \in Closers, CloseSize(c) PROVE ClosesFit' /\ ReversalTakesARace'
  BY <1>2 DEF CloseSize, CloseQuantity, View
<1>3. ASSUME NEW c \in Closers, CloseSubmit(c) PROVE ClosesFit' /\ ReversalTakesARace'
  BY <1>3 DEF CloseSubmit
<1>4. ASSUME NEW c \in Closers, CloseReturns(c) PROVE ClosesFit' /\ ReversalTakesARace'
  BY <1>4 DEF CloseReturns
<1>5. ASSUME NEW r \in Rows, EntryFills(r) PROVE ClosesFit' /\ ReversalTakesARace'
  BY <1>5 DEF EntryFills
<1>6. CASE LegsFire
  <2>1. ~raced' => ~raced /\ ~(pos < legs) /\ \A c \in Closers : ~InFlight(c)
    BY <1>6, Zenon DEF LegsFire
  <2>2. pos' = pos - legs /\ closing' = closing /\ closer' = closer
    BY <1>6 DEF LegsFire, Execute
  <2> QED BY <2>1, <2>2 DEF InFlight
<1>7. ASSUME NEW c \in Closers, CloseFills(c) PROVE ClosesFit' /\ ReversalTakesARace'
  <2>1. ~raced' => ~raced /\ \A d \in Closers \ {c} : ~InFlight(d)
    BY <1>7, Zenon DEF CloseFills
  <2>2. /\ pos' = pos - closing[c] /\ closing[c] # 0
        /\ closing' = [closing EXCEPT ![c] = 0]
        /\ \A d \in Closers \ {c} : closer'[d] = closer[d]
        /\ closer'[c].at \in {closer[c].at, "sold"}
    BY <1>7 DEF CloseFills, Execute, Tell
  <2> QED BY <2>1, <2>2 DEF InFlight
<1>8. ASSUME NEW c \in Closers, CloseEnds(c) PROVE ClosesFit' /\ ReversalTakesARace'
  BY <1>8 DEF CloseEnds, Tell
<1>9. CASE Crash
  BY <1>9 DEF Crash
<1>10. CASE UNCHANGED <<closer, closing, pos, raced>>
  BY <1>10
<1>11. \/ UNCHANGED <<closer, closing, pos, raced>>
       \/ \E c \in Closers : CloseCheck(c) \/ CloseSize(c) \/ CloseSubmit(c) \/ CloseReturns(c)
                              \/ CloseFills(c) \/ CloseEnds(c)
       \/ \E r \in Rows : EntryFills(r)
       \/ LegsFire \/ Crash
  BY DEF Next, EntryStep, PassStep, CloseStep, BrokerStep, vars, SubmitEntry, EntryReturns, RecordFill,
         PollStart, ReconcileStart, PollLoad, PollRow, PollReread, PollSweep, ReconcileLoad, Adopt,
         Correct, PassAborted, Age, GraceOver, EntryEnds, LegsCancelled, NewDay, Disconnect,
         Reconnect, Resync, Connection, CancelOpenOrders
<1> QED BY <1>1, <1>2, <1>3, <1>4, <1>5, <1>6, <1>7, <1>8, <1>9, <1>10, <1>11

LEMMA IInvStep == IInv /\ [Next]_vars => IInv'
BY TypeStep, FitStep, SweepStep, CloseStepFits DEF IInv

LEMMA IInvHolds == Spec => []IInv
BY InitIInv, IInvStep, PTL DEF Spec

-----------------------------------------------------------------------------
(***************************************************************************)
(* Every variable keeps its type.                                          *)
(***************************************************************************)
THEOREM TypeCorrect == Spec => []TypeOK
<1>1. IInv => TypeOK
  BY DEF IInv
<1> QED BY <1>1, IInvHolds, PTL

(***************************************************************************)
(* close_equity_trade: no close reverses the position on its own.          *)
(***************************************************************************)
THEOREM ReversalsAreRaces == Spec => []ReversalTakesARace
<1>1. IInv => ReversalTakesARace
  BY DEF IInv
<1> QED BY <1>1, IInvHolds, PTL

(***************************************************************************)
(* _poll_fills: the sweep cancels no protection of a tracked position, but *)
(* of one recorded since it read the table.                                *)
(***************************************************************************)
THEOREM SweepsSpare == Spec => SweepSparesTracked
<1>1. IInv /\ [Next]_vars => [pass = "sweep" /\ legsDying' /\ ~legsDying
                               => With({"open", "pending"}) \subseteq late]_vars
  BY DEF IInv, SweepFits
<1> QED BY <1>1, IInvHolds, PTL DEF Spec, SweepSparesTracked

-----------------------------------------------------------------------------
(* TradeLedger implements TradeStatus.                                     *)

status == [r \in Rows |-> rows[r].status]

\* One row moves, or none does.
LEMMA OneRowMoves ==
  ASSUME IInv, NEW r \in Rows, NEW to,
         \A q \in Rows \ {r} : rows'[q].status = rows[q].status,
         rows'[r].status = to,
         \/ to = rows[r].status
         \/ rows[r].status = "none" /\ to \in {"pending", "open"}
         \/ rows[r].status = "pending" /\ to \in {"open", "cancelled"}
         \/ rows[r].status = "open" /\ to = "closed"
  PROVE  [Promise!Next]_status
<1>1. CASE to = rows[r].status
  BY <1>1 DEF status
<1>2. CASE to # rows[r].status
  <2>1. status' = [status EXCEPT ![r] = to] /\ status[r] = rows[r].status
    BY DEF status
  <2>2. Promise!Record(r) \/ Promise!Confirm(r) \/ Promise!Cancel(r) \/ Promise!Book(r)
    BY <1>2, <2>1 DEF status, Promise!Record, Promise!Confirm, Promise!Cancel, Promise!Book,
                      Promise!Move
  <2>3. status'[r] # status[r]
    BY <1>2, <2>1 DEF status
  <2>4. status' # status
    BY <2>3
  <2>5. Promise!Next
    BY <2>2, <2>4 DEF Promise!Next, status
  <2> QED BY <2>5
<1> QED BY <1>1, <1>2

LEMMA StepIsPromised == IInv /\ [Next]_vars => [Promise!Next]_status
<1> SUFFICES ASSUME IInv, [Next]_vars PROVE [Promise!Next]_status
  OBVIOUS
<1> USE DEF IInv, TypeOK, TasksFit, Opened, table
<1>1. CASE UNCHANGED rows
  BY <1>1 DEF status
<1>2. CASE RecordFill
  <2>1. CASE rows' = rows
    BY <2>1, <1>1
  <2>2. CASE rows' # rows
    <3> DEFINE to == IF entry.at = "filled" THEN "open" ELSE "pending"
    <3>1. /\ entry.row \in Rows /\ rows[entry.row].status = "none"
          /\ \A q \in Rows \ {entry.row} : rows'[q].status = rows[q].status
          /\ rows'[entry.row].status = to /\ to \in {"pending", "open"}
      BY <1>2, <2>2 DEF RecordFill
    <3> HIDE DEF to
    <3> QED BY <3>1, OneRowMoves
  <2> QED BY <2>1, <2>2
<1>3. ASSUME NEW r \in Rows, PollRow(r) PROVE [Promise!Next]_status
  <2>1. CASE rows' = rows
    BY <2>1, <1>1
  <2>2. CASE rows' # rows
    <3>1. rows' = [rows EXCEPT ![r] = Booked(r)]
      BY <1>3, <2>2 DEF PollRow
    <3>2. \A q \in Rows \ {r} : rows'[q].status = rows[q].status
      BY <3>1
    <3>3. rows'[r].status = Booked(r).status
      BY <3>1
    <3>4. \/ Booked(r).status = rows[r].status
          \/ rows[r].status = "pending" /\ Booked(r).status \in {"open", "cancelled"}
          \/ rows[r].status = "open" /\ Booked(r).status = "closed"
      BY DEF Booked
    <3> QED BY <3>2, <3>3, <3>4, OneRowMoves
  <2> QED BY <2>1, <2>2
<1>4. CASE Adopt
  <2>1. CASE rows' = rows
    BY <2>1, <1>1
  <2>2. CASE rows' # rows
    <3>1. PICK r \in Fresh :
            rows' = [rows EXCEPT ![r] = [status |-> "open", qty |-> Abs(seen), pnl |-> "null"]]
      BY <1>4, <2>2 DEF Adopt
    <3>2. r \in Rows /\ rows[r].status = "none"
      BY DEF Fresh, With
    <3>3. /\ \A q \in Rows \ {r} : rows'[q].status = rows[q].status
          /\ rows'[r].status = "open"
      BY <3>1, <3>2
    <3> QED BY <3>2, <3>3, OneRowMoves
  <2> QED BY <2>1, <2>2
<1>5. CASE Correct
  BY <1>5 DEF Correct, status
<1>6. ASSUME NEW c \in Closers, CloseReturns(c) PROVE [Promise!Next]_status
  <2>1. CASE rows' = rows
    BY <2>1, <1>1
  <2>2. CASE rows' # rows
    <3>1. closer[c].row \in Rows /\ Opened(closer[c].row)
      BY <1>6 DEF CloseReturns
    <3>2. /\ \A q \in Rows \ {closer[c].row} : rows'[q].status = rows[q].status
          /\ rows'[closer[c].row].status = "closed"
      BY <1>6, <2>2, <3>1 DEF CloseReturns
    <3> QED BY <3>1, <3>2, OneRowMoves
  <2> QED BY <2>1, <2>2
<1>7. \/ UNCHANGED rows \/ RecordFill \/ Adopt \/ Correct
      \/ \E r \in Rows : PollRow(r)
      \/ \E c \in Closers : CloseReturns(c)
  BY DEF Next, EntryStep, PassStep, CloseStep, BrokerStep, vars, SubmitEntry, EntryReturns, PollStart,
         ReconcileStart, PollLoad, PollReread, PollSweep, ReconcileLoad, PassAborted, Age,
         GraceOver, CloseCheck, CloseSize, CloseSubmit, EntryFills, EntryEnds, LegsFire,
         LegsCancelled, CloseFills, CloseEnds, NewDay, Disconnect, Reconnect, Resync,
         Connection, Crash
<1> QED BY <1>1, <1>2, <1>3, <1>4, <1>5, <1>6, <1>7

(***************************************************************************)
(* The table keeps its promise to its readers (trade_recorder): a row is   *)
(* recorded, confirmed or cancelled, closed, and nothing comes back.       *)
(***************************************************************************)
THEOREM PromiseKept == Spec => KeepsPromise
<1>1. Init => Promise!Init
  BY DEF Init, Blank, Promise!Init
<1>2. IInv /\ [Next]_vars => [Promise!Next]_[r \in Rows |-> rows[r].status]
  BY StepIsPromised DEF status
<1> QED BY <1>1, <1>2, IInvHolds, PTL DEF Spec, KeepsPromise, Promise!Spec
=============================================================================
