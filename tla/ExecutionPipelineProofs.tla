---------------------- MODULE ExecutionPipelineProofs ----------------------
(* Theorems about ExecutionPipeline, for every set of tickers, events,     *)
(* requests and orders, every cap and every number of faults.              *)
EXTENDS ExecutionPipeline, FiniteSetTheorems, TLAPS

(***************************************************************************)
(* What the queue and the tasks hold on to: an event nobody has queued was *)
(* never used; a review is unused until it is approved; whoever is about   *)
(* to write a verdict holds an approval; every task works on a ticker, and *)
(* its order is an order for that ticker.                                  *)
(***************************************************************************)
QueueFits ==
  \A e \in Events :
    /\ event[e].kind = "none" => used[e] = 0
    /\ event[e].status = "pending" => event[e].ticker \in Tickers
    /\ event[e].kind = "review" =>
         /\ used[e] <= 1
         /\ event[e].status \in {"pending", "rejected"} => used[e] = 0

Resolving(k) == task[k].at \in {"approving", "rejecting"}
Ordering(k)  == task[k].at \in {"ordered", "filled", "pending"}
Past(k)      == task[k].at = "submit" \/ Ordering(k)
Airborne(k)  == task[k].at = "guard" \/ Past(k)

TasksFit ==
  \A k \in Tasks :
    /\ Resolving(k) => task[k].event \in Events /\ event[task[k].event].kind = "approval"
    /\ task[k].at # "idle" => task[k].ticker \in Tickers
    /\ Ordering(k) =>
         task[k].order \in Orders /\ order[task[k].order].ticker = task[k].ticker

OrdersFit == \A o \in Orders : order[o].st # "none" => order[o].ticker \in Tickers

Fits == QueueFits /\ TasksFit /\ OrdersFit

-----------------------------------------------------------------------------
LEMMA InitFits == Init => TypeOK /\ Fits
<1> SUFFICES ASSUME Init PROVE TypeOK /\ Fits
  OBVIOUS
<1>1. TypeOK
  <2>1. /\ event \in [Events -> [kind : Kinds, ticker : Tickers \cup {None},
                                 incumbent : Orders \cup {None}, status : Verdicts]]
        /\ task \in [Tasks -> [at : Places, ticker : Tickers \cup {None},
                               event : Events \cup {None}, order : Orders \cup {None}]]
        /\ order \in [Orders -> [ticker : Tickers \cup {None},
                                 st : {"none", "working", "dying", "filled", "ended", "gone"}]]
    BY DEF Init, NoEvent, Idle, NoOrder, Kinds, Verdicts, Places
  <2>2. crowded \in BOOLEAN
    BY Zenon DEF Init
  <2>3. Cardinality(Users) \in Nat
    BY PipelineAssumption, FS_CardinalityType
  <2> QED BY <2>1, <2>2, <2>3, PipelineAssumption DEF Init, TypeOK
<1>2. Fits
  BY DEF Init, Fits, QueueFits, TasksFit, OrdersFit, Resolving, Ordering, NoEvent, Idle, NoOrder
<1> QED BY <1>1, <1>2

\* The histories keep their types whatever the step.
LEMMA RememberTyped ==
  Remember => untracked' \subseteq Orders /\ overlap' \subseteq Tickers /\ crowded' \in BOOLEAN
<1> SUFFICES ASSUME Remember
             PROVE  untracked' \subseteq Orders /\ overlap' \subseteq Tickers /\ crowded' \in BOOLEAN
  OBVIOUS
<1>1. untracked' \subseteq Orders /\ overlap' \subseteq Tickers
  BY DEF Remember, Alive
<1>2. crowded' \in BOOLEAN
  BY Zenon DEF Remember
<1> QED BY <1>1, <1>2

-----------------------------------------------------------------------------
(* Every step keeps types and fits.                                        *)

EventRow == [kind : Kinds, ticker : Tickers \cup {None}, incumbent : Orders \cup {None},
             status : Verdicts]
TaskRow  == [at : Places, ticker : Tickers \cup {None}, event : Events \cup {None},
             order : Orders \cup {None}]
OrderRow == [ticker : Tickers \cup {None},
             st : {"none", "working", "dying", "filled", "ended", "gone"}]

Typed ==
  /\ event \in [Events -> EventRow] /\ task \in [Tasks -> TaskRow]
  /\ order \in [Orders -> OrderRow]
  /\ row \in [Orders -> {"none", "pending", "open", "over"}]
  /\ faults \in 0 .. MaxFaults
  /\ used \in [Events -> Nat]

LEMMA RowsTyped == Idle \in TaskRow /\ NoEvent \in EventRow /\ NoOrder \in OrderRow
BY DEF Idle, NoEvent, NoOrder, TaskRow, EventRow, OrderRow, Places, Kinds, Verdicts

\* One task, one event, or the orders of one ticker change.
LEMMA TaskTyped ==
  ASSUME Typed, NEW k \in Tasks, NEW now \in TaskRow, task' = [task EXCEPT ![k] = now]
  PROVE  task' \in [Tasks -> TaskRow]
BY DEF Typed

LEMMA GoesTyped ==
  ASSUME Typed, NEW k \in Tasks, NEW to \in Places, Goes(k, to)
  PROVE  task' \in [Tasks -> TaskRow]
BY DEF Typed, TaskRow, Goes

LEMMA ExecutesTyped ==
  ASSUME Typed, NEW k \in Tasks, NEW t \in Tickers, Executes(k, t)
  PROVE  task' \in [Tasks -> TaskRow]
<1>1. [Idle EXCEPT !.at = "gate", !.ticker = t] \in TaskRow
  BY DEF Idle, TaskRow, Places
<1> QED BY <1>1, TaskTyped DEF Executes

LEMMA FinishedTyped ==
  ASSUME Typed, NEW k \in Tasks, Finished(k)
  PROVE  task' \in [Tasks -> TaskRow]
BY RowsTyped, TaskTyped DEF Finished

LEMMA ResolvedTyped ==
  ASSUME Typed, NEW e \in Events, NEW verdict \in Verdicts, Resolved(e, verdict)
  PROVE  event' \in [Events -> EventRow]
<1>1. [NoEvent EXCEPT !.kind = event[e].kind, !.status = verdict] \in EventRow
  BY DEF Typed, NoEvent, EventRow
<1> QED BY <1>1 DEF Resolved, Typed

LEMMA SoldTyped == ASSUME Typed, NEW t PROVE Sold(t) \in [Orders -> OrderRow]
BY DEF Typed, Sold, OrderRow

LEMMA TypeStep == Typed /\ Fits /\ Step => Typed'
<1> SUFFICES ASSUME Typed, Fits, Step PROVE Typed'
  OBVIOUS
<1> USE PipelineAssumption, TaskTyped, GoesTyped, ExecutesTyped, FinishedTyped, RowsTyped
    DEF market, Fault
<1>0. Users \subseteq Tasks /\ Scanner \in Tasks
  BY DEF Tasks
<1>1. ASSUME NEW u \in Users, NEW e \in Events, SelectApproval(u, e) PROVE Typed'
  <2>1. PICK at \in {"approving", "rejecting"} :
          task' = [task EXCEPT ![u] = [Idle EXCEPT !.at = at, !.event = e,
                                                 !.ticker = event[e].ticker]]
    BY <1>1 DEF SelectApproval
  <2>2. [Idle EXCEPT !.at = at, !.event = e, !.ticker = event[e].ticker] \in TaskRow
    BY DEF Typed, Idle, TaskRow, EventRow, Places
  <2>3. task' \in [Tasks -> TaskRow]
    BY <1>0, <2>1, <2>2
  <2> QED BY <1>1, <2>3 DEF SelectApproval, Typed
<1>2. ASSUME NEW u \in Users, NEW e \in Events, ApproveReview(u, e) PROVE Typed'
  <2>1. [Idle EXCEPT !.at = "review", !.ticker = event[e].ticker,
                     !.order = event[e].incumbent] \in TaskRow
    BY DEF Typed, Idle, TaskRow, EventRow, Places
  <2>2. task' \in [Tasks -> TaskRow]
    BY <1>0, <1>2, <2>1 DEF ApproveReview
  <2>3. event' \in [Events -> EventRow]
    BY <1>2, ResolvedTyped DEF ApproveReview, Verdicts
  <2>4. used' \in [Events -> Nat]
    BY <1>2 DEF ApproveReview, Typed
  <2> QED BY <1>2, <2>2, <2>3, <2>4 DEF ApproveReview, Typed
<1>3. ASSUME NEW u \in Users, CommitApproval(u) PROVE Typed'
  <2>1. task[u].event \in Events /\ task[u].ticker \in Tickers
    BY <1>0, <1>3 DEF CommitApproval, Fits, TasksFit, Resolving
  <2>2. task' \in [Tasks -> TaskRow] /\ used' \in [Events -> Nat]
    BY <1>0, <1>3, <2>1 DEF CommitApproval, Typed
  <2>3. event' \in [Events -> EventRow]
    BY <1>3, <2>1, ResolvedTyped DEF CommitApproval, Verdicts
  <2> QED BY <1>3, <2>2, <2>3 DEF CommitApproval, Typed
<1>4. ASSUME NEW u \in Users, CheckIncumbent(u) PROVE Typed'
  <2>1. task' \in [Tasks -> TaskRow]
    BY <1>0, <1>4 DEF CheckIncumbent, Places
  <2> QED BY <1>4, <2>1 DEF CheckIncumbent, Typed
<1>5. ASSUME NEW u \in Users, CloseIncumbent(u) PROVE Typed'
  <2>1. task[u].ticker \in Tickers
    BY <1>0, <1>5 DEF CloseIncumbent, Fits, TasksFit
  <2>2. task' \in [Tasks -> TaskRow]
    BY <1>0, <1>5, <2>1 DEF CloseIncumbent
  <2>3. order' \in [Orders -> OrderRow]
    <3> DEFINE swept(os) == [o \in Orders |->
                 IF o \in Of(order[task[u].order].ticker) /\ os[o].st = "working"
                 THEN [os[o] EXCEPT !.st = "dying"] ELSE os[o]]
    <3>1. \A os \in [Orders -> OrderRow] : swept(os) \in [Orders -> OrderRow]
      BY DEF OrderRow
    <3>2. \/ order' = order \/ order' = swept(order)
          \/ order' = swept(Sold(order[task[u].order].ticker))
      BY <1>5 DEF CloseIncumbent
    <3> HIDE DEF swept
    <3> QED BY <3>1, <3>2, SoldTyped DEF Typed
  <2>4. row' \in [Orders -> {"none", "pending", "open", "over"}]
    BY <1>5 DEF CloseIncumbent, Typed
  <2>5. faults' \in 0 .. MaxFaults
    <3>1. faults' = faults \/ (faults < MaxFaults /\ faults' = faults + 1)
      BY <1>5 DEF CloseIncumbent
    <3> QED BY <3>1 DEF Typed
  <2> QED BY <1>5, <2>2, <2>3, <2>4, <2>5 DEF CloseIncumbent, Typed
<1>6. ASSUME NEW u \in Users, NEW t \in Tickers, StartManual(u, t) PROVE Typed'
  BY <1>0, <1>6 DEF StartManual, Typed
<1>7. ASSUME NEW k \in Tasks, Decline(k) PROVE Typed'
  BY <1>7 DEF Decline, Typed
<1>8. ASSUME NEW k \in Tasks, PassPortfolioGate(k) PROVE Typed'
  BY <1>8 DEF PassPortfolioGate, Typed, Places
<1>9. ASSUME NEW k \in Tasks, NEW e \in Events, RaiseReview(k, e) PROVE Typed'
  <2>1. event' \in [Events -> EventRow]
    BY <1>9 DEF RaiseReview, Recorded, Typed, TaskRow, EventRow, Kinds, Verdicts
  <2> QED BY <1>9, <2>1 DEF RaiseReview, Typed
<1>10. ASSUME NEW k \in Tasks, PassGuard(k) PROVE Typed'
  BY <1>10 DEF PassGuard, Typed, Places
<1>11. ASSUME NEW k \in Tasks, NEW o \in Orders, Submit(k, o) PROVE Typed'
  <2>1. task' \in [Tasks -> TaskRow] /\ order' \in [Orders -> OrderRow]
    BY <1>11 DEF Submit, Typed, TaskRow, OrderRow, Places
  <2> QED BY <1>11, <2>1 DEF Submit, Typed
<1>12. ASSUME NEW k \in Tasks, OrderReturns(k) PROVE Typed'
  <2>1. task' \in [Tasks -> TaskRow]
    BY <1>12 DEF OrderReturns, Places
  <2>2. order' \in [Orders -> OrderRow]
    BY <1>12 DEF OrderReturns, Typed, OrderRow
  <2> QED BY <1>12, <2>1, <2>2 DEF OrderReturns, Typed
<1>13. ASSUME NEW k \in Tasks, Record(k) PROVE Typed'
  BY <1>13 DEF Record, Typed
<1>14. ASSUME NEW e \in Events, NEW t \in Tickers, QueueApproval(e, t) PROVE Typed'
  <2>1. event' \in [Events -> EventRow]
    BY <1>14 DEF QueueApproval, Typed, NoEvent, EventRow, Kinds, Verdicts
  <2> QED BY <1>14, <2>1 DEF QueueApproval, Typed
<1>15. ASSUME NEW e \in Events, RejectReview(e) PROVE Typed'
  <2>1. event' \in [Events -> EventRow]
    BY <1>15, ResolvedTyped DEF RejectReview, Verdicts
  <2> QED BY <1>15, <2>1 DEF RejectReview, Typed
<1>16. ASSUME NEW t \in Tickers, StartScan(t) \/ PositionGone(t) PROVE Typed'
  BY <1>0, <1>16, SoldTyped DEF StartScan, PositionGone, Typed
<1>17. ASSUME NEW o \in Orders, Fill(o) \/ End(o) \/ Poll(o) \/ Adopt(o) PROVE Typed'
  <2>1. order' \in [Orders -> OrderRow]
    BY <1>17 DEF Fill, End, Poll, Adopt, Typed, OrderRow
  <2>2. row' \in [Orders -> {"none", "pending", "open", "over"}]
    BY <1>17 DEF Fill, End, Poll, Adopt, Typed
  <2> QED BY <1>17, <2>1, <2>2 DEF Fill, End, Poll, Adopt, Typed
<1>18. CASE AbortScan \/ Restart
  BY <1>0, <1>18 DEF AbortScan, Restart, Typed
<1> QED
  BY <1>1, <1>2, <1>3, <1>4, <1>5, <1>6, <1>7, <1>8, <1>9, <1>10, <1>11, <1>12, <1>13, <1>14,
     <1>15, <1>16, <1>17, <1>18 DEF Step, Operator, Execution

\* The ticker of an order is for good.
SameOrders ==
  \A o \in Orders : /\ order'[o].ticker = order[o].ticker
                    /\ order'[o].st # "none" => order[o].st # "none"

LEMMA SameWith ==
  ASSUME NEW os, order' = os,
         \A o \in Orders : /\ os[o].ticker = order[o].ticker
                           /\ os[o].st # "none" => order[o].st # "none"
  PROVE  SameOrders
BY DEF SameOrders

\* A task that ends or goes on without an order disturbs no other.
LEMMA OneTaskMoves ==
  ASSUME Typed, Fits, NEW k \in Tasks, SameOrders,
         \A e \in Events : event'[e].kind = event[e].kind,
         \A j \in Tasks \ {k} : task'[j] = task[j],
         \/ task'[k].at = "idle"
         \/ task'[k].at \in {"gate", "closing"} /\ task'[k].ticker \in Tickers
  PROVE  TasksFit'
<1> SUFFICES ASSUME NEW j \in Tasks
             PROVE  (/\ Resolving(j) => /\ task[j].event \in Events
                                        /\ event[task[j].event].kind = "approval"
                     /\ task[j].at # "idle" => task[j].ticker \in Tickers
                     /\ Ordering(j) => /\ task[j].order \in Orders
                                       /\ order[task[j].order].ticker = task[j].ticker)'
  BY DEF TasksFit
<1>1. CASE j = k
  BY <1>1 DEF Resolving, Ordering
<1>2. CASE j # k
  BY <1>2 DEF Fits, TasksFit, Resolving, Ordering, SameOrders
<1> QED BY <1>1, <1>2

\* What ends or begins anew is idle or at the gate.
LEMMA BeginsOrEnds ==
  ASSUME Typed, NEW k \in Tasks, NEW t \in Tickers, Executes(k, t) \/ Finished(k)
  PROVE  /\ \A j \in Tasks \ {k} : task'[j] = task[j]
         /\ \/ task'[k].at = "idle"
            \/ task'[k].at = "gate" /\ task'[k].ticker = t
<1> DEFINE begun == [Idle EXCEPT !.at = "gate", !.ticker = t]
<1>1. begun.at = "gate" /\ begun.ticker = t /\ Idle.at = "idle"
  BY DEF Idle
<1>2. PICK now : task' = [task EXCEPT ![k] = now] /\ now \in {begun, Idle}
  BY DEF Executes, Finished
<1>3. task'[k] = now /\ \A j \in Tasks \ {k} : task'[j] = task[j]
  BY <1>2 DEF Typed
<1> HIDE DEF begun
<1> QED BY <1>1, <1>2, <1>3

LEMMA FitStep == Typed /\ Fits /\ Step => Fits'
<1> SUFFICES ASSUME Typed, Fits, Step PROVE Fits'
  OBVIOUS
<1> USE PipelineAssumption
    DEF Typed, Fits, QueueFits, TasksFit, OrdersFit, Resolving, Ordering, market, Tasks, Idle,
        NoEvent, NoOrder, Finished, Goes, Executes
<1>0. Users \subseteq Tasks /\ Scanner \in Tasks
  OBVIOUS
<1>1. ASSUME NEW u \in Users, NEW e \in Events, SelectApproval(u, e) PROVE Fits'
  BY <1>1 DEF SelectApproval
<1>2. ASSUME NEW u \in Users, NEW e \in Events, ApproveReview(u, e) PROVE Fits'
  BY <1>2 DEF ApproveReview, Resolved
<1>3. ASSUME NEW u \in Users, CommitApproval(u) PROVE Fits'
  <2> DEFINE e == task[u].event
  <2>1. e \in Events /\ event[e].kind = "approval" /\ task[u].ticker \in Tickers
    BY <1>3 DEF CommitApproval
  <2>2. /\ \A d \in Events : event'[d].kind = event[d].kind
        /\ \A d \in Events \ {e} : event'[d] = event[d] /\ used'[d] = used[d]
        /\ event'[e].status # "pending"
    BY <1>3, <2>1 DEF CommitApproval, Resolved
  <2>3. Executes(u, task[u].ticker) \/ Finished(u)
    BY <1>3 DEF CommitApproval
  <2>4. UNCHANGED order
    BY <1>3 DEF CommitApproval
  <2>5. QueueFits'
    BY <2>1, <2>2
  <2>6. TasksFit'
    <3>1. SameOrders
      BY <2>4 DEF SameOrders
    <3>2. /\ \A j \in Tasks \ {u} : task'[j] = task[j]
          /\ \/ task'[u].at = "idle"
             \/ task'[u].at = "gate" /\ task'[u].ticker \in Tickers
      BY <1>0, <2>1, <2>3, BeginsOrEnds
    <3> QED BY <2>2, <3>1, <3>2, OneTaskMoves
  <2> QED BY <2>4, <2>5, <2>6
<1>4. ASSUME NEW u \in Users, CheckIncumbent(u) PROVE Fits'
  <2>1. task[u].ticker \in Tickers
    BY <1>4 DEF CheckIncumbent
  <2>2. \/ task' = [task EXCEPT ![u] = Idle] \/ task' = [task EXCEPT ![u].at = "closing"]
    BY <1>4 DEF CheckIncumbent
  <2>3. TasksFit'
    BY <1>4, <2>1, <2>2 DEF CheckIncumbent, TaskRow
  <2> QED BY <1>4, <2>3 DEF CheckIncumbent
<1>5. ASSUME NEW u \in Users, CloseIncumbent(u) PROVE Fits'
  <2>1. task[u].ticker \in Tickers
    BY <1>5 DEF CloseIncumbent
  <2>2. SameOrders
    <3> DEFINE t == order[task[u].order].ticker
               swept(os) == [o \in Orders |-> IF o \in Of(t) /\ os[o].st = "working"
                                             THEN [os[o] EXCEPT !.st = "dying"] ELSE os[o]]
    <3>1. \A os \in [Orders -> OrderRow], o \in Orders :
            /\ swept(os)[o].ticker = os[o].ticker
            /\ swept(os)[o].st # "none" => os[o].st # "none"
      BY DEF OrderRow
    <3>2. \A o \in Orders : /\ Sold(t)[o].ticker = order[o].ticker
                            /\ Sold(t)[o].st # "none" => order[o].st # "none"
      BY DEF Sold, OrderRow
    <3>3. order' = order \/ order' = swept(order) \/ order' = swept(Sold(t))
      BY <1>5 DEF CloseIncumbent
    <3> DEFINE once == swept(order)
               twice == swept(Sold(t))
    <3>4. \A o \in Orders : /\ once[o].ticker = order[o].ticker
                            /\ once[o].st # "none" => order[o].st # "none"
      BY <3>1
    <3>5. \A o \in Orders : /\ twice[o].ticker = order[o].ticker
                            /\ twice[o].st # "none" => order[o].st # "none"
      BY <3>1, <3>2, SoldTyped
    <3>6. order' = order \/ order' = once \/ order' = twice
      BY <3>3
    <3> HIDE DEF once, twice
    <3>7. CASE order' = order
      BY <3>7 DEF SameOrders
    <3>8. CASE order' = once
      BY <3>4, <3>8, SameWith, Zenon
    <3>9. CASE order' = twice
      BY <3>5, <3>9, SameWith, Zenon
    <3> QED BY <3>6, <3>7, <3>8, <3>9
  <2>3. Executes(u, task[u].ticker) \/ Finished(u)
    BY <1>5 DEF CloseIncumbent
  <2>4. UNCHANGED <<event, used>>
    BY <1>5 DEF CloseIncumbent
  <2>5. TasksFit'
    <3>1. /\ \A j \in Tasks \ {u} : task'[j] = task[j]
          /\ \/ task'[u].at = "idle"
             \/ task'[u].at = "gate" /\ task'[u].ticker \in Tickers
      BY <1>0, <2>1, <2>3, BeginsOrEnds
    <3> QED BY <2>2, <2>4, <3>1, OneTaskMoves
  <2>6. OrdersFit'
    BY <2>2 DEF SameOrders
  <2> QED BY <2>4, <2>5, <2>6
<1>6. ASSUME NEW u \in Users, NEW t \in Tickers, StartManual(u, t) PROVE Fits'
  BY <1>6 DEF StartManual
<1>7. ASSUME NEW k \in Tasks, Decline(k) PROVE Fits'
  BY <1>7 DEF Decline
<1>8. ASSUME NEW k \in Tasks, PassPortfolioGate(k) PROVE Fits'
  BY <1>8 DEF PassPortfolioGate
<1>9. ASSUME NEW k \in Tasks, NEW e \in Events, RaiseReview(k, e) PROVE Fits'
  BY <1>9 DEF RaiseReview
<1>10. ASSUME NEW k \in Tasks, PassGuard(k) PROVE Fits'
  BY <1>10 DEF PassGuard
<1>11. ASSUME NEW k \in Tasks, NEW o \in Orders, Submit(k, o) PROVE Fits'
  BY <1>11 DEF Submit
<1>12. ASSUME NEW k \in Tasks, OrderReturns(k) PROVE Fits'
  <2>1. SameOrders
    BY <1>12 DEF OrderReturns, SameOrders, OrderRow
  <2>2. \/ task' = [task EXCEPT ![k] = Idle]
        \/ \E to \in {"filled", "pending"} : task' = [task EXCEPT ![k].at = to]
    BY <1>12 DEF OrderReturns
  <2>3. UNCHANGED <<event, used>>
    BY <1>12 DEF OrderReturns
  <2>4. task[k].at = "ordered"
    BY <1>12 DEF OrderReturns
  <2>5. TasksFit'
    BY <2>1, <2>2, <2>3, <2>4 DEF SameOrders, TaskRow
  <2>6. OrdersFit'
    BY <2>1 DEF SameOrders
  <2> QED BY <2>3, <2>5, <2>6
<1>13. ASSUME NEW k \in Tasks, Record(k) PROVE Fits'
  BY <1>13 DEF Record
<1>14. ASSUME NEW e \in Events, NEW t \in Tickers, QueueApproval(e, t) PROVE Fits'
  BY <1>14 DEF QueueApproval
<1>15. ASSUME NEW e \in Events, RejectReview(e) PROVE Fits'
  BY <1>15 DEF RejectReview, Resolved
<1>16. ASSUME NEW t \in Tickers, StartScan(t) \/ PositionGone(t) PROVE Fits'
  <2>1. CASE StartScan(t)
    BY <2>1 DEF StartScan
  <2>2. CASE PositionGone(t)
    <3>1. SameOrders
      BY <2>2 DEF PositionGone, Sold, SameOrders, OrderRow
    <3> QED BY <2>2, <3>1 DEF PositionGone, SameOrders
  <2> QED BY <1>16, <2>1, <2>2
<1>17. ASSUME NEW o \in Orders, Fill(o) \/ End(o) \/ Poll(o) \/ Adopt(o) PROVE Fits'
  <2>1. SameOrders
    BY <1>17 DEF Fill, End, Poll, Adopt, SameOrders, OrderRow
  <2>2. UNCHANGED <<event, task, used>>
    BY <1>17 DEF Fill, End, Poll, Adopt
  <2> QED BY <2>1, <2>2 DEF SameOrders
<1>18. CASE AbortScan \/ Restart
  BY <1>18 DEF AbortScan, Restart
<1> QED
  BY <1>1, <1>2, <1>3, <1>4, <1>5, <1>6, <1>7, <1>8, <1>9, <1>10, <1>11, <1>12, <1>13, <1>14,
     <1>15, <1>16, <1>17, <1>18 DEF Step, Operator, Execution

-----------------------------------------------------------------------------
(***************************************************************************)
(* An event has led to as many executions as have approved it, and whoever *)
(* has still to write a verdict on it has not: while it is pending nobody  *)
(* has, and after that nobody reads it any more.                           *)
(***************************************************************************)
Readers(e) == {u \in Users : Resolving(u) /\ task[u].event = e}

UsesFit ==
  \A e \in Events :
    /\ event[e].status = "pending" => used[e] = 0
    /\ used[e] + Cardinality(Readers(e)) <= Cardinality(Users)

\* The readers of an event are finitely many users.
LEMMA ReadersFit ==
  ASSUME NEW R \in SUBSET Users
  PROVE  /\ IsFiniteSet(R) /\ Cardinality(R) \in Nat /\ Cardinality(Users) \in Nat
         /\ Cardinality(R) <= Cardinality(Users)
         /\ \A u \in R, P \in SUBSET R : u \notin P => Cardinality(P) + 1 <= Cardinality(R)
         /\ \A P \in SUBSET R : Cardinality(P) \in Nat /\ Cardinality(P) <= Cardinality(R)
<1>1. IsFiniteSet(Users) /\ IsFiniteSet(R)
  BY PipelineAssumption, FS_Subset
<1>2. /\ Cardinality(R) \in Nat /\ Cardinality(Users) \in Nat
      /\ Cardinality(R) <= Cardinality(Users)
  BY <1>1, FS_CardinalityType, FS_Subset
<1>3. \A P \in SUBSET R : IsFiniteSet(P) /\ Cardinality(P) \in Nat /\ Cardinality(P) <= Cardinality(R)
  BY <1>1, FS_CardinalityType, FS_Subset
<1>4. ASSUME NEW u \in R, NEW P \in SUBSET R, u \notin P
      PROVE  Cardinality(P) + 1 <= Cardinality(R)
  <2>1. P \subseteq R \ {u}
    BY <1>4
  <2>2. Cardinality(R \ {u}) = Cardinality(R) - 1
    BY <1>1, FS_RemoveElement
  <2>3. IsFiniteSet(R \ {u})
    BY <1>1, FS_RemoveElement
  <2>4. Cardinality(P) <= Cardinality(R \ {u})
    BY <2>1, <2>3, FS_Subset
  <2> QED BY <1>2, <1>3, <2>2, <2>4
<1> QED BY <1>1, <1>2, <1>3, <1>4

\* A task begins to read only by selecting a pending approval.
LEMMA ReadersLeave ==
  ASSUME Typed, Step, NEW k \in Tasks
  PROVE  \/ task'[k] = task[k]
         \/ ~Resolving(k)'
         \/ \E u \in Users, e \in Events : SelectApproval(u, e)
<1> DEFINE Leaves == task'[k] = task[k] \/ ~Resolving(k)'
<1> USE DEF Resolving
<1>0. Users \subseteq Tasks /\ Scanner \in Tasks
  BY DEF Tasks
<1>1. ASSUME NEW j \in Tasks, Finished(j) PROVE Leaves
  BY <1>1 DEF Finished, Idle, Typed
<1>2. ASSUME NEW j \in Tasks, NEW t, Executes(j, t) PROVE Leaves
  <2> DEFINE begun == [Idle EXCEPT !.at = "gate", !.ticker = t]
  <2>1. begun.at = "gate"
    BY DEF Idle
  <2>2. task' = [task EXCEPT ![j] = begun]
    BY <1>2 DEF Executes
  <2> HIDE DEF begun
  <2> QED BY <2>1, <2>2 DEF Typed
<1>3. ASSUME NEW j \in Tasks, NEW to \in Places \ {"approving", "rejecting"}, Goes(j, to)
      PROVE  Leaves
  BY <1>3 DEF Goes, Typed, TaskRow
<1> HIDE DEF Leaves
<1>4. ASSUME NEW u \in Users, Operator(u), ~\E e \in Events : SelectApproval(u, e) PROVE Leaves
  <2>1. ASSUME NEW e \in Events, ApproveReview(u, e) PROVE Leaves
    BY <1>0, <2>1 DEF ApproveReview, Idle, Typed, Leaves
  <2>2. CASE CheckIncumbent(u)
    BY <1>0, <1>1, <1>3, <2>2 DEF CheckIncumbent, Places
  <2>3. CASE CommitApproval(u) \/ CloseIncumbent(u)
    BY <1>0, <1>1, <1>2, <2>3 DEF CommitApproval, CloseIncumbent
  <2>4. ASSUME NEW t \in Tickers, StartManual(u, t) PROVE Leaves
    BY <1>0, <1>2, <2>4 DEF StartManual
  <2> QED BY <1>4, <2>1, <2>2, <2>3, <2>4 DEF Operator
<1>5. ASSUME NEW j \in Tasks, Execution(j) PROVE Leaves
  <2>1. CASE Decline(j) \/ Record(j) \/ \E e \in Events : RaiseReview(j, e)
    BY <1>1, <2>1 DEF Decline, Record, RaiseReview
  <2>2. CASE PassPortfolioGate(j) \/ PassGuard(j)
    BY <1>3, <2>2 DEF PassPortfolioGate, PassGuard, Places
  <2>3. ASSUME NEW o \in Orders, Submit(j, o) PROVE Leaves
    BY <2>3 DEF Submit, Typed, TaskRow, Leaves
  <2>4. CASE OrderReturns(j)
    BY <1>1, <1>3, <2>4 DEF OrderReturns, Places
  <2> QED BY <1>5, <2>1, <2>2, <2>3, <2>4 DEF Execution
<1>6. ASSUME NEW t \in Tickers, StartScan(t) PROVE Leaves
  BY <1>0, <1>2, <1>6 DEF StartScan
<1>7. CASE AbortScan \/ Restart
  BY <1>0, <1>1, <1>7 DEF AbortScan, Restart, Idle, Leaves
<1>8. CASE UNCHANGED task
  BY <1>8 DEF Leaves
<1>9. \/ UNCHANGED task
      \/ \E u \in Users : Operator(u)
      \/ \E j \in Tasks : Execution(j)
      \/ \E t \in Tickers : StartScan(t)
      \/ AbortScan \/ Restart
  BY DEF Step, QueueApproval, RejectReview, PositionGone, Fill, End, Poll, Adopt
<1> QED BY <1>4, <1>5, <1>6, <1>7, <1>8, <1>9 DEF Leaves

\* What a step does to the uses and the readers of an event.
LEMMA UsesMove ==
  ASSUME Typed, Fits, Step, NEW e \in Events
  PROVE  /\ event'[e].status = "pending" =>
              used'[e] = used[e] /\ (event[e].status = "pending" \/ used[e] = 0)
         /\ \/ used'[e] = used[e] /\ event[e].status = "pending"
            \/ used'[e] = used[e] /\ Readers(e)' \subseteq Readers(e)
            \/ used'[e] = 1 /\ used[e] = 0 /\ Readers(e)' = {} /\ Users # {}
            \/ /\ used'[e] = used[e] + 1 /\ Readers(e)' \subseteq Readers(e)
               /\ \E u \in Readers(e) : u \notin Readers(e)'
<1>0. Users \subseteq Tasks /\ Scanner \in Tasks
  BY DEF Tasks
<1>1. ASSUME NEW u \in Users, NEW d \in Events, SelectApproval(u, d)
      PROVE  /\ event' = event /\ used' = used
             /\ event[e].status = "pending" \/ Readers(e)' \subseteq Readers(e)
  <2>1. event' = event /\ used' = used /\ event[d].status = "pending"
    BY <1>1 DEF SelectApproval
  <2>2. PICK at \in {"approving", "rejecting"} :
          task' = [task EXCEPT ![u] = [Idle EXCEPT !.at = at, !.event = d,
                                                 !.ticker = event[d].ticker]]
    BY <1>1 DEF SelectApproval
  <2>3. \A v \in Users \ {u} : task'[v] = task[v]
    BY <1>0, <2>2 DEF Typed
  <2>4. task'[u].event = d
    BY <1>0, <2>2 DEF Typed, Idle
  <2>5. d # e => Readers(e)' \subseteq Readers(e)
    BY <2>3, <2>4 DEF Readers, Resolving
  <2> QED BY <2>1, <2>5
<1>2. CASE \E u \in Users, d \in Events : SelectApproval(u, d)
  BY <1>1, <1>2
<1>3. ASSUME ~\E u \in Users, d \in Events : SelectApproval(u, d)
      PROVE  Readers(e)' \subseteq Readers(e)
  BY <1>0, <1>3, ReadersLeave DEF Readers, Resolving
<1>4. ASSUME NEW u \in Users, NEW d \in Events, ApproveReview(u, d)
      PROVE  /\ event'[e].status = "pending" => event'[e] = event[e] /\ used'[e] = used[e]
             /\ \/ used'[e] = used[e]
                \/ used'[e] = 1 /\ used[e] = 0 /\ Readers(e) = {}
  <2>1. event[d].kind = "review" /\ event[d].status = "pending"
        /\ used' = [used EXCEPT ![d] = used[d] + 1] /\ Resolved(d, "approved")
    BY <1>4 DEF ApproveReview
  <2>2. used[d] = 0 /\ Readers(d) = {}
    BY <1>0, <2>1 DEF Fits, QueueFits, TasksFit, Readers
  <2>3. event'[d].status = "approved" /\ \A c \in Events \ {d} : event'[c] = event[c]
    BY <2>1 DEF Resolved, Typed, NoEvent
  <2> QED BY <2>1, <2>2, <2>3 DEF Typed
<1>5. ASSUME NEW u \in Users, CommitApproval(u)
      PROVE  /\ event'[e].status = "pending" => event'[e] = event[e] /\ used'[e] = used[e]
             /\ \/ used'[e] = used[e]
                \/ /\ used'[e] = used[e] + 1
                   /\ u \in Readers(e) /\ u \notin Readers(e)'
  <2>1. PICK d \in Events : d = task[u].event /\ Resolving(u)
    BY <1>0, <1>5 DEF CommitApproval, Resolving, Fits, TasksFit
  <2>2. \E verdict \in {"approved", "rejected"} : Resolved(d, verdict)
    BY <1>5, <2>1 DEF CommitApproval
  <2>3. event'[d].status # "pending" /\ \A c \in Events \ {d} : event'[c] = event[c]
    BY <2>1, <2>2 DEF Resolved, Typed, NoEvent
  <2>4. used' = used \/ used' = [used EXCEPT ![d] = used[d] + 1]
    BY <1>5, <2>1 DEF CommitApproval
  <2>5. task'[u].at \notin {"approving", "rejecting"}
    <3> DEFINE begun == [Idle EXCEPT !.at = "gate", !.ticker = task[u].ticker]
    <3>1. begun.at = "gate" /\ Idle.at = "idle"
      BY DEF Idle
    <3>2. task' = [task EXCEPT ![u] = begun] \/ task' = [task EXCEPT ![u] = Idle]
      BY <1>5 DEF CommitApproval, Executes, Finished
    <3> HIDE DEF begun
    <3> QED BY <1>0, <3>1, <3>2 DEF Typed
  <2>6. u \in Readers(d) /\ u \notin Readers(d)'
    BY <2>1, <2>5 DEF Readers, Resolving
  <2>7. used'[d] \in {used[d], used[d] + 1} /\ \A c \in Events \ {d} : used'[c] = used[c]
    BY <2>1, <2>4 DEF Typed
  <2>8. CASE e = d
    BY <2>3, <2>6, <2>7, <2>8
  <2>9. CASE e # d
    BY <2>1, <2>3, <2>7, <2>9
  <2> QED BY <2>8, <2>9
<1>6. ASSUME NEW k \in Tasks, NEW d \in Events, RaiseReview(k, d)
      PROVE  used' = used /\ (event'[e] = event[e] \/ event[e].kind = "none")
  BY <1>6 DEF RaiseReview, Typed, NoEvent
<1>7. ASSUME NEW d \in Events, NEW t \in Tickers, QueueApproval(d, t)
      PROVE  used' = used /\ (event'[e] = event[e] \/ event[e].kind = "none")
  BY <1>7 DEF QueueApproval, Typed, NoEvent
<1>8. ASSUME NEW d \in Events, RejectReview(d)
      PROVE  used' = used /\ (event'[e] = event[e] \/ event'[e].status = "rejected")
  BY <1>8 DEF RejectReview, Resolved, Typed, NoEvent
<1>9. \/ UNCHANGED <<event, used>>
      \/ \E u \in Users, d \in Events : SelectApproval(u, d) \/ ApproveReview(u, d)
      \/ \E u \in Users : CommitApproval(u)
      \/ \E k \in Tasks, d \in Events : RaiseReview(k, d)
      \/ \E d \in Events, t \in Tickers : QueueApproval(d, t)
      \/ \E d \in Events : RejectReview(d)
  BY DEF Step, Operator, Execution, CheckIncumbent, CloseIncumbent, StartManual, Decline,
         PassPortfolioGate, PassGuard, Submit, OrderReturns, Record, StartScan, PositionGone,
         Fill, End, Poll, Adopt, AbortScan, Restart
<1>10. event[e].kind = "none" => used[e] = 0
  BY DEF Fits, QueueFits
<1>11. ASSUME ~\E u \in Users, d \in Events : SelectApproval(u, d)
       PROVE  /\ event'[e].status = "pending" =>
                   used'[e] = used[e] /\ (event[e].status = "pending" \/ used[e] = 0)
              /\ \/ used'[e] = used[e]
                 \/ used'[e] = 1 /\ used[e] = 0 /\ Readers(e) = {} /\ Users # {}
                 \/ /\ used'[e] = used[e] + 1
                    /\ \E u \in Readers(e) : u \notin Readers(e)'
  <2>1. CASE UNCHANGED <<event, used>>
    BY <2>1
  <2>2. CASE \E u \in Users, d \in Events : ApproveReview(u, d)
    BY <1>4, <2>2
  <2>3. CASE \E u \in Users : CommitApproval(u)
    BY <1>5, <2>3
  <2>4. CASE \/ \E k \in Tasks, d \in Events : RaiseReview(k, d)
             \/ \E d \in Events, t \in Tickers : QueueApproval(d, t)
    BY <1>6, <1>7, <1>10, <2>4
  <2>5. CASE \E d \in Events : RejectReview(d)
    BY <1>8, <2>5
  <2> QED BY <1>9, <1>11, <2>1, <2>2, <2>3, <2>4, <2>5
<1> QED BY <1>2, <1>3, <1>11

LEMMA UsesStep == Typed /\ Fits /\ UsesFit /\ Step => UsesFit'
<1> SUFFICES ASSUME Typed, Fits, UsesFit, Step, NEW e \in Events
             PROVE  /\ event'[e].status = "pending" => used'[e] = 0
                    /\ used'[e] + Cardinality(Readers(e)') <= Cardinality(Users)
  BY DEF UsesFit
<1> DEFINE before == Readers(e)
           after == Readers(e)'
<1>1. before \in SUBSET Users /\ after \in SUBSET Users /\ used[e] \in Nat
  BY DEF Readers, Typed
<1>2. /\ event[e].status = "pending" => used[e] = 0
      /\ used[e] + Cardinality(before) <= Cardinality(Users)
  BY DEF UsesFit
<1>3. /\ event'[e].status = "pending" =>
           used'[e] = used[e] /\ (event[e].status = "pending" \/ used[e] = 0)
      /\ \/ used'[e] = used[e] /\ event[e].status = "pending"
         \/ used'[e] = used[e] /\ after \subseteq before
         \/ used'[e] = 1 /\ used[e] = 0 /\ after = {} /\ Users # {}
         \/ /\ used'[e] = used[e] + 1 /\ after \subseteq before
            /\ \E u \in before : u \notin after
  BY UsesMove
<1> HIDE DEF before, after
<1>4. /\ Cardinality(before) \in Nat /\ Cardinality(after) \in Nat /\ Cardinality(Users) \in Nat
      /\ Cardinality(after) <= Cardinality(Users)
      /\ after \subseteq before => Cardinality(after) <= Cardinality(before)
      /\ after \subseteq before /\ (\E u \in before : u \notin after) =>
           Cardinality(after) + 1 <= Cardinality(before)
  BY <1>1, ReadersFit
<1>5. after = {} /\ Users # {} => Cardinality(after) = 0 /\ Cardinality(Users) >= 1
  <2>1. Cardinality(Users) = 0 <=> Users = {}
    BY PipelineAssumption, FS_EmptySet
  <2> QED BY <1>4, <2>1, FS_EmptySet
<1>6. used'[e] + Cardinality(after) <= Cardinality(Users)
  BY <1>1, <1>2, <1>3, <1>4, <1>5
<1> QED BY <1>2, <1>3, <1>6 DEF after

-----------------------------------------------------------------------------
(* How orders and tasks move.                                              *)

LEMMA Submitted ==
  ASSUME Typed, NEW k \in Tasks, NEW o \in Orders, Submit(k, o)
  PROVE  /\ task[k].at = "submit" /\ order[o] = NoOrder
         /\ task'[k].at = "ordered" /\ task'[k].order = o
         /\ task'[k].ticker = task[k].ticker
         /\ order'[o].ticker = task[k].ticker /\ order'[o].st = "working"
         /\ \A j \in Tasks \ {k} : task'[j] = task[j]
         /\ \A p \in Orders \ {o} : order'[p] = order[p]
BY DEF Submit, Typed, TaskRow

\* Only a submission brings an order to life.
LEMMA OrdersOnlyEnd ==
  ASSUME Typed, Fits, Step
  PROVE  \/ \E k \in Tasks, o \in Orders : Submit(k, o)
         \/ \A o \in Orders : /\ order'[o].ticker = order[o].ticker
                              /\ o \in Alive' => o \in Alive
<1> DEFINE Ends == \A o \in Orders : /\ order'[o].ticker = order[o].ticker
                                     /\ o \in Alive' => o \in Alive
<1>1. CASE UNCHANGED order
  BY <1>1 DEF Alive
<1>2. ASSUME NEW u \in Users, CloseIncumbent(u) PROVE Ends
  <2> DEFINE t == order[task[u].order].ticker
             swept(os) == [o \in Orders |-> IF o \in Of(t) /\ os[o].st = "working"
                                           THEN [os[o] EXCEPT !.st = "dying"] ELSE os[o]]
             Market == {"working", "dying", "filled"}
  <2>1. \A os \in [Orders -> OrderRow], o \in Orders :
          /\ swept(os)[o].ticker = os[o].ticker
          /\ swept(os)[o].st \in Market => os[o].st \in Market
    BY DEF OrderRow
  <2>2. \A o \in Orders : /\ Sold(t)[o].ticker = order[o].ticker
                          /\ Sold(t)[o].st \in Market => order[o].st \in Market
    BY DEF Sold, OrderRow, Typed
  <2>3. order' = order \/ order' = swept(order) \/ order' = swept(Sold(t))
    BY <1>2 DEF CloseIncumbent, market
  <2> DEFINE once == swept(order)
             twice == swept(Sold(t))
  <2>4. \A o \in Orders : /\ once[o].ticker = order[o].ticker
                          /\ once[o].st \in Market => order[o].st \in Market
    BY <2>1 DEF Typed
  <2>5. \A o \in Orders : /\ twice[o].ticker = order[o].ticker
                          /\ twice[o].st \in Market => order[o].st \in Market
    BY <2>1, <2>2, SoldTyped
  <2>6. order' = order \/ order' = once \/ order' = twice
    BY <2>3
  <2> HIDE DEF once, twice, swept, t
  <2> QED BY <2>4, <2>5, <2>6 DEF Alive
<1>3. ASSUME NEW k \in Tasks, OrderReturns(k) PROVE Ends
  BY <1>3 DEF OrderReturns, Alive, Typed, OrderRow
<1>4. ASSUME NEW t \in Tickers, PositionGone(t) PROVE Ends
  BY <1>4 DEF PositionGone, Sold, Alive, Typed, OrderRow
<1>5. ASSUME NEW o \in Orders, Fill(o) \/ End(o) PROVE Ends
  BY <1>5 DEF Fill, End, Alive, Typed, OrderRow
<1>6. \/ UNCHANGED order
      \/ \E u \in Users : CloseIncumbent(u)
      \/ \E k \in Tasks : OrderReturns(k) \/ \E o \in Orders : Submit(k, o)
      \/ \E t \in Tickers : PositionGone(t)
      \/ \E o \in Orders : Fill(o) \/ End(o)
  BY DEF Step, Operator, Execution, market, SelectApproval, ApproveReview, CommitApproval,
         CheckIncumbent, StartManual, Decline, PassPortfolioGate, RaiseReview, PassGuard, Record,
         QueueApproval, RejectReview, StartScan, Poll, Adopt, AbortScan, Restart
<1> HIDE DEF Ends
<1>7. Ends \/ \E k \in Tasks, o \in Orders : Submit(k, o)
  BY <1>1, <1>2, <1>3, <1>4, <1>5, <1>6 DEF Ends
<1> QED BY <1>7 DEF Ends

\* A task comes into the air by the gate and past the guard by the guard.
LEMMA TasksProgress ==
  ASSUME Typed, Fits, Step, NEW k \in Tasks
  PROVE  \/ ~Airborne(k)'
         \/ PassPortfolioGate(k)
         \/ PassGuard(k)
         \/ /\ Airborne(k) /\ task'[k].ticker = task[k].ticker
            /\ Past(k)' => Past(k)
            /\ task'[k].at = "submit" => task'[k] = task[k]
<1> DEFINE Stays == \/ ~Airborne(k)'
                    \/ /\ Airborne(k) /\ task'[k].ticker = task[k].ticker
                       /\ Past(k)' => Past(k)
                       /\ task'[k].at = "submit" => task'[k] = task[k]
<1> USE DEF Airborne, Past, Ordering
<1>0. Users \subseteq Tasks /\ Scanner \in Tasks
  BY DEF Tasks
<1>1. CASE task'[k] = task[k]
  BY <1>1
<1>2. CASE task'[k].at \in {"idle", "approving", "rejecting", "review", "closing", "gate"}
  BY <1>2
<1>3. CASE \E o \in Orders : Submit(k, o)
  BY <1>3, Submitted
<1>4. CASE OrderReturns(k)
  <2>1. task[k].at = "ordered"
    BY <1>4 DEF OrderReturns
  <2>2. \/ task'[k] = Idle
        \/ task'[k].at \in {"filled", "pending"} /\ task'[k].ticker = task[k].ticker
    BY <1>4 DEF OrderReturns, Finished, Goes, Typed, TaskRow
  <2> QED BY <2>1, <2>2 DEF Idle
<1>5. \/ task'[k] = task[k]
      \/ task'[k].at \in {"idle", "approving", "rejecting", "review", "closing", "gate"}
      \/ \E o \in Orders : Submit(k, o)
      \/ OrderReturns(k) \/ PassPortfolioGate(k) \/ PassGuard(k)
  <2> DEFINE Low == {"idle", "approving", "rejecting", "review", "closing", "gate"}
  <2>1. ASSUME NEW j \in Tasks, Finished(j) PROVE task'[k] = task[k] \/ task'[k].at \in Low
    BY <2>1 DEF Finished, Idle, Typed
  <2>2. ASSUME NEW j \in Tasks, NEW t, Executes(j, t)
        PROVE  task'[k] = task[k] \/ task'[k].at \in Low
    <3> DEFINE begun == [Idle EXCEPT !.at = "gate", !.ticker = t]
    <3>1. begun.at = "gate"
      BY DEF Idle
    <3>2. task' = [task EXCEPT ![j] = begun]
      BY <2>2 DEF Executes
    <3> HIDE DEF begun
    <3> QED BY <3>1, <3>2 DEF Typed
  <2>3. ASSUME NEW u \in Users, Operator(u) PROVE task'[k] = task[k] \/ task'[k].at \in Low
    <3>1. ASSUME NEW e \in Events, SelectApproval(u, e)
          PROVE  task'[k] = task[k] \/ task'[k].at \in Low
      BY <1>0, <3>1 DEF SelectApproval, Idle, Typed
    <3>2. ASSUME NEW e \in Events, ApproveReview(u, e)
          PROVE  task'[k] = task[k] \/ task'[k].at \in Low
      BY <1>0, <3>2 DEF ApproveReview, Idle, Typed
    <3>3. CASE CheckIncumbent(u)
      BY <1>0, <2>1, <3>3 DEF CheckIncumbent, Goes, Typed, TaskRow
    <3>4. CASE CommitApproval(u) \/ CloseIncumbent(u)
      BY <1>0, <2>1, <2>2, <3>4 DEF CommitApproval, CloseIncumbent
    <3>5. ASSUME NEW t \in Tickers, StartManual(u, t)
          PROVE  task'[k] = task[k] \/ task'[k].at \in Low
      BY <1>0, <2>2, <3>5 DEF StartManual
    <3> HIDE DEF Low
    <3> QED BY <2>3, <3>1, <3>2, <3>3, <3>4, <3>5 DEF Operator
  <2>4. ASSUME NEW j \in Tasks, Execution(j)
        PROVE  \/ task'[k] = task[k] \/ task'[k].at \in Low
               \/ \E o \in Orders : Submit(k, o)
               \/ OrderReturns(k) \/ PassPortfolioGate(k) \/ PassGuard(k)
    <3>1. CASE j = k
      <4>1. ASSUME NEW e \in Events, RaiseReview(k, e) PROVE task'[k].at \in Low
        BY <4>1 DEF RaiseReview, Finished, Idle, Typed
      <4>2. CASE Decline(k) \/ Record(k)
        BY <4>2 DEF Decline, Record, Finished, Idle, Typed
      <4> HIDE DEF Low
      <4> QED BY <2>4, <3>1, <4>1, <4>2, <2>1 DEF Execution, Decline, Record
    <3>2. CASE j # k
      BY <2>4, <3>2 DEF Execution, Decline, PassPortfolioGate, RaiseReview, PassGuard, Submit,
                        OrderReturns, Record, Finished, Goes, Typed
    <3> QED BY <3>1, <3>2
  <2>5. ASSUME NEW t \in Tickers, StartScan(t) PROVE task'[k] = task[k] \/ task'[k].at \in Low
    BY <1>0, <2>2, <2>5 DEF StartScan
  <2>6. CASE AbortScan \/ Restart
    BY <1>0, <2>6 DEF AbortScan, Restart, Finished, Idle, Typed
  <2>7. \/ UNCHANGED task
        \/ \E u \in Users : Operator(u)
        \/ \E j \in Tasks : Execution(j)
        \/ \E t \in Tickers : StartScan(t)
        \/ AbortScan \/ Restart
    BY DEF Step, QueueApproval, RejectReview, PositionGone, Fill, End, Poll, Adopt
  <2> HIDE DEF Low
  <2> QED BY <2>3, <2>4, <2>5, <2>6, <2>7 DEF Low
<1> QED BY <1>1, <1>2, <1>3, <1>4, <1>5

-----------------------------------------------------------------------------
(***************************************************************************)
(* What the histories say of the present.  A live order without row and    *)
(* task is marked untracked.  Two executions past the guard of one ticker  *)
(* have overlapped, and one that is about to submit has overlapped with    *)
(* the entry of every live order of its ticker, or that order is marked.   *)
(* While nothing has crowded, the tickers with an order in the market or   *)
(* an execution in the air do not exceed the cap.                          *)
(***************************************************************************)
LostAreMarked == \A o \in Alive : Untracked(o) => o \in untracked

PairsOverlap ==
  \A j, k \in Tasks :
    j # k /\ Past(j) /\ Past(k) /\ task[j].ticker = task[k].ticker => task[k].ticker \in overlap

SubmitIsClear ==
  \A k \in Tasks : task[k].at = "submit" =>
    \A o \in Alive : order[o].ticker = task[k].ticker =>
      task[k].ticker \in overlap \/ o \in untracked

Busy == {t \in Tickers : Active(t)}

CapFits == ~crowded => Cardinality(Busy) <= MaxPositions

IInv == /\ Typed /\ Fits /\ UsesFit
        /\ untracked \subseteq Orders /\ overlap \subseteq Tickers /\ crowded \in BOOLEAN
        /\ LostAreMarked /\ PairsOverlap /\ SubmitIsClear /\ DuplicateTakesARace /\ CapFits

LEMMA InitIInv == Init => IInv
<1> SUFFICES ASSUME Init PROVE IInv
  OBVIOUS
<1>1. TypeOK /\ Fits
  BY InitFits
<1>2. Typed /\ untracked \subseteq Orders /\ overlap \subseteq Tickers /\ crowded \in BOOLEAN
  BY <1>1 DEF TypeOK, Typed, EventRow, TaskRow, OrderRow
<1>3. Alive = {}
  BY DEF Init, Alive, NoOrder
<1>4. \A k \in Tasks : ~Airborne(k)
  BY DEF Init, Idle, Airborne, Past, Ordering
<1>5. LostAreMarked /\ PairsOverlap /\ SubmitIsClear /\ DuplicateTakesARace
  BY <1>3, <1>4 DEF LostAreMarked, PairsOverlap, SubmitIsClear, DuplicateTakesARace, Airborne, Past
<1>6. Busy = {}
  BY <1>3, <1>4 DEF Busy, Active, InTheAir, Airborne, Past, Ordering
<1>7. CapFits
  BY <1>6, FS_EmptySet, PipelineAssumption DEF CapFits
<1>8. UsesFit
  <2>1. ASSUME NEW e \in Events PROVE used[e] = 0 /\ Readers(e) = {}
    BY <1>4 DEF Init, Idle, Readers, Resolving, Tasks
  <2>2. Cardinality({}) = 0 /\ Cardinality(Users) \in Nat
    BY FS_EmptySet, FS_CardinalityType, PipelineAssumption
  <2> QED BY <2>1, <2>2 DEF UsesFit
<1> QED BY <1>1, <1>2, <1>5, <1>7, <1>8 DEF IInv

\* A ticker with a live order or an execution in the air is active.
LEMMA Actives ==
  ASSUME NEW t
  PROVE  Active(t) <=> \/ \E o \in Alive : order[o].ticker = t
                       \/ \E k \in Tasks : Airborne(k) /\ task[k].ticker = t
BY PipelineAssumption DEF Active, Of, Alive, InTheAir, Airborne, Past, Ordering, Tasks

\* What the histories hold they keep while it matters.
LEMMA Remembered ==
  ASSUME Remember
  PROVE  /\ \A o \in Alive' : o \in untracked \/ Untracked(o)' => o \in untracked'
         /\ \A t \in Tickers : (t \in overlap \/ Overtaken(t)) /\ Active(t)' => t \in overlap'
BY DEF Remember, Alive

LEMMA MarksStep == Remember => LostAreMarked'
BY Remembered DEF LostAreMarked

\* The guard of a ticker with another execution past it overlaps.
LEMMA GuardOverlaps ==
  ASSUME Typed, NEW k \in Tasks, NEW j \in Tasks, j # k, PassGuard(k), Past(j),
         task[j].ticker = task[k].ticker
  PROVE  Overtaken(task[k].ticker)
<1>1. task[k].at = "guard" /\ task'[k].at = "submit"
  BY DEF PassGuard, Goes, Typed, TaskRow
<1>2. j \in InTheAir(k) /\ task[j].at # "guard"
  BY DEF InTheAir, Past, Ordering
<1> QED BY <1>1, <1>2 DEF Overtaken

LEMMA GuardPassed ==
  ASSUME Typed, NEW k \in Tasks, PassGuard(k)
  PROVE  /\ task[k].at = "guard" /\ task'[k].at = "submit" /\ task'[k].ticker = task[k].ticker
         /\ \A j \in Tasks \ {k} : task'[j] = task[j]
         /\ UNCHANGED <<order, row>>
BY DEF PassGuard, Goes, Typed, TaskRow, market

LEMMA GatePassed ==
  ASSUME Typed, NEW k \in Tasks, PassPortfolioGate(k)
  PROVE  /\ task[k].at = "gate" /\ task'[k].at = "guard" /\ task'[k].ticker = task[k].ticker
         /\ \A j \in Tasks \ {k} : task'[j] = task[j]
         /\ UNCHANGED <<order, row>>
BY DEF PassPortfolioGate, Goes, Typed, TaskRow, market

LEMMA PairsStep == IInv /\ Next => PairsOverlap'
<1> SUFFICES ASSUME IInv, Next, NEW j \in Tasks, NEW k \in Tasks, j # k, Past(j)', Past(k)',
                    task'[j].ticker = task'[k].ticker
             PROVE  task'[k].ticker \in overlap'
  BY DEF PairsOverlap
<1>1. Typed /\ Fits /\ Step /\ Remember /\ Fits'
  BY FitStep DEF IInv, Next
<1>2. task'[k].ticker \in Tickers
  BY <1>1 DEF Fits, TasksFit, Past, Ordering
<1>3. Active(task[k].ticker)'
  <2>1. Airborne(k)'
    BY DEF Airborne
  <2> QED BY <2>1, PipelineAssumption DEF Active, InTheAir, Airborne, Past, Ordering, Tasks
<1>4. ASSUME NEW i \in Tasks, Past(i)'
      PROVE  PassGuard(i) \/ (Past(i) /\ task'[i].ticker = task[i].ticker)
  <2>1. Airborne(i)' /\ ~PassPortfolioGate(i)
    BY <1>1, <1>4, GatePassed DEF Airborne, Past, Ordering
  <2> QED BY <1>1, <1>4, <2>1, TasksProgress
<1>5. CASE PassGuard(j)
  <2>1. task'[k] = task[k] /\ task'[j].ticker = task[j].ticker
    BY <1>1, <1>5, GuardPassed
  <2>2. Past(k)
    BY <2>1 DEF Past, Ordering
  <2>3. Overtaken(task[j].ticker)
    BY <1>1, <1>5, <2>1, <2>2, GuardOverlaps
  <2> QED BY <1>1, <1>2, <1>3, <2>1, <2>3, Remembered
<1>6. CASE PassGuard(k)
  <2>1. task'[j] = task[j] /\ task'[k].ticker = task[k].ticker
    BY <1>1, <1>6, GuardPassed
  <2>2. Past(j)
    BY <2>1 DEF Past, Ordering
  <2>3. Overtaken(task[k].ticker)
    BY <1>1, <1>6, <2>1, <2>2, GuardOverlaps
  <2> QED BY <1>1, <1>2, <1>3, <2>1, <2>3, Remembered
<1>7. CASE ~PassGuard(j) /\ ~PassGuard(k)
  <2>1. task[k].ticker \in overlap /\ task'[k].ticker = task[k].ticker
    BY <1>4, <1>7 DEF IInv, PairsOverlap
  <2> QED BY <1>1, <1>2, <1>3, <2>1, Remembered
<1> QED BY <1>5, <1>6, <1>7

LEMMA SubmitStep == IInv /\ Next => SubmitIsClear'
<1> SUFFICES ASSUME IInv, Next, NEW k \in Tasks, NEW o \in Orders, task'[k].at = "submit",
                    o \in Alive', order'[o].ticker = task'[k].ticker
             PROVE  task'[k].ticker \in overlap' \/ o \in untracked'
  BY DEF SubmitIsClear, Alive
<1>1. Typed /\ Fits /\ Step /\ Remember /\ Fits'
  BY FitStep DEF IInv, Next
<1>2. task'[k].ticker \in Tickers
  BY <1>1 DEF Fits, TasksFit
<1>3. Active(task[k].ticker)'
  BY PipelineAssumption DEF Active, InTheAir, Tasks
<1>4. CASE PassGuard(k)
  <2>1. /\ o \in Alive /\ order[o].ticker = task[k].ticker
        /\ task'[k].ticker = task[k].ticker /\ task[k].at = "guard"
    BY <1>1, <1>4, GuardPassed DEF Alive
  <2>2. row[o] \notin {"open", "pending"}
    BY <1>4, <2>1 DEF PassGuard, Guarded, Of, Recorded
  <2>3. CASE Untracked(o)
    BY <1>1, <2>1, <2>3, Remembered DEF IInv, LostAreMarked
  <2>4. CASE ~Untracked(o)
    <3>1. PICK j \in Tasks : Ordering(j) /\ task[j].order = o
      BY <2>1, <2>2, <2>4 DEF Untracked, Recorded, Ordering
    <3>2. j # k /\ Past(j) /\ task[j].ticker = task[k].ticker
      BY <1>1, <2>1, <3>1 DEF Fits, TasksFit, Ordering, Past
    <3>3. Overtaken(task[k].ticker)
      BY <1>1, <1>4, <3>2, GuardOverlaps
    <3> QED BY <1>1, <1>2, <1>3, <2>1, <3>3, Remembered
  <2> QED BY <2>3, <2>4
<1>5. CASE ~PassGuard(k)
  <2>1. Airborne(k)' /\ ~PassPortfolioGate(k)
    BY <1>1, GatePassed DEF Airborne, Past
  <2>2. task'[k] = task[k]
    BY <1>1, <1>5, <2>1, TasksProgress
  <2>3. CASE o \in Alive /\ order[o].ticker = task[k].ticker
    BY <1>1, <1>2, <1>3, <2>2, <2>3, Remembered DEF IInv, SubmitIsClear
  <2>4. ASSUME NEW j \in Tasks, Submit(j, o) PROVE task'[k].ticker \in overlap'
    <3>1. j # k /\ Past(j) /\ Past(k) /\ task[j].ticker = task[k].ticker
      BY <1>1, <2>2, <2>4, Submitted DEF Past, Ordering
    <3>2. task[k].ticker \in overlap
      BY <3>1 DEF IInv, PairsOverlap
    <3> QED BY <1>1, <1>2, <1>3, <2>2, <3>2, Remembered
  <2>5. \/ o \in Alive /\ order[o].ticker = task[k].ticker
        \/ \E j \in Tasks : Submit(j, o)
    <3>1. ASSUME NEW j \in Tasks, NEW p \in Orders, Submit(j, p), p # o
          PROVE  o \in Alive /\ order[o].ticker = task[k].ticker
      BY <1>1, <2>2, <3>1, Submitted DEF Alive
    <3>2. \/ \E j \in Tasks, p \in Orders : Submit(j, p)
          \/ o \in Alive /\ order[o].ticker = task[k].ticker
      BY <1>1, <2>2, OrdersOnlyEnd
    <3> QED BY <3>1, <3>2
  <2> QED BY <2>3, <2>4, <2>5
<1> QED BY <1>4, <1>5

LEMMA DuplicateStep == IInv /\ Next => DuplicateTakesARace'
<1> SUFFICES ASSUME IInv, Next, NEW o \in Orders, NEW p \in Orders, o \in Alive', p \in Alive',
                    o # p, order'[o].ticker = order'[p].ticker
             PROVE  order'[o].ticker \in overlap' \/ o \in untracked' \/ p \in untracked'
  BY DEF DuplicateTakesARace, Alive
<1> DEFINE t == order'[o].ticker
<1>1. Typed /\ Fits /\ Step /\ Remember /\ Fits'
  BY FitStep DEF IInv, Next
<1>2. t \in Tickers
  BY <1>1 DEF Fits, OrdersFit, Alive
<1>3. Active(order[o].ticker)'
  BY DEF Active, Of, Alive
<1>4. CASE o \in Alive /\ p \in Alive /\ order[o].ticker = t /\ order[p].ticker = t
  <2>1. t \in overlap \/ o \in untracked \/ p \in untracked
    BY <1>4 DEF IInv, DuplicateTakesARace
  <2> QED BY <1>1, <1>2, <1>3, <2>1, Remembered
<1>5. ASSUME NEW k \in Tasks, Submit(k, o)
      PROVE  t \in overlap' \/ p \in untracked'
  <2>1. task[k].at = "submit" /\ p \in Alive /\ order[p].ticker = task[k].ticker /\ t = task[k].ticker
    BY <1>1, <1>5, Submitted DEF Alive
  <2>2. t \in overlap \/ p \in untracked
    BY <2>1 DEF IInv, SubmitIsClear
  <2> QED BY <1>1, <1>2, <1>3, <2>2, Remembered
<1>6. ASSUME NEW k \in Tasks, Submit(k, p)
      PROVE  t \in overlap' \/ o \in untracked'
  <2>1. task[k].at = "submit" /\ o \in Alive /\ order[o].ticker = task[k].ticker /\ t = task[k].ticker
    BY <1>1, <1>6, Submitted DEF Alive
  <2>2. t \in overlap \/ o \in untracked
    BY <2>1 DEF IInv, SubmitIsClear
  <2> QED BY <1>1, <1>2, <1>3, <2>2, Remembered
<1>7. \/ o \in Alive /\ p \in Alive /\ order[o].ticker = t /\ order[p].ticker = t
      \/ \E k \in Tasks : Submit(k, o) \/ Submit(k, p)
  <2>1. ASSUME NEW k \in Tasks, NEW q \in Orders, Submit(k, q), q # o, q # p
        PROVE  o \in Alive /\ p \in Alive /\ order[o].ticker = t /\ order[p].ticker = t
    BY <1>1, <2>1, Submitted DEF Alive
  <2>2. \/ \E k \in Tasks, q \in Orders : Submit(k, q)
        \/ o \in Alive /\ p \in Alive /\ order[o].ticker = t /\ order[p].ticker = t
    BY <1>1, OrdersOnlyEnd
  <2> QED BY <2>1, <2>2
<1> QED BY <1>4, <1>5, <1>6, <1>7

\* Only the gate makes a ticker active.
LEMMA OnlyTheGateAdds ==
  ASSUME Typed, Fits, Step, NEW t \in Tickers, Active(t)',
         \A k \in Tasks : PassPortfolioGate(k) => task[k].ticker # t
  PROVE  Active(t)
<1>1. ASSUME NEW o \in Orders, o \in Alive', order'[o].ticker = t PROVE Active(t)
  <2>1. CASE o \in Alive /\ order[o].ticker = t
    BY <2>1, Actives
  <2>2. ASSUME NEW k \in Tasks, Submit(k, o) PROVE Active(t)
    <3>1. Airborne(k) /\ task[k].ticker = t
      BY <1>1, <2>2, Submitted DEF Airborne, Past
    <3> QED BY <3>1, Actives
  <2>3. ASSUME NEW k \in Tasks, NEW p \in Orders, Submit(k, p), p # o
        PROVE  o \in Alive /\ order[o].ticker = t
    BY <1>1, <2>3, Submitted DEF Alive
  <2>4. \/ \E k \in Tasks, p \in Orders : Submit(k, p)
        \/ o \in Alive /\ order[o].ticker = t
    BY <1>1, OrdersOnlyEnd
  <2> QED BY <2>1, <2>2, <2>3, <2>4
<1>2. ASSUME NEW k \in Tasks, Airborne(k)', task'[k].ticker = t PROVE Active(t)
  <2>1. ~PassPortfolioGate(k)
    BY <1>2, GatePassed
  <2>2. Airborne(k) /\ task[k].ticker = t
    BY <1>2, <2>1, TasksProgress, GuardPassed DEF Airborne
  <2> QED BY <2>2, Actives
<1>3. \/ \E o \in Orders : o \in Alive' /\ order'[o].ticker = t
      \/ \E k \in Tasks : Airborne(k)' /\ task'[k].ticker = t
  BY PipelineAssumption DEF Active, Of, Alive, InTheAir, Airborne, Past, Ordering, Tasks
<1> QED BY <1>1, <1>2, <1>3

\* The count of open positions is at least the tickers that are held.
LEMMA CountCoversHeld ==
  /\ IsFiniteSet(LiveTickers) /\ Cardinality(LiveTickers) \in Nat
  /\ OpenCount \in Nat /\ Cardinality(LiveTickers) <= OpenCount
<1>1. IsFiniteSet(LiveTickers) /\ IsFiniteSet(Recorded({"open"}))
  BY PipelineAssumption, FS_Subset DEF LiveTickers, Recorded
<1>2. Cardinality(LiveTickers) \in Nat /\ Cardinality(Recorded({"open"})) \in Nat
  BY <1>1, FS_CardinalityType
<1> QED BY <1>1, <1>2 DEF OpenCount

LEMMA CapStep == IInv /\ Next => CapFits'
<1> SUFFICES ASSUME IInv, Next, ~crowded' PROVE Cardinality(Busy') <= MaxPositions
  BY DEF CapFits
<1>1. Typed /\ Fits /\ Step /\ Remember
  BY DEF IInv, Next
<1>2. IsFiniteSet(Tickers) /\ MaxPositions \in Nat
  BY PipelineAssumption
<1>3. IsFiniteSet(Busy) /\ Cardinality(Busy) \in Nat
  BY <1>2, FS_Subset, FS_CardinalityType DEF Busy
<1>4. CASE Busy' = {}
  BY <1>2, <1>4, FS_EmptySet
<1>5. CASE Busy' # {}
  <2>1. ~crowded /\ ~Crowding
    <3>1. \E t \in Tickers : Active(t)'
      BY <1>5 DEF Busy
    <3> QED BY <1>1, <3>1, Zenon DEF Remember
  <2>2. Cardinality(Busy) <= MaxPositions
    BY <2>1 DEF IInv, CapFits
  <2>3. ASSUME NEW k \in Tasks, PassPortfolioGate(k)
        PROVE  Cardinality(Busy') <= MaxPositions
    <3>1. task[k].at = "gate" /\ task'[k].at = "guard" /\ order' = order /\ task[k].ticker \in Tickers
      BY <1>1, <2>3, GatePassed DEF Fits, TasksFit
    <3>2. ~(OpenCount >= MaxPositions) /\ InTheAir(k) = {}
      BY <2>1, <3>1 DEF Crowding
    <3>3. \A o \in Orders : order[o].st \notin {"working", "dying"}
      BY <2>1, <3>1 DEF Crowding
    <3>4. Busy \subseteq LiveTickers
      <4>1. \A j \in Tasks : ~Airborne(j)
        BY <3>1, <3>2 DEF InTheAir, Airborne, Past, Ordering
      <4>2. \A o \in Alive : order[o].st = "filled"
        BY <3>3 DEF Alive
      <4> QED BY <4>1, <4>2, Actives DEF Busy, LiveTickers, Live, Of, Alive
    <3>5. \A j \in Tasks : PassPortfolioGate(j) => j = k
      BY <1>1, <2>3, GatePassed
    <3>6. Busy' \subseteq LiveTickers \cup {task[k].ticker}
      BY <1>1, <3>4, <3>5, OnlyTheGateAdds DEF Busy
    <3>7. Cardinality(LiveTickers) + 1 <= MaxPositions
      BY <1>2, <3>2, CountCoversHeld
    <3> DEFINE Bound == LiveTickers \cup {task[k].ticker}
    <3>8. IsFiniteSet(Bound) /\ Cardinality(Bound) <= Cardinality(LiveTickers) + 1
      BY CountCoversHeld, FS_AddElement
    <3>9. Cardinality(Bound) \in Nat
      BY <3>8, FS_CardinalityType
    <3>10. IsFiniteSet(Busy') /\ Cardinality(Busy') <= Cardinality(Bound)
      BY <3>6, <3>8, FS_Subset
    <3>11. Cardinality(Busy') \in Nat
      BY <3>10, FS_CardinalityType
    <3> HIDE DEF Bound
    <3> QED BY <1>2, <3>7, <3>8, <3>9, <3>10, <3>11, CountCoversHeld
  <2>4. CASE \A k \in Tasks : ~PassPortfolioGate(k)
    <3>1. Busy' \subseteq Busy
      BY <1>1, <2>4, OnlyTheGateAdds DEF Busy
    <3>2. Cardinality(Busy') <= Cardinality(Busy) /\ IsFiniteSet(Busy')
      BY <1>3, <3>1, FS_Subset
    <3>3. Cardinality(Busy') \in Nat
      BY <3>2, FS_CardinalityType
    <3> QED BY <1>2, <1>3, <2>2, <3>2, <3>3
  <2> QED BY <2>3, <2>4
<1> QED BY <1>4, <1>5

LEMMA IInvStep == IInv /\ [Next]_vars => IInv'
<1>1. IInv /\ Next => IInv'
  BY TypeStep, FitStep, UsesStep, RememberTyped, MarksStep, PairsStep, SubmitStep, DuplicateStep, CapStep
     DEF IInv, Next
<1>2. IInv /\ UNCHANGED vars => IInv'
  <2> SUFFICES ASSUME IInv, UNCHANGED vars PROVE IInv'
    OBVIOUS
  <2> USE DEF vars, market, history
  <2>1. (Typed /\ Fits)'
    BY DEF IInv, Typed, Fits, QueueFits, TasksFit, OrdersFit, Resolving, Ordering
  <2>2. (untracked \subseteq Orders /\ overlap \subseteq Tickers)'
    BY DEF IInv
  <2>3. (crowded \in BOOLEAN)'
    BY Zenon DEF IInv
  <2>4. (LostAreMarked /\ PairsOverlap /\ SubmitIsClear /\ DuplicateTakesARace)'
    BY DEF IInv, LostAreMarked, PairsOverlap, SubmitIsClear, DuplicateTakesARace, Untracked, Past,
           Ordering, Alive, Recorded
  <2>5. CapFits'
    <3>1. Busy' = Busy
      BY DEF Busy, Active, Of, Alive, InTheAir
    <3>2. crowded' = crowded
      BY Zenon
    <3> QED BY <3>1, <3>2 DEF IInv, CapFits
  <2>6. UsesFit'
    <3>1. \A e \in Events : Readers(e)' = Readers(e)
      BY DEF Readers, Resolving
    <3> QED BY <3>1 DEF IInv, UsesFit
  <2> QED BY <2>1, <2>2, <2>3, <2>4, <2>5, <2>6 DEF IInv
<1> QED BY <1>1, <1>2

LEMMA IInvHolds == Spec => []IInv
BY InitIInv, IInvStep, PTL DEF Spec

-----------------------------------------------------------------------------
(***************************************************************************)
(* Every variable keeps its type.                                          *)
(***************************************************************************)
THEOREM TypeCorrect == Spec => []TypeOK
<1>1. IInv => TypeOK
  <2> SUFFICES ASSUME IInv PROVE TypeOK
    OBVIOUS
  <2>1. \A e \in Events : used[e] \in 0 .. Cardinality(Users)
    <3> SUFFICES ASSUME NEW e \in Events PROVE used[e] \in 0 .. Cardinality(Users)
      OBVIOUS
    <3>1. used[e] \in Nat /\ used[e] + Cardinality(Readers(e)) <= Cardinality(Users)
      BY DEF IInv, Typed, UsesFit
    <3>2. Cardinality(Readers(e)) \in Nat /\ Cardinality(Users) \in Nat
      BY ReadersFit DEF Readers
    <3> QED BY <3>1, <3>2
  <2>2. used \in [Events -> 0 .. Cardinality(Users)]
    BY <2>1 DEF IInv, Typed
  <2> QED BY <2>2 DEF IInv, Typed, TypeOK, EventRow, TaskRow, OrderRow
<1> QED BY <1>1, IInvHolds, PTL

(***************************************************************************)
(* _resolve_rotation_review: whoever approves, rejects and restarts, a     *)
(* review enters its challenger at most once and never when rejected.      *)
(***************************************************************************)
THEOREM ReviewsUsedOnce == Spec => []ReviewUsedOnce
<1>1. IInv => ReviewUsedOnce
  BY DEF IInv, Fits, QueueFits, ReviewUsedOnce
<1> QED BY <1>1, IInvHolds, PTL

(***************************************************************************)
(* Stage 3 (the duplicate guard): a ticker has two entries in the market   *)
(* only if two executions were past its guard at once or one of the        *)
(* entries had gone untracked.                                             *)
(***************************************************************************)
THEOREM DuplicatesAreRaces == Spec => []DuplicateTakesARace
<1>1. IInv => DuplicateTakesARace
  BY DEF IInv
<1> QED BY <1>1, IInvHolds, PTL

(***************************************************************************)
(* Stage 2b (the position cap): the book exceeds the cap only if a signal  *)
(* passed the gate with another entry in the air or a read failed.         *)
(***************************************************************************)
THEOREM CapIsRaced == Spec => []CapTakesARace
<1>1. IInv => CapTakesARace
  <2> SUFFICES ASSUME IInv, ~crowded PROVE Cardinality(LiveTickers) <= MaxPositions
    BY PipelineAssumption, CountCoversHeld DEF CapTakesARace
  <2>1. IsFiniteSet(Busy) /\ Cardinality(Busy) \in Nat
    BY PipelineAssumption, FS_Subset, FS_CardinalityType DEF Busy
  <2>2. LiveTickers \subseteq Busy
    BY Actives DEF LiveTickers, Live, Busy, Of, Alive
  <2>3. Cardinality(LiveTickers) <= Cardinality(Busy)
    BY <2>1, <2>2, FS_Subset
  <2> QED BY <2>1, <2>3, CountCoversHeld, PipelineAssumption DEF IInv, CapFits
<1> QED BY <1>1, IInvHolds, PTL

\* Whoever holds an order lets go of it only where its call returns, where it
\* records, or in a fault.
LEMMA LettingGo ==
  ASSUME Typed, Fits, Step, NEW j \in Tasks, Ordering(j)
  PROVE  task'[j] = task[j] \/ faults' > faults \/ OrderReturns(j) \/ Record(j)
<1> USE DEF Ordering
<1>0. Users \subseteq Tasks /\ Scanner \in Tasks /\ faults \in Int
  BY PipelineAssumption DEF Tasks, Typed
<1>1. ASSUME NEW u \in Users, Operator(u) PROVE task'[j] = task[j]
  <2>1. task[u].at \notin {"ordered", "filled", "pending"}
    <3>1. ASSUME NEW e \in Events, SelectApproval(u, e) \/ ApproveReview(u, e) PROVE task[u] = Idle
      BY <3>1 DEF SelectApproval, ApproveReview
    <3>2. ASSUME NEW t \in Tickers, StartManual(u, t) PROVE task[u] = Idle
      BY <3>2 DEF StartManual
    <3>3. CASE CommitApproval(u)
      BY <3>3 DEF CommitApproval
    <3>4. CASE CheckIncumbent(u)
      BY <3>4 DEF CheckIncumbent
    <3>5. CASE CloseIncumbent(u)
      <4>1. task[u].at = "closing"
        BY <3>5 DEF CloseIncumbent
      <4> QED BY <4>1
    <3>6. Idle.at = "idle"
      BY DEF Idle
    <3> QED BY <1>1, <3>1, <3>2, <3>3, <3>4, <3>5, <3>6 DEF Operator
  <2>2. u # j
    BY <2>1
  <2>3. ASSUME NEW now, task' = [task EXCEPT ![u] = now] PROVE task'[j] = task[j]
    BY <1>0, <2>2, <2>3 DEF Typed
  <2>4. \/ \E e \in Events : SelectApproval(u, e) \/ ApproveReview(u, e)
        \/ Finished(u) \/ Goes(u, "closing") \/ \E t : Executes(u, t)
    BY <1>1 DEF Operator, CommitApproval, CheckIncumbent, CloseIncumbent, StartManual
  <2> QED BY <2>3, <2>4 DEF SelectApproval, ApproveReview, Finished, Goes, Executes
<1>2. ASSUME NEW k \in Tasks, Execution(k), k # j PROVE task'[j] = task[j]
  BY <1>2 DEF Execution, Decline, PassPortfolioGate, RaiseReview, PassGuard, Submit, OrderReturns,
              Record, Finished, Goes, Typed
<1>3. ASSUME Execution(j) PROVE OrderReturns(j) \/ Record(j)
  BY <1>3 DEF Execution, Decline, PassPortfolioGate, RaiseReview, PassGuard, Submit
<1>4. ASSUME NEW t \in Tickers, StartScan(t) PROVE task'[j] = task[j]
  BY <1>0, <1>4 DEF StartScan, Executes, Idle, Typed
<1>5. CASE AbortScan \/ Restart
  BY <1>0, <1>5 DEF AbortScan, Restart, Fault
<1>6. \/ UNCHANGED task
      \/ \E u \in Users : Operator(u)
      \/ \E k \in Tasks : Execution(k)
      \/ \E t \in Tickers : StartScan(t)
      \/ AbortScan \/ Restart
  BY DEF Step, QueueApproval, RejectReview, PositionGone, Fill, End, Poll, Adopt
<1> QED BY <1>1, <1>2, <1>3, <1>4, <1>5, <1>6

LEMMA LossIsNamed ==
  ASSUME Typed, Fits, Step, NEW o \in Orders, Untracked(o)', ~Untracked(o)
  PROVE  \/ faults' > faults \/ order'[o].st = "dying" \/ row[o] \in {"pending", "open"}
<1> SUFFICES ASSUME ~(faults' > faults), order'[o].st # "dying", row[o] \notin {"pending", "open"}
             PROVE  FALSE
  OBVIOUS
<1>1. /\ o \in Alive' /\ row'[o] \notin {"pending", "open"}
      /\ \A k \in Tasks : Ordering(k)' => task'[k].order # o
  BY DEF Untracked, Recorded, Ordering
<1>2. o \in Alive => \E k \in Tasks : Ordering(k) /\ task[k].order = o
  BY DEF Untracked, Recorded, Ordering
<1>3. ASSUME NEW k \in Tasks, Submit(k, o) PROVE FALSE
  BY <1>1, <1>3, Submitted DEF Ordering
<1>4. o \in Alive
  <2>1. ASSUME NEW k \in Tasks, NEW p \in Orders, Submit(k, p), p # o PROVE o \in Alive
    BY <1>1, <2>1, Submitted DEF Alive
  <2>2. o \in Alive \/ \E k \in Tasks, p \in Orders : Submit(k, p)
    BY <1>1, OrdersOnlyEnd
  <2> QED BY <1>3, <2>1, <2>2
<1>5. PICK k \in Tasks : Ordering(k) /\ task[k].order = o
  BY <1>2, <1>4
<1>6. task'[k] # task[k]
  BY <1>1, <1>5 DEF Ordering
<1>7. CASE OrderReturns(k)
  <2>1. /\ task[k].at = "ordered"
        /\ \/ \E to \in {"filled", "pending"} : task' = [task EXCEPT ![k].at = to]
           \/ order[o].st = "ended" /\ order' = order
           \/ order' = [order EXCEPT ![o].st = "dying"]
    BY <1>5, <1>7 DEF OrderReturns, Goes
  <2>2. CASE \E to \in {"filled", "pending"} : task' = [task EXCEPT ![k].at = to]
    BY <1>1, <1>5, <2>2 DEF Ordering, Typed, TaskRow
  <2>3. CASE order[o].st = "ended" /\ order' = order
    BY <1>1, <2>3 DEF Alive
  <2>4. CASE order' = [order EXCEPT ![o].st = "dying"]
    BY <2>4 DEF Typed, OrderRow
  <2> QED BY <2>1, <2>2, <2>3, <2>4
<1>8. CASE Record(k)
  <2>1. faults' = faults + 1 \/ row'[o] \in {"pending", "open"}
    BY <1>5, <1>8 DEF Record, Fault, Typed
  <2> QED BY <1>1, <2>1, PipelineAssumption DEF Typed
<1> QED BY <1>5, <1>6, <1>7, <1>8, LettingGo

(***************************************************************************)
(* Stage 5: without a fault an order is left with neither row nor task     *)
(* only where the call gave it up with its cancel sent or where its row    *)
(* was resolved while it was alive.                                        *)
(***************************************************************************)
THEOREM LossesHaveNames == Spec => LossesAreNamed
<1>1. IInv /\ [Next]_vars => [\A o \in Orders : Untracked(o)' /\ ~Untracked(o) =>
                                \/ faults' > faults
                                \/ order'[o].st = "dying"
                                \/ row[o] \in {"pending", "open"}]_vars
  BY LossIsNamed DEF IInv, Next
<1> QED BY <1>1, IInvHolds, PTL DEF Spec, LossesAreNamed
=============================================================================
