-------------------------- MODULE ExecutionPipeline --------------------------
(***************************************************************************)
(* How a signal becomes an order: the queue of pending approvals and       *)
(* rotation reviews, the gates of _execute_signal, and the record of the   *)
(* order, with operators' requests, the scheduler's scan, the fill poller  *)
(* and the broker interleaving at every await.                             *)
(*                                                                         *)
(* Each signal buys its ticker.  One trade row stands for an order (how    *)
(* rows follow the broker in detail is TradeLedger's subject), and the     *)
(* gates whose inputs are outside this module (market hours, frequency,    *)
(* health, guardrail figures, account, tenure, margin, the cooldown of a   *)
(* ticker just closed) may refuse at will.                                 *)
(***************************************************************************)
EXTENDS Naturals, FiniteSets, TLC

CONSTANTS
  Tickers,       \* underlyings
  Events,        \* rows of execution_events: approvals and rotation reviews
  Users,         \* HTTP request tasks
  Scanner,       \* the scheduler's scan, which routes one signal at a time
  Orders,        \* entry orders
  MaxPositions,  \* the tightest cap on concurrent positions
  MaxFaults,     \* bound on restarts, aborted scans and database errors
  None           \* no ticker, event or order

ASSUME PipelineAssumption ==
  /\ IsFiniteSet(Tickers) /\ IsFiniteSet(Orders) /\ IsFiniteSet(Users)
  /\ Scanner \notin Users
  /\ None \notin Tickers \cup Events \cup Orders \cup Users \cup {Scanner}
  /\ MaxPositions \in Nat /\ MaxFaults \in Nat

Tasks == Users \cup {Scanner}

VARIABLES
  event,      \* the queued approvals and reviews
  task,       \* each task: where it is, and what it works on
  order,      \* each entry order at the broker: its ticker and state
  row,        \* status of the trade row that stands for each order (over:
              \* closed or cancelled)
  faults,
  (* history, read by the properties only *)
  used,       \* executions each approval or review has led to
  untracked,  \* live orders that once had neither a row nor a task
  overlap,    \* tickers whose guard was passed with another entry past it,
              \* since they were last flat
  crowded     \* the gate was passed with another entry in the air or with a
              \* read failed, since the book was last empty

market == <<order, row>>
history == <<untracked, overlap, crowded>>
vars == <<event, task, market, faults, used, history>>

Kinds    == {"none", "approval", "review"}
Verdicts == {"none", "pending", "approved", "rejected"}
Places   == {"idle", "approving", "rejecting", "review", "closing",
             "gate", "guard", "submit", "ordered", "filled", "pending"}

TypeOK ==
  /\ event \in [Events -> [kind : Kinds, ticker : Tickers \cup {None},
                           incumbent : Orders \cup {None}, status : Verdicts]]
  /\ task \in [Tasks -> [at : Places, ticker : Tickers \cup {None},
                         event : Events \cup {None},
                         order : Orders \cup {None}]]
  /\ order \in [Orders -> [ticker : Tickers \cup {None},
                           st : {"none", "working", "dying", "filled", "ended", "gone"}]]
  /\ row \in [Orders -> {"none", "pending", "open", "over"}]
  /\ faults \in 0 .. MaxFaults
  /\ used \in [Events -> 0 .. Cardinality(Users)]
  /\ untracked \subseteq Orders /\ overlap \subseteq Tickers
  /\ crowded \in BOOLEAN

Idle    == [at |-> "idle", ticker |-> None, event |-> None, order |-> None]
NoEvent == [kind |-> "none", ticker |-> None, incumbent |-> None,
            status |-> "none"]
NoOrder == [ticker |-> None, st |-> "none"]

Init ==
  /\ event = [e \in Events |-> NoEvent]
  /\ task = [k \in Tasks |-> Idle]
  /\ order = [o \in Orders |-> NoOrder] /\ row = [o \in Orders |-> "none"]
  /\ faults = 0
  /\ used = [e \in Events |-> 0]
  /\ untracked = {} /\ overlap = {} /\ crowded = FALSE

Of(t)        == {o \in Orders : order[o].ticker = t}
Alive        == {o \in Orders : order[o].st \in {"working", "dying", "filled"}}
Live(t)      == \E o \in Of(t) : order[o].st = "filled"
LiveTickers  == {t \in Tickers : Live(t)}
Recorded(s)  == {o \in Orders : row[o] \in s}

\* What TLC may permute.
Symmetry ==
  Permutations(Tickers) \cup Permutations(Users) \cup Permutations(Orders)

\* An order in the market that no open or pending row stands for and that no
\* task is about to record.
Untracked(o) ==
  /\ o \in Alive /\ row[o] \notin {"pending", "open"}
  /\ \A k \in Tasks :
       task[k].at \in {"ordered", "filled", "pending"} => task[k].order # o

\* Tasks other than k that have passed the portfolio gate with an entry.
InTheAir(k) ==
  {j \in Tasks \ {k} : task[j].at \in {"guard", "submit", "ordered",
                                       "filled", "pending"}}

Finished(k) == task' = [task EXCEPT ![k] = Idle]
Goes(k, at) == task' = [task EXCEPT ![k].at = at]

\* _execute_signal begins for the ticker.
Executes(k, t) ==
  task' = [task EXCEPT ![k] = [Idle EXCEPT !.at = "gate", !.ticker = t]]

\* An event takes its verdict; its payload has been read and is not read again.
Resolved(e, verdict) ==
  event' = [event EXCEPT ![e] = [NoEvent EXCEPT !.kind = event[e].kind,
                                               !.status = verdict]]

\* The position in the ticker is closed.
Sold(t) == [o \in Orders |-> IF o \in Of(t) /\ order[o].st = "filled"
                             THEN [order[o] EXCEPT !.st = "gone"] ELSE order[o]]

Fault       == faults < MaxFaults /\ faults' = faults + 1

-----------------------------------------------------------------------------
(* Approvals and rotation reviews.                                         *)

\* A signal is queued: by the scan in copilot mode, by the scan panel's route
\* in every mode.
QueueApproval(e, t) ==
  /\ event[e] = NoEvent
  /\ event' = [event EXCEPT ![e] = [NoEvent EXCEPT !.kind = "approval",
                                      !.ticker = t, !.status = "pending"]]
  /\ UNCHANGED <<task, market, faults, used>>

\* _resolve_pending_approval selects the row while it is pending ...
SelectApproval(u, e) ==
  /\ task[u] = Idle
  /\ event[e].kind = "approval" /\ event[e].status = "pending"
  /\ \E at \in {"approving", "rejecting"} :
       task' = [task EXCEPT ![u] = [Idle EXCEPT !.at = at, !.event = e,
                                              !.ticker = event[e].ticker]]
  /\ UNCHANGED <<event, market, faults, used>>

\* ... and writes its verdict by the row's key, without having locked it.  An
\* approval goes on to execute the signal.
CommitApproval(u) ==
  LET e == task[u].event
      verdict == IF task[u].at = "approving" THEN "approved" ELSE "rejected"
  IN  /\ task[u].at \in {"approving", "rejecting"}
      /\ Resolved(e, verdict)
      /\ IF verdict = "approved"
         THEN Executes(u, task[u].ticker) /\ used' = [used EXCEPT ![e] = @ + 1]
         ELSE Finished(u) /\ UNCHANGED used
      /\ UNCHANGED <<market, faults>>

\* mutant of ApproveReview: the status is not part of the query.
ApproveReviewAnyStatus(u, e) ==
  /\ task[u] = Idle
  /\ event[e].kind = "review"
  /\ Resolved(e, "approved")
  /\ used' = [used EXCEPT ![e] = @ + 1]
  /\ task' = [task EXCEPT ![u] = [Idle EXCEPT !.at = "review",
                                         !.ticker = event[e].ticker,
                                         !.order = event[e].incumbent]]
  /\ UNCHANGED <<market, faults>>

\* _resolve_rotation_review selects for update: one step.
ApproveReview(u, e) ==
  /\ task[u] = Idle
  /\ event[e].kind = "review" /\ event[e].status = "pending"
  /\ Resolved(e, "approved")
  /\ used' = [used EXCEPT ![e] = @ + 1]
  /\ task' = [task EXCEPT ![u] = [Idle EXCEPT !.at = "review",
                                         !.ticker = event[e].ticker,
                                         !.order = event[e].incumbent]]
  /\ UNCHANGED <<market, faults>>

RejectReview(e) ==
  /\ event[e].kind = "review" /\ event[e].status = "pending"
  /\ Resolved(e, "rejected")
  /\ UNCHANGED <<task, market, faults, used>>

\* approve_rotation_review goes on if the review names an incumbent that is
\* still open and the kill switch allows it.
CheckIncumbent(u) ==
  /\ task[u].at = "review"
  /\ \/ Finished(u)
     \/ /\ task[u].order # None /\ row[task[u].order] = "open"
        /\ Goes(u, "closing")
  /\ UNCHANGED <<event, market, faults, used>>

(***************************************************************************)
(* The incumbent's close.  It raises when the position is flat.  Otherwise *)
(* the ticker's working orders are cancelled and the close fills and is    *)
(* booked, or fills and the booking fails, or is still working: the        *)
(* challenger is entered all the same; or it is refused: it is not.        *)
(***************************************************************************)
CloseIncumbent(u) ==
  LET i == task[u].order
      t == order[i].ticker
      swept(os) == [o \in Orders |-> IF o \in Of(t) /\ os[o].st = "working"
                                     THEN [os[o] EXCEPT !.st = "dying"] ELSE os[o]]
  IN  /\ task[u].at = "closing"
      /\ \/ ~Live(t) /\ Finished(u) /\ UNCHANGED <<market, faults>>
         \/ /\ Live(t) /\ order' = swept(Sold(t))
            /\ Executes(u, task[u].ticker)
            /\ \/ row' = [row EXCEPT ![i] = "over"] /\ UNCHANGED faults
               \/ Fault /\ UNCHANGED row
         \/ /\ Live(t) /\ order' = swept(order)
            /\ Finished(u) \/ Executes(u, task[u].ticker)
            /\ UNCHANGED <<row, faults>>
      /\ UNCHANGED <<event, used>>

-----------------------------------------------------------------------------
(* _execute_signal.                                                        *)

\* handle_signal, which the scan awaits for one signal after the other; the
\* mode it reads is ExecutionMode's subject.
StartScan(t) ==
  /\ task[Scanner] = Idle
  /\ Executes(Scanner, t)
  /\ UNCHANGED <<event, market, faults, used>>

\* manual_trade executes whatever the mode.
StartManual(u, t) ==
  /\ task[u] = Idle
  /\ Executes(u, t)
  /\ UNCHANGED <<event, market, faults, used>>

\* A gate refuses, or fails closed: no order.
Decline(k) ==
  /\ task[k].at \in {"gate", "guard", "submit"}
  /\ Finished(k)
  /\ UNCHANGED <<event, market, faults, used>>

\* mutant of OpenCount: the broker's positions are not consulted.
OpenCountRowsOnly == Cardinality(Recorded({"open"}))

\* load_portfolio_risk_state: the larger of the open rows and the broker's
\* distinct underlyings.
OpenCount ==
  LET rows == Cardinality(Recorded({"open"}))
      held == Cardinality(LiveTickers)
  IN  IF rows > held THEN rows ELSE held

\* Stage 2b below the cap, or with a read that failed: of the table, and no
\* position is counted; of the broker's positions, and rows alone are.
PassPortfolioGate(k) ==
  /\ task[k].at = "gate"
  /\ \/ OpenCount < MaxPositions /\ UNCHANGED faults
     \/ Fault
  /\ Goes(k, "guard")
  /\ UNCHANGED <<event, market, used>>

\* At the cap, with rotation enabled: a review naming the worst eligible open
\* row, if there is one, is queued and the signal stops here.
RaiseReview(k, e) ==
  /\ task[k].at = "gate" /\ OpenCount >= MaxPositions
  /\ event[e] = NoEvent
  /\ \E i \in (Recorded({"open"}) \ Of(task[k].ticker)) \cup {None} :
       event' = [event EXCEPT ![e] =
                   [kind |-> "review", ticker |-> task[k].ticker,
                    incumbent |-> i, status |-> "pending"]]
  /\ Finished(k)
  /\ UNCHANGED <<market, faults, used>>

\* mutant of Guarded: only open rows count.
GuardedByOpen(t) == Of(t) \cap Recorded({"open"}) # {}

\* The duplicate guard: a row of the ticker is open or pending.
Guarded(t) == Of(t) \cap Recorded({"open", "pending"}) # {}

\* Stages 3 and 3b.
PassGuard(k) ==
  LET t == task[k].ticker
  IN  /\ task[k].at = "guard"
      /\ ~Guarded(t)
      /\ Goes(k, "submit")
      /\ UNCHANGED <<event, market, faults, used>>

\* Stage 4: the order goes to the broker.
Submit(k, o) ==
  /\ task[k].at = "submit" /\ order[o] = NoOrder
  /\ order' = [order EXCEPT ![o] = [ticker |-> task[k].ticker,
                                    st |-> "working"]]
  /\ task' = [task EXCEPT ![k].at = "ordered", ![k].order = o]
  /\ UNCHANGED <<event, row, faults, used>>

(***************************************************************************)
(* The order call returns: filled (the position may be gone by now); still *)
(* working, or the coordinator's timeout, which knows nothing of the order *)
(* (a pending row is due); ended unfilled; or given up, its cancel sent.   *)
(***************************************************************************)
OrderReturns(k) ==
  LET o == task[k].order
  IN  /\ task[k].at = "ordered"
      /\ \/ order[o].st \in {"filled", "gone"} /\ Goes(k, "filled")
            /\ UNCHANGED order
         \/ Goes(k, "pending") /\ UNCHANGED order
         \/ order[o].st = "ended" /\ Finished(k) /\ UNCHANGED order
         \/ /\ order[o].st = "working" /\ Finished(k)
            /\ order' = [order EXCEPT ![o].st = "dying"]
      /\ UNCHANGED <<event, row, faults, used>>

\* mutant of Record: an order still working is not recorded.
RecordFilledOnly(k) ==
  /\ task[k].at \in {"filled", "pending"}
  /\ \/ /\ row' = [row EXCEPT ![task[k].order] =
                     IF task[k].at = "filled" THEN "open" ELSE @]
        /\ UNCHANGED faults
     \/ Fault /\ UNCHANGED row
  /\ Finished(k)
  /\ UNCHANGED <<event, order, used>>

\* Stage 5: the row is inserted; an error is logged and leaves none.
Record(k) ==
  /\ task[k].at \in {"filled", "pending"}
  /\ \/ /\ row' = [row EXCEPT ![task[k].order] =
                     IF task[k].at = "filled" THEN "open" ELSE "pending"]
        /\ UNCHANGED faults
     \/ Fault /\ UNCHANGED row
  /\ Finished(k)
  /\ UNCHANGED <<event, order, used>>

\* _guarded cancels the scan at its timeout, wherever it is; the coordinator
\* has shielded the order.
AbortScan ==
  /\ task[Scanner] # Idle
  /\ Fault /\ Finished(Scanner)
  /\ UNCHANGED <<event, market, used>>

\* The process restarts: every task is gone.
Restart ==
  /\ Fault
  /\ task' = [k \in Tasks |-> Idle]
  /\ UNCHANGED <<event, market, used>>

-----------------------------------------------------------------------------
(* The broker, the fill poller and the reconciler, as the pipeline sees    *)
(* them.                                                                   *)

Fill(o) ==
  /\ order[o].st \in {"working", "dying"}
  /\ order' = [order EXCEPT ![o].st = "filled"]
  /\ UNCHANGED <<event, task, row, faults, used>>

End(o) ==
  /\ order[o].st \in {"working", "dying"}
  /\ order' = [order EXCEPT ![o].st = "ended"]
  /\ UNCHANGED <<event, task, row, faults, used>>

\* A stop, a target, a hand or an earlier close order closes the position.
PositionGone(t) ==
  /\ Live(t)
  /\ order' = Sold(t)
  /\ UNCHANGED <<event, task, row, faults, used>>

\* The poller promotes a pending row, cancels it after its grace, or books an
\* open one.  It decides on what the pass has read, which may be stale
\* (TradeLedger): whether the ticker is held does not bind it here.
Poll(o) ==
  /\ \/ row[o] = "pending" /\ row' = [row EXCEPT ![o] = "open"]
     \/ row[o] \in {"pending", "open"} /\ row' = [row EXCEPT ![o] = "over"]
  /\ UNCHANGED <<event, task, order, faults, used>>

\* The reconciler gives a position without an open row a row of its own.
Adopt(o) ==
  /\ order[o].st = "filled"
  /\ Of(order[o].ticker) \cap Recorded({"open"}) = {}
  /\ row[o] \in {"none", "over"}
  /\ row' = [row EXCEPT ![o] = "open"]
  /\ UNCHANGED <<event, task, order, faults, used>>

-----------------------------------------------------------------------------
Operator(u) ==
  \/ \E e \in Events : SelectApproval(u, e) \/ ApproveReview(u, e)
  \/ CommitApproval(u) \/ CheckIncumbent(u) \/ CloseIncumbent(u)
  \/ \E t \in Tickers : StartManual(u, t)

Execution(k) ==
  \/ Decline(k) \/ PassPortfolioGate(k)
  \/ \E e \in Events : RaiseReview(k, e)
  \/ PassGuard(k)
  \/ \E o \in Orders : Submit(k, o)
  \/ OrderReturns(k) \/ Record(k)

Step ==
  \/ \E u \in Users : Operator(u)
  \/ \E k \in Tasks : Execution(k)
  \/ \E e \in Events, t \in Tickers : QueueApproval(e, t)
  \/ \E e \in Events : RejectReview(e)
  \/ \E t \in Tickers : StartScan(t) \/ PositionGone(t)
  \/ \E o \in Orders : Fill(o) \/ End(o) \/ Poll(o) \/ Adopt(o)
  \/ AbortScan \/ Restart

\* What the properties remember of the last step.
Overtaken(t) ==
  \E k \in Tasks :
    /\ task[k].at = "guard" /\ task[k].ticker = t /\ task'[k].at = "submit"
    /\ \E j \in InTheAir(k) : task[j].ticker = t /\ task[j].at # "guard"

Crowding ==
  \E k \in Tasks :
    /\ task[k].at = "gate" /\ task'[k].at = "guard"
    /\ \/ OpenCount >= MaxPositions \/ InTheAir(k) # {}
       \/ \E o \in Orders : order[o].st \in {"working", "dying"}

Active(t) ==
  \/ \E o \in Alive : order[o].ticker = t
  \/ \E k \in InTheAir(None) : task[k].ticker = t

Remember ==
  /\ untracked' = {o \in Alive' : o \in untracked \/ Untracked(o)'}
  /\ overlap' = {t \in Tickers : Active(t)' /\ (t \in overlap \/ Overtaken(t))}
  /\ crowded' = ((crowded \/ Crowding) /\ \E t \in Tickers : Active(t)')

Next == Step /\ Remember

Spec == Init /\ [][Next]_vars

-----------------------------------------------------------------------------
(* Properties the code has.                                                *)

(***************************************************************************)
(* A rotation review closes and enters at most once, and not at all when   *)
(* it was rejected (_resolve_rotation_review).                             *)
(***************************************************************************)
ReviewUsedOnce ==
  \A e \in Events : event[e].kind = "review" =>
    /\ used[e] <= 1
    /\ event[e].status = "rejected" => used[e] = 0

(***************************************************************************)
(* A ticker has two entries in the market only if two executions were past *)
(* its guard at once or one of the entries had gone untracked (Stage 3).   *)
(***************************************************************************)
DuplicateTakesARace ==
  \A o, p \in Alive :
    o # p /\ order[o].ticker = order[p].ticker =>
      order[o].ticker \in overlap \/ {o, p} \cap untracked # {}

(***************************************************************************)
(* The book exceeds the cap only if a signal passed the gate while another *)
(* entry was in the air, or the gate could not read the table (Stage 2b):  *)
(* orders without a row do not make room.                                  *)
(***************************************************************************)
CapTakesARace == Cardinality(LiveTickers) > MaxPositions => crowded

(***************************************************************************)
(* No fill goes untracked silently: without a fault, an order is left with *)
(* neither row nor task only when the call gave it up with its cancel sent *)
(* or its row was resolved while it was still alive (Stage 5).             *)
(***************************************************************************)
LossesAreNamed ==
  [][\A o \in Orders : Untracked(o)' /\ ~Untracked(o) =>
       \/ faults' > faults
       \/ order'[o].st = "dying"
       \/ row[o] \in {"pending", "open"}]_vars

-----------------------------------------------------------------------------
(* What the repository says and the code does not do.                      *)

(***************************************************************************)
(* "_resolve_pending_approval's atomic pending->resolved flip is what      *)
(* makes an approval single-use" (_execute_signal, Stage 2b), and reject   *)
(* sends "no order": an approval executes once, a rejected one never.      *)
(***************************************************************************)
ApprovalUsedOnce ==
  \A e \in Events : event[e].kind = "approval" =>
    /\ used[e] <= 1
    /\ event[e].status = "rejected" => used[e] = 0
=============================================================================
