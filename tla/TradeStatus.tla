---------------------------- MODULE TradeStatus -----------------------------
(***************************************************************************)
(* What the trades table promises its readers (guardrails, the portfolio   *)
(* gate, analytics) about a row's status: a pending row is neither a live  *)
(* position nor a closed trade, only an open row is closed, cancelled and  *)
(* closed are final, and one row changes at a time.                        *)
(***************************************************************************)
CONSTANT Rows

VARIABLE status

Statuses == {"none", "pending", "open", "closed", "cancelled"}

Init == status = [r \in Rows |-> "none"]

Move(r, from, to) == status[r] = from /\ status' = [status EXCEPT ![r] = to]

Record(r)  == Move(r, "none", "pending") \/ Move(r, "none", "open")
Confirm(r) == Move(r, "pending", "open")
Cancel(r)  == Move(r, "pending", "cancelled")
Book(r)    == Move(r, "open", "closed")

\* Every change of a row is a change of the table.
Next ==
  /\ status' # status
  /\ \E r \in Rows : Record(r) \/ Confirm(r) \/ Cancel(r) \/ Book(r)

Spec == Init /\ [][Next]_status
=============================================================================
