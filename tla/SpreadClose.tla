---------------------------- MODULE SpreadClose ----------------------------
(***************************************************************************)
(* Closing one vertical spread: requests of the operator, or of an         *)
(* approved rotation, that each read both legs at the broker, cancel the   *)
(* symbol's open orders and send the mirrored combo at the market.  The    *)
(* legs count contracts, a short leg negative.                             *)
(***************************************************************************)
EXTENDS Integers, FiniteSetsExt

CONSTANTS Requests, MaxContracts

VARIABLES
  row,      \* the contracts of the open row; 0: closed
  legs,     \* what the broker holds of the two legs
  request,  \* where each request is, and the size it has decided on
  working,  \* contracts of each request's order still to be filled
  crossed,  \* history: a request read the legs under another's close
  moved     \* history: a leg went away by itself

vars == <<row, legs, request, working, crossed, moved>>

Places == {"idle", "asked", "sized", "cleared", "placed", "lost", "done"}

TypeOK ==
  /\ row \in 0 .. MaxContracts
  /\ legs \in [short : Int, long : Int]
  /\ request \in [Requests -> [at : Places, size : Nat]]
  /\ working \in [Requests -> Nat]
  /\ \A r \in Requests : working[r] <= request[r].size
  /\ crossed \in BOOLEAN /\ moved \in BOOLEAN

\* The row may have drifted from what is held.
Init ==
  /\ row \in 1 .. MaxContracts
  /\ legs \in [short : -MaxContracts .. 0, long : 0 .. MaxContracts]
  /\ request = [r \in Requests |-> [at |-> "idle", size |-> 0]]
  /\ working = [r \in Requests |-> 0]
  /\ crossed = FALSE /\ moved = FALSE

Goes(r, where) == request' = [request EXCEPT ![r].at = where]

Abs(n) == Max({n, -n})

Held == Min({Abs(legs.short), Abs(legs.long)})

\* The route finds the row open.
Ask(r) ==
  /\ request[r].at = "idle" /\ row > 0 /\ Goes(r, "asked")
  /\ UNCHANGED <<row, legs, working, crossed, moved>>

\* Another request has sized its close and may still fill it.
Closing(r) == request[r].at \in {"sized", "cleared"} \/ working[r] > 0

\* Both legs must be live; the smaller of them is the size.
ReadLegs(r) ==
  /\ request[r].at = "asked"
  /\ IF legs.short = 0 \/ legs.long = 0 THEN Goes(r, "done")
     ELSE request' = [request EXCEPT ![r] = [at |-> "sized", size |-> Held]]
  /\ crossed' = (crossed \/ \E q \in Requests \ {r} : Closing(q))
  /\ UNCHANGED <<row, legs, working, moved>>

\* The cancellation reaches an order or comes too late for it.
CancelOpen(r) ==
  /\ request[r].at = "sized" /\ Goes(r, "cleared")
  /\ \E late \in SUBSET Requests :
       working' = [q \in Requests |-> IF q \in late THEN working[q] ELSE 0]
  /\ UNCHANGED <<row, legs, crossed, moved>>

Place(r) ==
  /\ request[r].at = "cleared" /\ Goes(r, "placed")
  /\ working' = [working EXCEPT ![r] = request[r].size]
  /\ UNCHANGED <<row, legs, crossed, moved>>

\* The combo buys the short leg and sells the long one.
Fill(r) ==
  /\ \E k \in 1 .. working[r] :
       /\ legs' = [short |-> legs.short + k, long |-> legs.long - k]
       /\ working' = [working EXCEPT ![r] = @ - k]
  /\ UNCHANGED <<row, request, crossed, moved>>

\* A filled close books the whole row; any other ending leaves it open.
Returns(r) ==
  /\ request[r].at = "placed" /\ working[r] = 0 /\ Goes(r, "done")
  /\ row' \in {0, row}
  /\ UNCHANGED <<legs, working, crossed, moved>>

\* The wait gives up; the order goes on.
Abandon(r) ==
  /\ request[r].at = "placed" /\ Goes(r, "lost")
  /\ UNCHANGED <<row, legs, working, crossed, moved>>

\* A leg expires, is assigned or is closed at the broker.
LegGoes(leg) ==
  /\ legs[leg] # 0 /\ legs' = [legs EXCEPT ![leg] = 0] /\ moved' = TRUE
  /\ UNCHANGED <<row, request, working, crossed>>

Next ==
  \/ \E r \in Requests :
       \/ Ask(r) \/ ReadLegs(r) \/ CancelOpen(r) \/ Place(r) \/ Fill(r)
       \/ Returns(r) \/ Abandon(r)
  \/ \E leg \in {"short", "long"} : LegGoes(leg)

Spec == Init /\ [][Next]_vars

-----------------------------------------------------------------------------

(***************************************************************************)
(* However far the row has drifted, closing it never turns a leg around:   *)
(* that takes two requests of which one reads the legs while the other's   *)
(* close is under way, or a leg that went away by itself                   *)
(* (close_options_trade sizes from the live legs).                         *)
(***************************************************************************)
ReversalTakesARace ==
  legs.short > 0 \/ legs.long < 0 => crossed \/ moved
=============================================================================
