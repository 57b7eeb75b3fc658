----------------------------- MODULE KillSwitch -----------------------------
(***************************************************************************)
(* The emergency stop of the trading process and everything it races with: *)
(* the KillSwitch service, its second flag in the trade-desk routes, the   *)
(* guardrail_events rows a restart reads it back from, the operators'      *)
(* requests, and the order executions in flight when one of them lands.    *)
(*                                                                         *)
(* The process is one asyncio loop: code between two awaits is one step    *)
(* here, every await is a place where any other task may run.  A ticker    *)
(* has at most one execution task and one entry order at the broker.       *)
(***************************************************************************)
EXTENDS Naturals

CONSTANTS
  Requests,     \* HTTP request tasks that may engage or reset the switch
  Tickers,      \* underlyings the execution pipeline trades
  MaxRetries,   \* MAX_ORDER_RETRIES: resubmissions of one limit order
  None          \* no request

ASSUME RetriesAssumption == MaxRetries \in Nat
ASSUME NoneAssumption == None \notin Requests

VARIABLES
  proc,         \* "down" or "up": the backend process
  engaged,      \* KillSwitch._engaged
  reason,       \* KillSwitch._reason
  unverified,   \* KillSwitch._rehydrate_unverified
  wired,        \* KillSwitch._broker is configured
  mirror,       \* trade_desk._kill_switch, a threading.Event
  lastEvent,    \* type of the newest kill_switch* row of guardrail_events
  req,          \* where each request task is suspended
  snap,         \* the positions an engage call is flattening
  exec,         \* where each execution task is suspended
  tries,        \* resubmissions an execution has made
  orders,       \* tickers with an entry order working at the broker
  cancelling,   \* working orders with a cancel request outstanding
  held,         \* tickers with a live position
  (* history, read by the properties only *)
  leader,       \* the request whose engage() began the present halt
  flattened,    \* that engage() has finished flattening
  exempt,       \* positions that engage() cannot be expected to have closed
  ack,          \* an operator was told the halt is in force and persisted
  resetVia,     \* route of the last reset
  deadEngaged   \* an operator's halt was in force when the process last died

memory  == <<engaged, reason, unverified, wired, mirror>>
broker  == <<orders, cancelling, held>>
tasks   == <<exec, tries>>
history == <<leader, flattened, exempt, ack, resetVia, deadEngaged>>
vars == <<proc, memory, lastEvent, req, snap, tasks, broker, history>>

EventTypes == {"none", "kill_switch", "kill_switch_reset"}
Reasons    == {"none", "operator", "restored", "unreadable"}
ReqPlaces  == {"idle", "positions", "flatten", "persist",
               "desk_reset", "risk_reset"}
ExecPlaces == {"idle", "gating", "working", "repricing"}

TypeOK ==
  /\ proc \in {"down", "up"}
  /\ engaged \in BOOLEAN /\ unverified \in BOOLEAN
  /\ wired \in BOOLEAN /\ mirror \in BOOLEAN
  /\ reason \in Reasons
  /\ lastEvent \in EventTypes
  /\ req \in [Requests -> ReqPlaces]
  /\ snap \in [Requests -> SUBSET Tickers]
  /\ exec \in [Tickers -> ExecPlaces]
  /\ tries \in [Tickers -> 0 .. MaxRetries]
  /\ orders \subseteq Tickers /\ cancelling \subseteq orders
  /\ held \subseteq Tickers
  /\ leader \in Requests \cup {None}
  /\ flattened \in BOOLEAN /\ exempt \subseteq Tickers
  /\ ack \in BOOLEAN /\ resetVia \in {"none", "desk", "risk"}
  /\ deadEngaged \in BOOLEAN

\* mutant of Active: the gate reads the trade-desk flag only.
ActiveMirrorOnly == mirror

\* trade_desk._is_kill_switch_active: either flag halts order submission.
Active == mirror \/ engaged

Resetting(r) == req[r] \in {"desk_reset", "risk_reset"}

Init ==
  /\ proc = "down" /\ lastEvent = "none"
  /\ engaged = FALSE /\ reason = "none" /\ unverified = FALSE
  /\ wired = FALSE /\ mirror = FALSE
  /\ req = [r \in Requests |-> "idle"]
  /\ snap = [r \in Requests |-> {}]
  /\ exec = [t \in Tickers |-> "idle"]
  /\ tries = [t \in Tickers |-> 0]
  /\ orders = {} /\ cancelling = {} /\ held = {}
  /\ leader = None /\ flattened = FALSE /\ exempt = {}
  /\ ack = FALSE /\ resetVia = "none" /\ deadEngaged = FALSE

-----------------------------------------------------------------------------
(* Engaging.                                                               *)

\* mutant of ServiceEngage: engage() does not cancel the open orders.
ServiceEngageNoCancel(r) ==
  /\ ~engaged
  /\ engaged' = TRUE /\ reason' = "operator"
  /\ req' = [req EXCEPT ![r] = IF wired THEN "positions" ELSE "persist"]
  /\ leader' = r /\ flattened' = FALSE
  /\ exempt' = orders \cup {t \in Tickers : exec[t] # "idle"}
  /\ UNCHANGED <<cancelling, ack>>

(***************************************************************************)
(* KillSwitch.engage up to its first await: raise the flag (the lock is    *)
(* never contended, its critical sections hold no await), then send a      *)
(* cancel for every order open at the broker.  Without a configured broker *)
(* the cancel and the flatten are skipped.  A second call on an engaged    *)
(* switch returns at once.                                                 *)
(***************************************************************************)
ServiceEngage(r) ==
  \/ /\ engaged
     /\ UNCHANGED <<engaged, reason, req, cancelling, leader, flattened,
                    exempt, ack>>
  \/ /\ ~engaged
     /\ engaged' = TRUE /\ reason' = "operator"
     /\ cancelling' = IF wired THEN orders ELSE cancelling
     /\ req' = [req EXCEPT ![r] = IF wired THEN "positions" ELSE "persist"]
     /\ leader' = r /\ flattened' = FALSE
     /\ exempt' = orders \cup {t \in Tickers : exec[t] # "idle"}
     /\ UNCHANGED ack

\* POST /trade-desk/kill-switch {engaged: true}
DeskEngage(r) ==
  /\ proc = "up" /\ req[r] = "idle"
  /\ mirror' = TRUE
  /\ ServiceEngage(r)
  /\ UNCHANGED <<proc, unverified, wired, lastEvent, snap, tasks, orders,
                 held, resetVia, deadEngaged>>

\* POST /risk/kill-switch/engage and /trigger: only the service's flag.
RiskEngage(r) ==
  /\ proc = "up" /\ req[r] = "idle"
  /\ ~engaged
  /\ ServiceEngage(r)
  /\ UNCHANGED <<proc, unverified, wired, mirror, lastEvent, snap, tasks,
                 orders, held, resetVia, deadEngaged>>

\* engage() has the broker's positions and fires one market order for each.
ReadPositions(r) ==
  /\ req[r] = "positions"
  /\ snap' = [snap EXCEPT ![r] = held]
  /\ req' = [req EXCEPT ![r] = "flatten"]
  /\ UNCHANGED <<proc, memory, lastEvent, tasks, broker, history>>

(***************************************************************************)
(* gather() returns: the closing orders in failed were rejected, raised,   *)
(* were left working or only partly filled; engage() notes it and goes on. *)
(***************************************************************************)
Flatten(r) ==
  /\ req[r] = "flatten"
  /\ \E failed \in SUBSET snap[r] :
       /\ held' = held \ (snap[r] \ failed)
       /\ exempt' = IF leader = r THEN exempt \cup failed ELSE exempt
  /\ flattened' = (flattened \/ leader = r)
  /\ snap' = [snap EXCEPT ![r] = {}]
  /\ req' = [req EXCEPT ![r] = "persist"]
  /\ UNCHANGED <<proc, memory, lastEvent, tasks, orders, cancelling, leader,
                 ack, resetVia, deadEngaged>>

\* engage() commits its GuardrailEvent last; a failed commit is only logged.
PersistEngage(r) ==
  /\ req[r] = "persist"
  /\ \/ /\ lastEvent' = "kill_switch"
        /\ ack' = (ack \/ (/\ engaged /\ leader = r
                           /\ \A q \in Requests : ~Resetting(q)))
     \/ UNCHANGED <<lastEvent, ack>>
  /\ req' = [req EXCEPT ![r] = "idle"]
  /\ UNCHANGED <<proc, memory, snap, tasks, broker, leader, flattened,
                 exempt, resetVia, deadEngaged>>

-----------------------------------------------------------------------------
(* Resetting, with the authorization code accepted (a refused code changes *)
(* nothing).                                                               *)

\* KillSwitch.reset up to the await of its database write.
ServiceReset(r, place) ==
  /\ proc = "up" /\ req[r] = "idle"
  /\ engaged' = FALSE /\ reason' = "none"
  /\ req' = [req EXCEPT ![r] = place]
  /\ leader' = None /\ flattened' = FALSE /\ ack' = FALSE
  /\ UNCHANGED <<proc, unverified, wired, mirror, lastEvent, snap, tasks,
                 broker, exempt, deadEngaged>>

DeskReset(r) == ServiceReset(r, "desk_reset") /\ resetVia' = "desk"
RiskReset(r) == ServiceReset(r, "risk_reset") /\ resetVia' = "risk"

\* mutant of FinishReset: no route clears the trade-desk flag.
FinishResetKeepsMirror(r) ==
  /\ Resetting(r)
  /\ \/ lastEvent' = "kill_switch_reset"
     \/ UNCHANGED lastEvent
  /\ req' = [req EXCEPT ![r] = "idle"]
  /\ UNCHANGED <<proc, memory, snap, tasks, broker, history>>

\* The reset row commits, or fails and is only logged; then the trade-desk
\* route, and only that route, clears its own flag.
FinishReset(r) ==
  /\ Resetting(r)
  /\ \/ lastEvent' = "kill_switch_reset"
     \/ UNCHANGED lastEvent
  /\ mirror' = (mirror /\ req[r] # "desk_reset")
  /\ req' = [req EXCEPT ![r] = "idle"]
  /\ UNCHANGED <<proc, engaged, reason, unverified, wired, snap, tasks,
                 broker, history>>

-----------------------------------------------------------------------------
(* Executions.                                                             *)

\* mutant of StageOne: an execution starts without looking at the switch.
StageOneUnguarded(t) ==
  /\ proc = "up" /\ exec[t] = "idle"
  /\ exec' = [exec EXCEPT ![t] = "gating"]
  /\ UNCHANGED <<proc, memory, lastEvent, req, snap, tries, broker, history>>

\* _execute_signal, Stage 1: the only look an execution takes at the switch.
StageOne(t) ==
  /\ proc = "up" /\ exec[t] = "idle"
  /\ ~Active
  /\ exec' = [exec EXCEPT ![t] = "gating"]
  /\ UNCHANGED <<proc, memory, lastEvent, req, snap, tries, broker, history>>

\* A later gate declines the signal.
Decline(t) ==
  /\ exec[t] = "gating"
  /\ exec' = [exec EXCEPT ![t] = "idle"]
  /\ UNCHANGED <<proc, memory, lastEvent, req, snap, tries, broker, history>>

\* Every gate passed: the entry order goes to the broker.
Submit(t) ==
  /\ exec[t] = "gating"
  /\ t \notin orders \cup held
  /\ orders' = orders \cup {t}
  /\ exec' = [exec EXCEPT ![t] = "working"]
  /\ tries' = [tries EXCEPT ![t] = 0]
  /\ UNCHANGED <<proc, memory, lastEvent, req, snap, cancelling, held, history>>

\* The limit order has not filled in time: cancel it and wait for the cancel.
TimeOut(t) ==
  /\ exec[t] = "working" /\ t \in orders
  /\ cancelling' = cancelling \cup {t}
  /\ exec' = [exec EXCEPT ![t] = "repricing"]
  /\ UNCHANGED <<proc, memory, lastEvent, req, snap, tries, orders, held,
                 history>>

\* mutant of Resubmit: one attempt too many.
ResubmitOneMore(t) ==
  /\ exec[t] = "repricing" /\ tries[t] <= MaxRetries
  /\ t \notin orders
  /\ orders' = orders \cup {t}
  /\ tries' = [tries EXCEPT ![t] = @ + 1]
  /\ exec' = [exec EXCEPT ![t] = "working"]
  /\ UNCHANGED <<proc, memory, lastEvent, req, snap, cancelling, held, history>>

\* mutant of Resubmit: attempts are not counted.
ResubmitForever(t) ==
  /\ exec[t] = "repricing" /\ tries[t] < MaxRetries
  /\ t \notin orders
  /\ orders' = orders \cup {t}
  /\ exec' = [exec EXCEPT ![t] = "working"]
  /\ UNCHANGED <<proc, memory, lastEvent, req, snap, tries, cancelling, held,
                 history>>

\* Resubmission at a better price, as long as attempts are left.
Resubmit(t) ==
  /\ exec[t] = "repricing" /\ tries[t] < MaxRetries
  /\ t \notin orders
  /\ orders' = orders \cup {t}
  /\ tries' = [tries EXCEPT ![t] = @ + 1]
  /\ exec' = [exec EXCEPT ![t] = "working"]
  /\ UNCHANGED <<proc, memory, lastEvent, req, snap, cancelling, held, history>>

\* The order call returns: its order is gone, or its attempts are used up.
OrderDone(t) ==
  /\ \/ exec[t] = "working" /\ t \notin orders
     \/ exec[t] = "repricing" /\ tries[t] = MaxRetries
  /\ exec' = [exec EXCEPT ![t] = "idle"]
  /\ tries' = [tries EXCEPT ![t] = 0]
  /\ UNCHANGED <<proc, memory, lastEvent, req, snap, broker, history>>

-----------------------------------------------------------------------------
(* The broker.                                                             *)

\* A working order fills, a requested cancel or not.
BrokerFill(t) ==
  /\ t \in orders
  /\ orders' = orders \ {t} /\ cancelling' = cancelling \ {t}
  /\ held' = held \cup {t}
  /\ UNCHANGED <<proc, memory, lastEvent, req, snap, tasks, history>>

\* A working order ends unfilled: cancelled, rejected, or its day is over.
BrokerCancel(t) ==
  /\ t \in orders
  /\ orders' = orders \ {t} /\ cancelling' = cancelling \ {t}
  /\ UNCHANGED <<proc, memory, lastEvent, req, snap, tasks, held, history>>

\* A protective leg or a hand trade in TWS closes a position.
BrokerExit(t) ==
  /\ t \in held
  /\ held' = held \ {t}
  /\ UNCHANGED <<proc, memory, lastEvent, req, snap, tasks, orders,
                 cancelling, history>>

-----------------------------------------------------------------------------
(* Crash and start-up.                                                     *)

\* The process dies: tasks and memory are gone, the database and the
\* broker's book stay.
Crash ==
  /\ proc = "up"
  /\ proc' = "down"
  /\ engaged' = FALSE /\ reason' = "none" /\ unverified' = FALSE
  /\ wired' = FALSE /\ mirror' = FALSE
  /\ req' = [r \in Requests |-> "idle"]
  /\ snap' = [r \in Requests |-> {}]
  /\ exec' = [t \in Tickers |-> "idle"]
  /\ tries' = [t \in Tickers |-> 0]
  /\ leader' = None /\ flattened' = FALSE
  /\ deadEngaged' = (reason = "operator")
  /\ UNCHANGED <<lastEvent, broker, exempt, ack, resetVia>>

Booted ==
  /\ proc = "down" /\ proc' = "up"
  /\ UNCHANGED <<mirror, lastEvent, req, snap, tasks, broker, leader,
                 flattened, exempt, resetVia, deadEngaged>>

\* on_startup wires the broker and rehydrate() reads the newest row.
BootRead ==
  /\ Booted /\ wired' = TRUE
  /\ engaged' = (lastEvent = "kill_switch")
  /\ reason' = IF lastEvent = "kill_switch" THEN "restored" ELSE "none"
  /\ UNCHANGED <<unverified, ack>>

\* mutant of BootUnreadable: an unreadable database leaves the switch clear.
BootUnreadableFailsOpen ==
  /\ Booted /\ wired' = TRUE
  /\ UNCHANGED <<engaged, reason, unverified, ack>>

\* The database cannot be read in three attempts: rehydrate() fails closed.
BootUnreadable ==
  /\ Booted /\ wired' = TRUE
  /\ engaged' = TRUE /\ reason' = "unreadable" /\ unverified' = TRUE
  /\ UNCHANGED ack

\* The broker cannot be constructed: the same try block holds configure()
\* and rehydrate(), so neither runs, and the process starts all the same.
BootBlind ==
  /\ Booted
  /\ ack' = FALSE
  /\ UNCHANGED <<engaged, reason, unverified, wired>>

-----------------------------------------------------------------------------
RequestStep(r) ==
  \/ ReadPositions(r) \/ Flatten(r) \/ PersistEngage(r) \/ FinishReset(r)

ExecStep(t) ==
  Decline(t) \/ Submit(t) \/ TimeOut(t) \/ Resubmit(t) \/ OrderDone(t)

Next ==
  \/ \E r \in Requests :
       \/ DeskEngage(r) \/ RiskEngage(r) \/ DeskReset(r) \/ RiskReset(r)
       \/ RequestStep(r)
  \/ \E t \in Tickers :
       \/ StageOne(t) \/ ExecStep(t)
       \/ BrokerFill(t) \/ BrokerCancel(t) \/ BrokerExit(t)
  \/ Crash \/ BootRead \/ BootUnreadable \/ BootBlind

Spec == Init /\ [][Next]_vars

(***************************************************************************)
(* A started task is resumed by the loop, and every entry order has        *)
(* time-in-force DAY, so the broker ends it one way or the other.  Nobody  *)
(* is obliged to send a request, to crash or to restart the process.       *)
(***************************************************************************)
Fairness ==
  /\ \A r \in Requests : WF_vars(RequestStep(r))
  /\ \A t \in Tickers : /\ WF_vars(ExecStep(t))
                        /\ WF_vars(BrokerFill(t) \/ BrokerCancel(t))

FairSpec == Spec /\ Fairness
-----------------------------------------------------------------------------
(* Properties the code has.                                                *)

(***************************************************************************)
(* A halt an operator was told about, engage() having returned with its    *)
(* row committed while no reset was under way, is in force in every later  *)
(* life of the process, until somebody starts a reset (KillSwitch.engage,  *)
(* rehydrate).  A start-up that skipped rehydrate() voids the assurance.   *)
(***************************************************************************)
AckedHaltSurvives == ack /\ proc = "up" => engaged

(***************************************************************************)
(* Once the engage() that began the present halt has flattened the book,   *)
(* the only positions left or appearing are those whose closing order      *)
(* failed and those of executions or orders that were already under way    *)
(* when the flag went up (kill_switch.py, steps 1 to 3 of engage).         *)
(***************************************************************************)
FlattenedBook == flattened => held \subseteq exempt

(***************************************************************************)
(* While a halt that engage() began stands, every order still working has  *)
(* a cancel outstanding or an execution that watches it; none of an        *)
(* earlier life of the process is left to itself (engage, step 2).         *)
(***************************************************************************)
HaltedOrdersAreManaged ==
  leader # None /\ wired =>
    \A t \in orders \ cancelling : exec[t] = "working"

(***************************************************************************)
(* An order sent while the switch is engaged comes from an execution that  *)
(* had passed Stage 1 before this halt began; a halt restored by a restart *)
(* sees no order at all (_execute_signal, Stage 1).                        *)
(***************************************************************************)
LateOrdersWereInFlight ==
  [][\A t \in orders' \ orders :
       engaged => leader # None /\ t \in exempt]_vars

(***************************************************************************)
(* The trade-desk flag halts trading on its own, the service being clear,  *)
(* only while a trade-desk reset is about to clear it or after a reset     *)
(* through the risk route, which never clears it.                          *)
(***************************************************************************)
PhantomHaltOnlyFromRiskReset ==
  mirror /\ ~engaged =>
    resetVia = "risk" \/ \E r \in Requests : req[r] = "desk_reset"

(***************************************************************************)
(* A halt that lasts drains the pipeline: every execution in flight ends   *)
(* and no entry order stays at the broker (_execute_signal, place_order).  *)
(***************************************************************************)
HaltDrains ==
  <>[](Active /\ proc = "up")
    => <>[](orders = {} /\ \A t \in Tickers : exec[t] = "idle")

-----------------------------------------------------------------------------
(* What the repository says of the switch and the code does not do.        *)

(***************************************************************************)
(* rehydrate: "if it was engaged when the process died/restarted, it MUST  *)
(* come back engaged" (kill_switch.py).                                    *)
(***************************************************************************)
EngagedComesBackEngaged ==
  [][proc = "down" /\ proc' = "up" /\ deadEngaged => engaged']_vars

=============================================================================
