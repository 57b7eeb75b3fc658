--------------------------- MODULE ExecutionMode ---------------------------
(***************************************************************************)
(* The execution mode: held in memory by ExecutionModeManager, recorded as *)
(* rows of execution_events, read by the scheduler's scan before each      *)
(* signal and restored when the process starts.                            *)
(*                                                                         *)
(* A change is made in memory at once; its row is stamped when its         *)
(* transaction begins (created_at is now()) and visible when it commits.   *)
(***************************************************************************)
EXTENDS Naturals, FiniteSets

CONSTANTS
  Users,        \* requests of POST /execution-mode
  MaxChanges,   \* bound on the mode changes
  MaxSignals,   \* bound on the signals the scan routes
  None          \* no mode, no request

ASSUME ModeAssumption ==
  /\ MaxChanges \in Nat /\ MaxSignals \in Nat
  /\ None \notin {"manual", "copilot", "autopilot"}

Modes == {"manual", "copilot", "autopilot"}

VARIABLES
  mode,     \* ExecutionModeManager._mode
  row,      \* the newest committed row: its mode and its stamp
  request,  \* each request: where set_mode stands, for which mode
  clock,    \* stamps given so far
  changes,  \* mode changes so far
  scan,     \* the scan: whether it is executing a signal
  signals,  \* signals routed so far
  queued,   \* signals queued for approval
  (* history, read by the properties only *)
  acked,    \* the mode an operator was told is set, by a change that
            \* overlapped no other and inserted its row
  strays    \* orders the scan has sent since the mode left autopilot

saved   == <<row, clock>>
routing == <<scan, signals, queued>>
vars == <<mode, saved, request, changes, routing, acked, strays>>

NoRequest == [at |-> "idle", mode |-> None, stamp |-> 0, alone |-> TRUE]

Request == [at : {"idle", "set", "inserting"}, mode : Modes \cup {None},
            stamp : Nat, alone : BOOLEAN]

TypeOK ==
  /\ mode \in Modes /\ row \in [mode : Modes \cup {None}, stamp : Nat]
  /\ request \in [Users -> Request]
  /\ clock \in Nat /\ changes \in 0 .. MaxChanges
  /\ scan \in {"idle", "executing"} /\ signals \in 0 .. MaxSignals
  /\ queued \in 0 .. signals
  /\ acked \in Modes \cup {None}
  /\ strays \in Nat

\* mutant of Default: no mode until rehydrate has run.
DefaultUnset == None

Default == "manual"

Init ==
  /\ mode = Default /\ row = [mode |-> None, stamp |-> 0]
  /\ request = [u \in Users |-> NoRequest]
  /\ clock = 0 /\ changes = 0
  /\ scan = "idle" /\ signals = 0 /\ queued = 0
  /\ acked = None /\ strays = 0

Busy == {u \in Users : request[u] # NoRequest}

-----------------------------------------------------------------------------
(* set_mode, up to each of its awaits.                                     *)

SetMode(u, m) ==
  /\ request[u] = NoRequest /\ changes < MaxChanges
  /\ mode' = m /\ changes' = changes + 1
  /\ request' = [v \in Users |->
       IF v = u THEN [at |-> "set", mode |-> m, stamp |-> 0, alone |-> Busy = {}]
       ELSE IF v \in Busy THEN [request[v] EXCEPT !.alone = FALSE]
       ELSE NoRequest]
  /\ acked' = None
  /\ strays' = IF m = "autopilot" THEN 0 ELSE strays
  /\ UNCHANGED <<saved, routing>>

BeginInsert(u) ==
  /\ request[u].at = "set"
  /\ clock' = clock + 1
  /\ request' = [request EXCEPT ![u] = [@ EXCEPT !.at = "inserting",
                                                !.stamp = clock']]
  /\ UNCHANGED <<mode, row, changes, routing, acked, strays>>

\* mutant of Newest: the rows are read in the other order.
NewestIsOldest(r, s) == IF s.mode = None THEN r ELSE s

\* rehydrate orders the rows by created_at.
Newest(r, s) == IF r.stamp > s.stamp THEN r ELSE s

CommitInsert(u) ==
  /\ request[u].at = "inserting"
  /\ row' = Newest([mode |-> request[u].mode, stamp |-> request[u].stamp], row)
  /\ acked' = IF request[u].alone THEN request[u].mode ELSE acked
  /\ request' = [request EXCEPT ![u] = NoRequest]
  /\ UNCHANGED <<mode, clock, changes, routing, strays>>

\* An error of the database is logged; the caller gets the summary all the same.
InsertFails(u) ==
  /\ request[u].at \in {"set", "inserting"}
  /\ request' = [request EXCEPT ![u] = NoRequest]
  /\ UNCHANGED <<mode, saved, changes, routing, acked, strays>>

-----------------------------------------------------------------------------
(* The scan: handle_signal for one signal after the other.                 *)

\* mutant of RouteExecutes: the mode is not read again for each signal.
RouteExecutesAnyMode ==
  /\ scan = "idle" /\ signals < MaxSignals
  /\ signals > 0 \/ mode = "autopilot"
  /\ scan' = "executing" /\ signals' = signals + 1
  /\ UNCHANGED <<mode, saved, request, changes, queued, acked, strays>>

RouteExecutes ==
  /\ scan = "idle" /\ signals < MaxSignals
  /\ mode = "autopilot"
  /\ scan' = "executing" /\ signals' = signals + 1
  /\ UNCHANGED <<mode, saved, request, changes, queued, acked, strays>>

RouteQueues ==
  /\ scan = "idle" /\ signals < MaxSignals
  /\ mode = "copilot"
  /\ queued' = queued + 1 /\ signals' = signals + 1
  /\ UNCHANGED <<mode, saved, request, changes, scan, acked, strays>>

\* _execute_signal has passed its gates, none of which reads the mode.
SendOrder ==
  /\ scan = "executing" /\ scan' = "idle"
  /\ strays' = IF mode = "autopilot" THEN strays ELSE strays + 1
  /\ UNCHANGED <<mode, saved, request, changes, signals, queued, acked>>

\* A gate refuses, or _guarded cancels the scan.
ScanStops ==
  /\ scan = "executing" /\ scan' = "idle"
  /\ UNCHANGED <<mode, saved, request, changes, signals, queued, acked, strays>>

-----------------------------------------------------------------------------
\* The process stops; the open transactions roll back.  rehydrate then finds
\* the newest row, none, or fails, which leaves manual.
Restart ==
  /\ changes < MaxChanges
  /\ changes' = changes + 1
  /\ request' = [u \in Users |-> NoRequest] /\ scan' = "idle"
  /\ mode' \in {IF row.mode = None THEN "manual" ELSE row.mode, "manual"}
  /\ strays' = IF mode' = "autopilot" THEN 0 ELSE strays
  /\ UNCHANGED <<saved, signals, queued, acked>>

Next ==
  \/ \E u \in Users :
       \/ \E m \in Modes : SetMode(u, m)
       \/ BeginInsert(u) \/ CommitInsert(u) \/ InsertFails(u)
  \/ RouteExecutes \/ RouteQueues \/ SendOrder \/ ScanStops \/ Restart

Spec == Init /\ [][Next]_vars

-----------------------------------------------------------------------------
(* Properties.                                                             *)

(***************************************************************************)
(* A mode set by a change that overlapped no other and inserted its row is *)
(* the mode until the next change, restarts and unreadable rows included,  *)
(* or manual: never an older one (set_mode, rehydrate).                    *)
(***************************************************************************)
AckedModeSurvives == acked # None => mode \in {acked, "manual"}

(***************************************************************************)
(* Leaving autopilot stops the scan: at most the one execution under way   *)
(* still sends its order (handle_signal reads the mode for each signal).   *)
(***************************************************************************)
OneStray == strays <= 1
=============================================================================
