------------------------------ MODULE Sessions ------------------------------
(***************************************************************************)
(* Login sessions: rows of user_sessions, the cookie that names one, the   *)
(* dependency that resolves it on every protected route, and logout.  Each *)
(* talks to the database over several awaits, and any of them may fail.    *)
(***************************************************************************)
EXTENDS Integers, FiniteSets, Functions

CONSTANTS
  Tokens,      \* sessions that may be opened
  Requests,    \* requests to protected routes that may overlap
  MaxAttempts,    \* LOGIN_MAX_ATTEMPTS
  Window,      \* LOGIN_WINDOW_S
  MaxTime, MaxFaults, None

VARIABLES
  row,       \* each session's row: missing, live, revoked or expired
  enabled,   \* User.is_active
  login,     \* the login under way: where it is
  logout,    \* each session's logout: where it is
  request,   \* each request: where it is, its cookie, the row it read
  log,       \* _login_log of one caller: how many of its entries are of each time
  now, faults,
  (* history, read by the properties only *)
  told,      \* sessions whose logout has answered {"ok": true}
  admitted,  \* a request that came after that, or after the account was
             \* disabled, has been let in
  let        \* attempts let through at each time

vars == <<row, enabled, login, logout, request, log, now, faults, told, admitted, let>>

Times == 0 .. MaxTime

NoRequest == [at |-> "idle", token |-> None, late |-> FALSE, read |-> None]

TypeOK ==
  /\ row \in [Tokens -> {"missing", "live", "revoked", "expired"}]
  /\ enabled \in BOOLEAN /\ admitted \in BOOLEAN
  /\ login \in {"idle", "checking", "storing"}
  /\ logout \in [Tokens -> {"idle", "reading", "committing"}]
  /\ \A r \in Requests :
       /\ request[r].at \in {"idle", "reading", "touching"}
       /\ request[r].token \in Tokens \cup {None}
  /\ log \in [Times -> 0 .. MaxAttempts] /\ now \in Times
  /\ faults \in 0 .. MaxFaults /\ told \subseteq Tokens

Init ==
  /\ row = [t \in Tokens |-> "missing"] /\ enabled = TRUE
  /\ login = "idle" /\ logout = [t \in Tokens |-> "idle"]
  /\ request = [r \in Requests |-> NoRequest]
  /\ log = [t \in Times |-> 0] /\ now = 0 /\ faults = 0
  /\ told = {} /\ admitted = FALSE /\ let = [t \in Times |-> 0]

Fault == faults < MaxFaults /\ faults' = faults + 1

-----------------------------------------------------------------------------
(* Login.                                                                  *)

\* The times whose attempts still count.
Recent == {t \in 0 .. now : now - t < Window}

\* login_rate_limit answers 429 and records nothing, or records the attempt.
LoginArrives ==
  /\ login = "idle" /\ SumFunctionOnSet(log, Recent) < MaxAttempts
  /\ log' = [t \in Times |-> IF t = now THEN log[t] + 1 ELSE IF t \in Recent THEN log[t] ELSE 0]
  /\ let' = [let EXCEPT ![now] = @ + 1]
  /\ login' = "checking"
  /\ UNCHANGED <<row, enabled, logout, request, now, faults, told, admitted>>

\* A wrong password, a disabled account, or a failed statement.
LoginFails ==
  /\ login # "idle" /\ login' = "idle"
  /\ UNCHANGED <<row, enabled, logout, request, log, now, faults, told, admitted, let>>

LoginPasses ==
  /\ login = "checking" /\ enabled /\ login' = "storing"
  /\ UNCHANGED <<row, enabled, logout, request, log, now, faults, told, admitted, let>>

LoginCommits ==
  /\ login = "storing" /\ login' = "idle"
  /\ \E t \in Tokens : row[t] = "missing" /\ row' = [row EXCEPT ![t] = "live"]
  /\ UNCHANGED <<enabled, logout, request, log, now, faults, told, admitted, let>>

-----------------------------------------------------------------------------
(* Logout: revoke the row, then answer.                                    *)

LogoutArrives(t) ==
  /\ logout[t] = "idle" /\ row[t] # "missing"
  /\ logout' = [logout EXCEPT ![t] = "reading"]
  /\ UNCHANGED <<row, enabled, login, request, log, now, faults, told, admitted, let>>

\* A row that is revoked already is left alone.
LogoutReads(t) ==
  /\ logout[t] = "reading"
  /\ logout' = [logout EXCEPT ![t] = IF row[t] = "revoked" THEN "idle" ELSE "committing"]
  /\ told' = IF row[t] = "revoked" THEN told \cup {t} ELSE told
  /\ UNCHANGED <<row, enabled, login, request, log, now, faults, admitted, let>>

LogoutCommits(t) ==
  /\ logout[t] = "committing" /\ logout' = [logout EXCEPT ![t] = "idle"]
  /\ row' = [row EXCEPT ![t] = "revoked"] /\ told' = told \cup {t}
  /\ UNCHANGED <<enabled, login, request, log, now, faults, admitted, let>>

\* The row could not be revoked: the cookie is gone and the answer is 503.
LogoutFails(t) ==
  /\ logout[t] # "idle" /\ Fault /\ logout' = [logout EXCEPT ![t] = "idle"]
  /\ UNCHANGED <<row, enabled, login, request, log, now, told, admitted, let>>

-----------------------------------------------------------------------------
(* A protected route: require_session.                                     *)

RequestArrives(r, t) ==
  /\ request[r] = NoRequest /\ row[t] # "missing"
  /\ request' = [request EXCEPT ![r] = [at |-> "reading", token |-> t, read |-> None,
                                        late |-> t \in told \/ ~enabled]]
  /\ UNCHANGED <<row, enabled, login, logout, log, now, faults, told, admitted, let>>

\* is_session_valid and is_active; a read that fails lets nobody in.
Resolve(r) ==
  /\ request[r].at = "reading"
  /\ LET t == request[r].token
     IN  IF row[t] = "live" /\ enabled
         THEN \* last_seen_at is written now and then
              /\ \E stale \in BOOLEAN :
                   request' = [request EXCEPT ![r] =
                     IF stale THEN [@ EXCEPT !.at = "touching", !.read = row[t]]
                     ELSE NoRequest]
              /\ admitted' = (admitted \/ request[r].late)
         ELSE /\ request' = [request EXCEPT ![r] = NoRequest]
              /\ UNCHANGED admitted
  /\ UNCHANGED <<row, enabled, login, logout, log, now, faults, told, let>>

ResolveFails(r) ==
  /\ request[r].at = "reading" /\ Fault
  /\ request' = [request EXCEPT ![r] = NoRequest]
  /\ UNCHANGED <<row, enabled, login, logout, log, now, told, admitted, let>>

\* mutant of Touched: the row is written back as it was read.
TouchedWhole(r) == [row EXCEPT ![request[r].token] = request[r].read]

\* The UPDATE names last_seen_at alone.
Touched(r) == row

\* The request has been let in whether or not the write goes through.
Touch(r) ==
  /\ request[r].at = "touching"
  /\ row' \in {row, Touched(r)}
  /\ request' = [request EXCEPT ![r] = NoRequest]
  /\ UNCHANGED <<enabled, login, logout, log, now, faults, told, admitted, let>>

-----------------------------------------------------------------------------

DisableAccount ==
  /\ enabled /\ enabled' = FALSE
  /\ UNCHANGED <<row, login, logout, request, log, now, faults, told, admitted, let>>

Tick ==
  /\ now < MaxTime /\ now' = now + 1
  /\ \E old \in SUBSET {t \in Tokens : row[t] = "live"} :
       row' = [t \in Tokens |-> IF t \in old THEN "expired" ELSE row[t]]
  /\ UNCHANGED <<enabled, login, logout, request, log, faults, told, admitted, let>>

Next ==
  \/ LoginArrives \/ LoginFails \/ LoginPasses \/ LoginCommits
  \/ \E t \in Tokens :
       \/ LogoutArrives(t) \/ LogoutReads(t) \/ LogoutCommits(t) \/ LogoutFails(t)
       \/ \E r \in Requests : RequestArrives(r, t)
  \/ \E r \in Requests : Resolve(r) \/ ResolveFails(r) \/ Touch(r)
  \/ DisableAccount \/ Tick

Spec == Init /\ [][Next]_vars

-----------------------------------------------------------------------------
(* Properties.                                                             *)

(***************************************************************************)
(* A logout that answered ok, and an account disabled, let no later        *)
(* request in, whatever failed and whatever was written back meanwhile     *)
(* ("end that session now has to actually work", models/user.py).  And no  *)
(* window, wherever it begins, holds more attempts than login_rate_limit   *)
(* allows, though it only ever looks back from an attempt.                 *)
(***************************************************************************)
NobodySlipsIn ==
  /\ ~admitted
  /\ \A t \in Times : SumFunctionOnSet(let, {u \in t .. MaxTime : u < t + Window}) <= MaxAttempts
=============================================================================
