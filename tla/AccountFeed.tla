----------------------------- MODULE AccountFeed -----------------------------
(***************************************************************************)
(* The account values of the gateway client (broker/ibkr_client.py:        *)
(* get_account_summary and the subscription behind it) and their readers:  *)
(* get_account_value (services/account_state.py), which calls it directly  *)
(* under a timeout, and the workers of the coordinator, which await it.    *)
(*                                                                         *)
(* TWS pushes values into a cache while a subscription is open.  At most   *)
(* one attempt to subscribe is under way; those who find nothing cached    *)
(* wait for it together, each behind a shield.  A fresh attempt first      *)
(* closes whatever subscription TWS may hold.  connect() discards an       *)
(* attempt of the old connection by cancelling it; a cancellation is no    *)
(* Exception, so it passes through every handler of those who wait.        *)
(***************************************************************************)
EXTENDS Naturals

CONSTANTS
  None,
  Direct,       \* callers of get_account_value
  Workers,      \* workers of the coordinator
  Limit         \* ticks after which values count as stale

VARIABLES
  up,           \* the connection to the gateway is up
  stream,       \* TWS pushes values on this connection
  filled,       \* the cache holds values
  lastPush,     \* ticks since a value arrived, by the client's stamp; None: never
  pushed,       \* the same, of this connection and by the facts
  subscribed,   \* a subscription was acknowledged on this connection
  attempt,      \* the attempt to subscribe
  caller,       \* per reader: what it is doing
  answer,       \* per reader: its last answer, as marked and as it was
  outlived      \* an attempt was still running when its connection was replaced

vars == <<up, stream, filled, lastPush, pushed, subscribed, attempt, caller, answer,
          outlived>>

Readers == Direct \cup Workers

Running == {"asking", "orphaned"}

Older(age) == IF age = None \/ age > Limit THEN age ELSE age + 1

\* mutant of Summary: what is cached always counts as current.
SummaryAlwaysCurrent == [current |-> TRUE, empty |-> ~filled, age |-> pushed]

\* What get_account_summary returns now: values that never came are not stale.
Summary == [current |-> lastPush = None \/ lastPush <= Limit,
            empty   |-> ~filled,
            age     |-> pushed]

\* The attempt is over: those who wait read the cache, or raise when it is empty.
Woken(summary) ==
  /\ caller' = [c \in Readers |-> IF caller[c] = "waiting" THEN "idle" ELSE caller[c]]
  /\ answer' = [c \in Readers |-> IF caller[c] = "waiting" THEN summary ELSE answer[c]]

Init ==
  /\ up = TRUE /\ stream \in BOOLEAN /\ filled = FALSE
  /\ lastPush = None /\ pushed = None
  /\ subscribed = FALSE /\ attempt = "none"
  /\ caller = [c \in Readers |-> "idle"]
  /\ answer = [c \in Readers |-> None]
  /\ outlived = FALSE

\* TWS pushes a value; the client stamps its arrival.
Push ==
  /\ up /\ stream
  /\ filled' = TRUE /\ lastPush' = 0 /\ pushed' = 0
  /\ UNCHANGED <<up, stream, subscribed, attempt, caller, answer, outlived>>

\* Time passes without a push.
Tick ==
  /\ lastPush' = Older(lastPush) /\ pushed' = Older(pushed)
  /\ UNCHANGED <<up, stream, filled, subscribed, attempt, caller, answer, outlived>>

\* The stream goes quiet, or begins without an acknowledgement.
StreamTurns ==
  /\ up
  /\ stream' = ~stream
  /\ stream' => attempt \in Running
  /\ UNCHANGED <<up, filled, lastPush, pushed, subscribed, attempt, caller, answer,
                 outlived>>

\* The connection drops: its cache is cleared and an attempt fails with it,
\* unless its request had been replaced at the library by another one.
Drop ==
  /\ up
  /\ up' = FALSE /\ stream' = FALSE /\ filled' = FALSE /\ pushed' = None
  /\ \/ /\ attempt = "asking"
        /\ attempt' = "failed" /\ Woken(None)
     \/ /\ attempt' = IF attempt = "asking" THEN "orphaned" ELSE attempt
        /\ UNCHANGED <<caller, answer>>
  /\ UNCHANGED <<lastPush, subscribed, outlived>>

\* connect(): forget the old connection's subscription, attempt and stamp.
\* Whoever waits for an attempt that is cancelled is cancelled with it.
Connect ==
  /\ ~up
  /\ up' \in BOOLEAN
  /\ stream' \in IF up' THEN BOOLEAN ELSE {FALSE}
  /\ subscribed' = FALSE /\ lastPush' = None /\ attempt' = "none"
  /\ outlived' = (outlived \/ attempt \in Running)
  /\ caller' = [c \in Readers |-> IF caller[c] = "waiting" THEN "cancelled" ELSE caller[c]]
  /\ UNCHANGED <<filled, pushed, answer>>

\* get_account_summary: start an attempt when none is under way, then answer
\* from the cache or wait for the attempt.
Call(c) ==
  /\ up /\ caller[c] = "idle"
  /\ IF ~subscribed /\ attempt \notin Running
     THEN attempt' = "asking" /\ stream' = FALSE
     ELSE UNCHANGED <<attempt, stream>>
  /\ IF subscribed \/ filled
     THEN answer' = [answer EXCEPT ![c] = Summary] /\ UNCHANGED caller
     ELSE caller' = [caller EXCEPT ![c] = "waiting"] /\ UNCHANGED answer
  /\ UNCHANGED <<up, filled, lastPush, pushed, subscribed, outlived>>

\* TWS acknowledges the subscription and sends the values.
Acknowledged ==
  /\ up /\ attempt = "asking"
  /\ subscribed' = TRUE /\ attempt' = "done" /\ stream' = TRUE
  /\ filled' = TRUE /\ lastPush' = 0 /\ pushed' = 0
  /\ Woken([current |-> TRUE, empty |-> FALSE, age |-> 0])
  /\ UNCHANGED <<up, outlived>>

\* The attempt times out.
GivenUp ==
  /\ attempt \in Running
  /\ attempt' = "failed"
  /\ Woken(IF filled THEN Summary ELSE None)
  /\ UNCHANGED <<up, stream, filled, lastPush, pushed, subscribed, outlived>>

\* get_account_value gives up and uses the starting capital; the shield keeps
\* the attempt running for the others.
TimeOut(c) ==
  /\ caller[c] = "waiting"
  /\ caller' = [caller EXCEPT ![c] = "idle"]
  /\ answer' = [answer EXCEPT ![c] = None]
  /\ UNCHANGED <<up, stream, filled, lastPush, pushed, subscribed, attempt, outlived>>

Next ==
  \/ Push \/ Tick \/ StreamTurns \/ Drop \/ Connect \/ Acknowledged \/ GivenUp
  \/ \E c \in Readers : Call(c)
  \/ \E c \in Direct : TimeOut(c)

-----------------------------------------------------------------------------
TypeOK ==
  /\ lastPush \in 0..Limit + 1 \cup {None} /\ pushed \in 0..Limit + 1 \cup {None}
  /\ attempt \in Running \cup {"none", "done", "failed"}
  /\ caller \in [Readers -> {"idle", "waiting", "cancelled"}]
  /\ stream => up

\* Values handed out as current were pushed on the connection they are read
\* from, within the limit; nothing but an empty answer lacks a push.
CurrentIsCurrent ==
  \A c \in Readers : answer[c] # None /\ answer[c].current /\ ~answer[c].empty =>
    answer[c].age # None /\ answer[c].age <= Limit

\* A reader is cancelled, which ends a worker for good, only when an attempt
\* outlives its connection; and nobody waits without an attempt under way.
LossTakesAnOrphan ==
  /\ (\E c \in Readers : caller[c] = "cancelled") => outlived
  /\ (\E c \in Readers : caller[c] = "waiting") => attempt \in Running

AccountAnswers == CurrentIsCurrent /\ LossTakesAnOrphan
=============================================================================
