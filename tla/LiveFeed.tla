------------------------------ MODULE LiveFeed ------------------------------
(***************************************************************************)
(* IBKRLiveDataBroker: WebSocket clients subscribe to keys, and one update *)
(* loop sends each key's update to the members of the key's set, awaiting  *)
(* every send while it iterates over the set itself.                       *)
(*                                                                         *)
(* Everything runs in one event loop, so another task moves only while the *)
(* update loop sleeps, awaits a send, or has ended.                        *)
(***************************************************************************)
EXTENDS Integers, FiniteSets

CONSTANTS
  Clients,
  Keys,        \* keys clients name
  Unreadable,  \* those of them whose strikes are no numbers
  None

VARIABLES
  subs,    \* subscriptions: the clients of each key, None where there is no entry
  active,  \* active_connections
  client,  \* "away", "served" by its handler, or "gone" with its handler unaware
  paused,  \* is_paused
  loop,    \* the update loop: where it is, and the keys it has left
  sweep,   \* the broadcast under way
  (* history, read by the properties only *)
  churned, \* a subscription changed under a broadcast
  misread  \* the loop met an unreadable key

\* No entry is told from an empty one.
NoneIsNoSet == \A s \in SUBSET Clients : s # None

table == <<subs, active>>
vars == <<table, client, paused, loop, sweep, churned, misread>>

NoSweep == [key |-> None, own |-> FALSE, size |-> 0, old |-> {},
            seen |-> {}, to |-> None, failed |-> {}]

TypeOK ==
  /\ subs \in [Keys -> SUBSET Clients \cup {None}]
  /\ active \subseteq Clients
  /\ client \in [Clients -> {"away", "served", "gone"}]
  /\ paused \in BOOLEAN /\ churned \in BOOLEAN /\ misread \in BOOLEAN
  /\ loop \in [at : {"asleep", "choosing", "sending", "ended"}, keys : SUBSET Keys]
  /\ sweep.size \in 0 .. Cardinality(Clients)
  /\ loop.at = "sending" => sweep.key \in Keys /\ sweep.to \in Clients

Init ==
  /\ subs = [k \in Keys |-> None] /\ active = {}
  /\ client = [c \in Clients |-> "away"] /\ paused = FALSE
  /\ loop = [at |-> "asleep", keys |-> {}] /\ sweep = NoSweep
  /\ churned = FALSE /\ misread = FALSE

Yields == loop.at # "choosing"

\* The client is dropped from every set; entries stay, empty ones too.
Without(gone) ==
  /\ subs' = [k \in Keys |-> IF subs[k] = None THEN None ELSE subs[k] \ gone]
  /\ active' = active \ gone

Touched == churned' = (churned \/ (loop.at = "sending" /\ subs' # subs))

-----------------------------------------------------------------------------
(* The clients' handlers.                                                  *)

Connect(c) ==
  /\ Yields /\ client[c] = "away"
  /\ client' = [client EXCEPT ![c] = "served"] /\ active' = active \cup {c}
  /\ UNCHANGED <<subs, paused, loop, sweep, churned, misread>>

Subscribe(c, k) ==
  /\ Yields /\ client[c] = "served"
  /\ subs' = [subs EXCEPT ![k] = (IF @ = None THEN {} ELSE @) \cup {c}]
  /\ Touched
  /\ UNCHANGED <<active, client, paused, loop, sweep, misread>>

\* The last one to leave takes the entry with it; a broadcast under way keeps
\* the set, empty.
Unsubscribe(c, k) ==
  /\ Yields /\ client[c] = "served" /\ subs[k] # None
  /\ LET rest == subs[k] \ {c}
     IN  subs' = [subs EXCEPT ![k] = IF rest = {} THEN None ELSE rest]
  /\ sweep' = IF subs'[k] = None /\ sweep.key = k THEN [sweep EXCEPT !.own = FALSE]
              ELSE sweep
  /\ Touched
  /\ UNCHANGED <<active, client, paused, loop, misread>>

\* The peer is gone; the handler still waits for a message.
Vanish(c) ==
  /\ Yields /\ client[c] = "served"
  /\ client' = [client EXCEPT ![c] = "gone"]
  /\ UNCHANGED <<table, paused, loop, sweep, churned, misread>>

\* The handler notices and cleans up.
Disconnect(c) ==
  /\ Yields /\ client[c] \in {"served", "gone"}
  /\ client' = [client EXCEPT ![c] = "away"]
  /\ Without({c}) /\ Touched
  /\ UNCHANGED <<paused, loop, sweep, misread>>

PauseResume ==
  /\ Yields /\ paused' = ~paused
  /\ UNCHANGED <<table, client, loop, sweep, churned, misread>>

-----------------------------------------------------------------------------
(* The update loop.                                                        *)

Wake ==
  /\ loop.at = "asleep" /\ ~paused
  /\ loop' = [at |-> "choosing", keys |-> {k \in Keys : subs[k] # None}]
  /\ UNCHANGED <<table, client, paused, sweep, churned, misread>>

\* An entry that went away, or strikes that are no numbers, raise; the handler
\* of the exception is outside the loop.
ChooseRaises ==
  /\ loop.at = "choosing"
  /\ \E k \in loop.keys :
       /\ subs[k] = None \/ (k \in Unreadable /\ subs[k] # {})
       /\ misread' = (misread \/ subs[k] # None)
  /\ loop' = [at |-> "ended", keys |-> {}]
  /\ UNCHANGED <<table, client, paused, sweep, churned>>

Choose ==
  /\ loop.at = "choosing"
  /\ \E k \in loop.keys :
       /\ subs[k] # None
       /\ IF subs[k] = {} THEN /\ loop' = [loop EXCEPT !.keys = @ \ {k}]
                               /\ UNCHANGED sweep
          ELSE /\ k \notin Unreadable
               /\ loop' = [at |-> "sending", keys |-> loop.keys \ {k}]
               /\ \E c \in subs[k] :
                    sweep' = [key |-> k, own |-> TRUE, size |-> Cardinality(subs[k]),
                              old |-> subs[k], seen |-> {}, to |-> c, failed |-> {}]
  /\ UNCHANGED <<table, client, paused, churned, misread>>

PassOver ==
  /\ loop.at = "choosing" /\ loop.keys = {}
  /\ loop' = [loop EXCEPT !.at = "asleep"]
  /\ UNCHANGED <<table, client, paused, sweep, churned, misread>>

\* The set the broadcast iterates over, as it is now.
Members == IF sweep.own THEN subs[sweep.key] ELSE {}

\* What a failed send takes out of the sets before the iteration goes on.
Dropped(failed) == {}

(***************************************************************************)
(* A send returns or raises, and the iterator is asked for the next member:*)
(* it raises if the set has changed its size, and otherwise goes on over   *)
(* the members that have been there, a newcomer possibly among them.       *)
(***************************************************************************)
SendEnds ==
  /\ loop.at = "sending"
  /\ \E fails \in BOOLEAN :
       LET failed == IF fails THEN sweep.failed \cup {sweep.to} ELSE sweep.failed
           now    == Members \ Dropped(failed)
           seen   == sweep.seen \cup {sweep.to}
           next   == now \ seen
       IN  /\ fails => client[sweep.to] # "served"
           /\ \/ /\ Cardinality(now) # sweep.size
                 /\ loop' = [at |-> "ended", keys |-> {}] /\ sweep' = NoSweep
                 /\ UNCHANGED table
              \/ /\ Cardinality(now) = sweep.size
                 /\ \E c \in next :
                      sweep' = [sweep EXCEPT !.seen = seen, !.to = c, !.failed = failed]
                 /\ UNCHANGED <<table, loop>>
              \/ /\ Cardinality(now) = sweep.size /\ next \cap sweep.old = {}
                 /\ Without(failed)
                 /\ loop' = [loop EXCEPT !.at = "choosing"] /\ sweep' = NoSweep
  /\ UNCHANGED <<client, paused, churned, misread>>

LoopStep == Wake \/ ChooseRaises \/ Choose \/ PassOver \/ SendEnds

Next ==
  \/ \E c \in Clients :
       \/ Connect(c) \/ Vanish(c) \/ Disconnect(c)
       \/ \E k \in Keys : Subscribe(c, k) \/ Unsubscribe(c, k)
  \/ PauseResume \/ LoopStep

Spec == Init /\ [][Next]_vars

-----------------------------------------------------------------------------
(* Properties.                                                             *)

(***************************************************************************)
(* What ends the update loop is a subscription that changed under a        *)
(* broadcast, or a key it cannot read: a client that is gone does not, for *)
(* broadcast drops it only when the iteration is over.                     *)
(***************************************************************************)
FeedEndTakesChurn == loop.at = "ended" => churned \/ misread
=============================================================================
