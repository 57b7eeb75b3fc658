----------------------------- MODULE Coordinator ----------------------------
(***************************************************************************)
(* IBKRRequestCoordinator: three priority queues in front of the one       *)
(* gateway connection, a pool of workers of which some are reserved for    *)
(* P0 and P1, and requests with the same key sharing one round trip.       *)
(*                                                                         *)
(* submit() runs from its first line to queues.put() without yielding (the *)
(* lock is never contended), so joining or enqueueing is one step.  A job  *)
(* is the future and the queue entry a leader makes.                       *)
(***************************************************************************)
EXTENDS Naturals, Sequences

CONSTANTS
  Callers,     \* tasks that call submit
  Jobs,        \* identifiers of jobs, used again when nothing refers to them
  Keys,        \* dedup keys
  Workers,     \* the worker pool
  Reserved,    \* workers that never pull P2
  None         \* no key, no job

\* What the modules that use this one have to assume.
NoneIsNothing == None \notin Jobs \cup Keys

VARIABLES
  caller,      \* what each caller waits for, and whether it leads the job
  job,         \* each job's state, priority and key
  queue,       \* the queue of each priority
  worker,      \* the job each worker runs
  inFlight     \* _in_flight: the job registered under each key

vars == <<caller, job, queue, worker, inFlight>>

Priorities == 0 .. 2

TypeOK ==
  /\ caller \in [Callers -> [job : Jobs \cup {None}, leads : BOOLEAN]]
  /\ job \in [Jobs -> [st : {"free", "queued", "running", "done"},
                       prio : Priorities, key : Keys \cup {None}]]
  /\ queue \in [Priorities -> Seq(Jobs)]
  /\ worker \in [Workers -> Jobs \cup {None}]
  /\ inFlight \in [Keys -> Jobs \cup {None}]

Idle == [job |-> None, leads |-> FALSE]
Free == [st |-> "free", prio |-> 0, key |-> None]

Init ==
  /\ caller = [c \in Callers |-> Idle]
  /\ job = [j \in Jobs |-> Free]
  /\ queue = [p \in Priorities |-> <<>>]
  /\ worker = [w \in Workers |-> None]
  /\ inFlight = [k \in Keys |-> None]

Waits(c)      == caller[c].job # None
Unfinished    == {j \in Jobs : job[j].st \in {"queued", "running"}}

\* Jobs nobody refers to any more: the model uses their identifiers again.
Recycled(jobs, callers, flights) ==
  [j \in Jobs |->
     IF /\ jobs[j].st = "done"
        /\ \A c \in Callers : callers[c].job # j
        /\ \A k \in Keys : flights[k] # j
     THEN Free ELSE jobs[j]]

-----------------------------------------------------------------------------
(* submit.                                                                 *)

\* A request with a key whose future is not done waits for that future.
Join(c, k) ==
  /\ ~Waits(c)
  /\ inFlight[k] \in Unfinished
  /\ caller' = [caller EXCEPT ![c] = [job |-> inFlight[k], leads |-> FALSE]]
  /\ UNCHANGED <<job, queue, worker, inFlight>>

\* Any other request makes a future, registers it under its key if it has
\* one, and enqueues a job.
Enqueue(c, p, k) ==
  /\ ~Waits(c)
  /\ k # None => inFlight[k] \notin Unfinished
  /\ \E j \in Jobs : job[j].st = "free"
  /\ LET j == CHOOSE i \in Jobs : job[i].st = "free"
     IN  /\ job' = [job EXCEPT ![j] = [st |-> "queued", prio |-> p, key |-> k]]
         /\ queue' = [queue EXCEPT ![p] = Append(@, j)]
         /\ inFlight' = IF k = None THEN inFlight
                        ELSE [inFlight EXCEPT ![k] = j]
         /\ caller' = [caller EXCEPT ![c] = [job |-> j, leads |-> TRUE]]
  /\ UNCHANGED worker

\* mutant of Cleared: whatever is registered under the key is removed.
ClearedBlindly(c) ==
  LET k == job[caller[c].job].key
  IN  IF caller[c].leads /\ k # None
      THEN [inFlight EXCEPT ![k] = None] ELSE inFlight

\* submit's finally: a leader removes its own future from under its key.
Cleared(c) ==
  LET k == job[caller[c].job].key
  IN  IF caller[c].leads /\ k # None
      THEN [inFlight EXCEPT ![k] = IF @ = caller[c].job THEN None ELSE @]
      ELSE inFlight

\* c is resumed with the result, or its timeout (or its own cancellation)
\* ends the wait; the future is shielded and the job goes on.
Leave(c) ==
  /\ Waits(c)
  /\ inFlight' = Cleared(c)
  /\ caller' = [caller EXCEPT ![c] = Idle]
  /\ job' = Recycled(job, caller', inFlight')
  /\ UNCHANGED <<queue, worker>>

Resume(c)  == Waits(c) /\ job[caller[c].job].st = "done" /\ Leave(c)
GiveUp(c)  == caller[c].job \in Unfinished /\ Leave(c)

-----------------------------------------------------------------------------
(* The worker pool.                                                        *)

\* mutant of Pulls: reserved workers serve every queue.
PullsAll(w) == Priorities

\* The priorities worker w looks at.
Pulls(w) == IF w \in Reserved THEN {0, 1} ELSE Priorities

\* _get_next_job: the head of the first queue, in priority order, that has one.
Take(w) ==
  /\ worker[w] = None
  /\ \E p \in Pulls(w) :
       /\ queue[p] # <<>>
       /\ \A q \in Pulls(w) : q < p => queue[q] = <<>>
       /\ worker' = [worker EXCEPT ![w] = Head(queue[p])]
       /\ job' = [job EXCEPT ![Head(queue[p])].st = "running"]
       /\ queue' = [queue EXCEPT ![p] = Tail(@)]
  /\ UNCHANGED <<caller, inFlight>>

\* _run_job: the call returns or raises, either way the future is resolved.
Finish(w) ==
  /\ worker[w] # None
  /\ job' = Recycled([job EXCEPT ![worker[w]].st = "done"], caller, inFlight)
  /\ worker' = [worker EXCEPT ![w] = None]
  /\ UNCHANGED <<caller, queue, inFlight>>

-----------------------------------------------------------------------------
Next ==
  \/ \E c \in Callers :
       \/ \E k \in Keys : Join(c, k)
       \/ \E p \in Priorities, k \in Keys \cup {None} : Enqueue(c, p, k)
       \/ Resume(c) \/ GiveUp(c)
  \/ \E w \in Workers : Take(w) \/ Finish(w)

Spec == Init /\ [][Next]_vars

(***************************************************************************)
(* Workers poll the queues for ever.  Critical and interactive calls       *)
(* return; nothing is assumed of batch jobs (a worker puts no limit on the *)
(* call it runs) nor of callers.                                           *)
(***************************************************************************)
Fairness ==
  \A w \in Workers :
    /\ WF_vars(Take(w))
    /\ WF_vars(Finish(w) /\ job[worker[w]].prio # 2)

FairSpec == Spec /\ Fairness

-----------------------------------------------------------------------------
(* Properties the code has.                                                *)

KeysHaveLeaders ==
  \A k \in Keys : inFlight[k] # None =>
    \E c \in Callers : caller[c] = [job |-> inFlight[k], leads |-> TRUE]

LeadersHaveKeys ==
  \A c \in Callers : caller[c].leads /\ job[caller[c].job].key # None =>
    \/ inFlight[job[caller[c].job].key] = caller[c].job
    \/ job[caller[c].job].st = "done"

JobsHavePlaces ==
  \A j \in Jobs :
    /\ job[j].st = "queued" <=> \E i \in DOMAIN queue[job[j].prio] :
                                  queue[job[j].prio][i] = j
    /\ job[j].st = "running" <=> \E w \in Workers : worker[w] = j

WaitsHaveJobs == \A c \in Callers : Waits(c) => job[caller[c].job].st # "free"

(***************************************************************************)
(* Nothing that somebody waits for gets lost, whoever times out meanwhile. *)
(* A key is registered exactly while the leader of its job waits, unless   *)
(* the job is done and a newer one took its place: no key outlives its     *)
(* leader, and no leader removes another's (submit's finally).  Each job   *)
(* is in one queue or with one worker until its future is done, and nobody *)
(* waits on a job that is neither: a caller's timeout, the leader's        *)
(* included, takes nothing from those who joined it.                       *)
(***************************************************************************)
NothingLost ==
  KeysHaveLeaders /\ LeadersHaveKeys /\ JobsHavePlaces /\ WaitsHaveJobs

(***************************************************************************)
(* Background work cannot starve critical requests: a queued P0 job is     *)
(* started even if every batch job hangs in the gateway for ever.          *)
(***************************************************************************)
CriticalServed ==
  \A j \in Jobs : job[j].st = "queued" /\ job[j].prio = 0
                    ~> job[j].st # "queued"
=============================================================================
