--------------------------- MODULE ServicesProofs ---------------------------
(***************************************************************************)
(* Theorems about the services around the order path, for every value of   *)
(* the constants: the execution mode, the gateway coordinator, the order   *)
(* call, the live feed, the background loop, the backfill of stops, login  *)
(* sessions, account values, cancels, the booking of spreads, research,    *)
(* health, shares and presets of strategies, scores and outcomes of        *)
(* signals, each with an inductive invariant of its own; and of all of     *)
(* them side by side, as they run in MCServices.                           *)
(***************************************************************************)
EXTENDS MCServices, Sequences, Sums, TLAPS

-----------------------------------------------------------------------------
(* ExecutionMode.  ModeInv is inductive: a change that overlapped no other *)
(* is the only one under way and its mode is in force; its row will be     *)
(* newer than every row committed; after an acknowledged change nothing is *)
(* under way and the newest row is that change's; an execution under way   *)
(* is not a stray yet.                                                     *)

AloneMeansAlone ==
  \A u \in Users : request[u].at # "idle" /\ request[u].alone =>
    /\ \A v \in Users \ {u} : request[v] = NoRequest
    /\ mode = request[u].mode

StampsGrow ==
  /\ row.stamp <= clock
  /\ \A u \in Users : request[u].stamp <= clock
  /\ \A u \in Users : request[u].at = "inserting" /\ request[u].alone =>
       row.stamp < request[u].stamp

AckedIsSaved ==
  acked # None =>
    /\ \A u \in Users : request[u] = NoRequest
    /\ row.mode = acked /\ mode \in {acked, "manual"}

StraysCounted ==
  /\ strays <= 1
  /\ mode = "autopilot" \/ scan = "executing" => strays = 0

ModeInv ==
  /\ TypeOK /\ AloneMeansAlone /\ StampsGrow /\ AckedIsSaved /\ StraysCounted

LEMMA ModeStarts == Init => ModeInv
<1> SUFFICES ASSUME Init PROVE ModeInv
  OBVIOUS
<1>1. NoRequest \in Request /\ NoRequest.at = "idle" /\ NoRequest.stamp = 0
  BY DEF Request, NoRequest
<1>2. TypeOK
  BY <1>1, ModeAssumption DEF Init, TypeOK, Modes, Default
<1>3. AloneMeansAlone /\ StampsGrow
  BY <1>1 DEF Init, AloneMeansAlone, StampsGrow
<1>4. AckedIsSaved /\ StraysCounted
  BY DEF Init, AckedIsSaved, StraysCounted, Default
<1> QED
  BY <1>2, <1>3, <1>4 DEF ModeInv

\* What the two edits of a request under way leave of it.
LEMMA RequestEdits ==
  ASSUME NEW q \in Request, NEW s \in Nat
  PROVE  LET cut  == [q EXCEPT !.alone = FALSE]
             sent == [q EXCEPT !.at = "inserting", !.stamp = s]
         IN  /\ cut \in Request /\ sent \in Request
             /\ ~cut.alone /\ cut.at = q.at /\ cut.mode = q.mode
             /\ cut.stamp = q.stamp
             /\ sent.at = "inserting" /\ sent.stamp = s
             /\ sent.mode = q.mode /\ sent.alone = q.alone
  BY DEF Request

LEMMA FreshRequests ==
  /\ NoRequest \in Request
  /\ \A m \in Modes, b \in BOOLEAN :
       [at |-> "set", mode |-> m, stamp |-> 0, alone |-> b] \in Request
  BY DEF Request, NoRequest

\* The type invariant is kept by every step.
LEMMA ModeTypeStep == TypeOK /\ [Next]_vars => TypeOK'
<1> SUFFICES ASSUME TypeOK, [Next]_vars PROVE TypeOK'
  OBVIOUS
<1> USE ModeAssumption DEF TypeOK, saved, routing
<1>1. ASSUME NEW u \in Users, NEW m \in Modes, SetMode(u, m) PROVE TypeOK'
  <2>1. \A v \in Users : request'[v] \in Request
    BY <1>1, RequestEdits, FreshRequests DEF SetMode
  <2>2. request' \in [Users -> Request]
    BY <1>1, <2>1 DEF SetMode
  <2> QED
    BY <1>1, <2>2 DEF SetMode
<1>2. ASSUME NEW u \in Users, BeginInsert(u) PROVE TypeOK'
  <2>1. clock' \in Nat
    BY <1>2 DEF BeginInsert
  <2>2. request' \in [Users -> Request]
    BY <1>2, <2>1, RequestEdits DEF BeginInsert
  <2> QED
    BY <1>2, <2>1, <2>2 DEF BeginInsert
<1>3. ASSUME NEW u \in Users, CommitInsert(u) PROVE TypeOK'
  <2>1. request[u].mode \in Modes \cup {None} /\ request[u].stamp \in Nat
    BY DEF Request
  <2>2. request' \in [Users -> Request]
    BY <1>3, FreshRequests DEF CommitInsert
  <2> QED
    BY <1>3, <2>1, <2>2 DEF CommitInsert, Newest
<1>4. ASSUME NEW u \in Users, InsertFails(u) PROVE TypeOK'
  BY <1>4, FreshRequests DEF InsertFails
<1>5. CASE RouteExecutes \/ RouteQueues
  BY <1>5 DEF RouteExecutes, RouteQueues
<1>6. CASE SendOrder \/ ScanStops
  BY <1>6 DEF SendOrder, ScanStops
<1>7. CASE Restart
  BY <1>7, FreshRequests DEF Restart, Modes
<1>8. CASE UNCHANGED vars
  BY <1>8 DEF vars
<1> QED
  BY <1>1, <1>2, <1>3, <1>4, <1>5, <1>6, <1>7, <1>8 DEF Next

\* A change under way keeps its mode in force while it stays alone.
LEMMA AloneStep == ModeInv /\ [Next]_vars => AloneMeansAlone'
<1> SUFFICES ASSUME ModeInv, [Next]_vars,
                    NEW w \in Users, request'[w].at # "idle", request'[w].alone
             PROVE  /\ \A v \in Users \ {w} : request'[v] = NoRequest
                    /\ mode' = request'[w].mode
  BY DEF AloneMeansAlone
<1> USE DEF ModeInv, TypeOK, saved, routing
<1>0. NoRequest.at = "idle" /\ \A u \in Users : request[u] \in Request
  BY DEF NoRequest
<1>1. ASSUME NEW u \in Users, NEW m \in Modes, SetMode(u, m)
      PROVE  /\ \A v \in Users \ {w} : request'[v] = NoRequest
             /\ mode' = request'[w].mode
  <2>1. w = u
    <3>1. SUFFICES ASSUME w # u PROVE FALSE
      OBVIOUS
    <3>2. CASE w \in Busy
      <4>1. request'[w] = [request[w] EXCEPT !.alone = FALSE]
        BY <1>1, <3>1, <3>2 DEF SetMode
      <4> QED
        BY <4>1, <1>0, RequestEdits
    <3>3. CASE w \notin Busy
      BY <1>0, <1>1, <3>1, <3>3 DEF SetMode
    <3> QED
      BY <3>2, <3>3
  <2>. DEFINE first == Busy = {}
             fresh(b) == [at |-> "set", mode |-> m, stamp |-> 0, alone |-> b]
  <2>2. request'[u] = fresh(first)
    BY <1>1, Zenon DEF SetMode
  <2>3. first
    <3>1. SUFFICES ASSUME ~first PROVE FALSE
      OBVIOUS
    <3>2. first = FALSE
      BY <3>1
    <3>3. request'[u] = fresh(FALSE)
      <4> HIDE DEF first
      <4> QED
        BY <2>2, <3>2, Zenon
    <3>4. request'[w].alone = FALSE
      BY <2>1, <3>3
    <3> QED
      BY <3>4
  <2>4. request'[u].mode = m
    BY <2>2
  <2> QED
    BY <1>1, <2>1, <2>3, <2>4 DEF SetMode, Busy
<1>2. ASSUME NEW u \in Users, BeginInsert(u)
      PROVE  /\ \A v \in Users \ {w} : request'[v] = NoRequest
             /\ mode' = request'[w].mode
  <2>1. clock' \in Nat /\ mode' = mode /\ request[u].at = "set"
    BY <1>2 DEF BeginInsert
  <2>2. \A v \in Users \ {u} : request'[v] = request[v]
    BY <1>2 DEF BeginInsert
  <2>. DEFINE sent == [request[u] EXCEPT !.at = "inserting", !.stamp = clock']
  <2>7. request'[u] = sent
    BY <1>2 DEF BeginInsert
  <2>8. sent.mode = request[u].mode /\ sent.alone = request[u].alone
    BY <1>0, <2>1 DEF Request
  <2>3. request'[u].mode = request[u].mode /\ request'[u].alone = request[u].alone
    BY <2>7, <2>8
  <2>4. request[w].at # "idle" /\ request[w].alone
    BY <2>1, <2>2, <2>3
  <2>5. \A v \in Users \ {w} : request[v] = NoRequest
    BY <2>4 DEF AloneMeansAlone
  <2>6. w = u
    BY <1>0, <2>1, <2>5
  <2> QED
    BY <2>1, <2>2, <2>3, <2>4, <2>5, <2>6 DEF AloneMeansAlone
<1>3. ASSUME NEW u \in Users, CommitInsert(u) \/ InsertFails(u)
      PROVE  /\ \A v \in Users \ {w} : request'[v] = NoRequest
             /\ mode' = request'[w].mode
  BY <1>0, <1>3 DEF CommitInsert, InsertFails, AloneMeansAlone
<1>4. CASE RouteExecutes \/ RouteQueues \/ SendOrder \/ ScanStops \/ UNCHANGED vars
  BY <1>4 DEF RouteExecutes, RouteQueues, SendOrder, ScanStops, vars,
              AloneMeansAlone
<1>5. CASE Restart
  BY <1>0, <1>5 DEF Restart
<1> QED
  BY <1>1, <1>2, <1>3, <1>4, <1>5 DEF Next

\* Rows and stamps never overtake the clock.
LEMMA StampStep == ModeInv /\ [Next]_vars => StampsGrow'
<1> SUFFICES ASSUME ModeInv, [Next]_vars PROVE StampsGrow'
  OBVIOUS
<1> USE DEF ModeInv, TypeOK, saved, routing
<1>0. /\ NoRequest.at = "idle" /\ NoRequest.stamp = 0
      /\ \A u \in Users : request[u] \in Request
      /\ clock \in Nat /\ row.stamp \in Nat
  BY DEF NoRequest
<1>1. ASSUME NEW u \in Users, NEW m \in Modes, SetMode(u, m) PROVE StampsGrow'
  <2>1. row' = row /\ clock' = clock
    BY <1>1 DEF SetMode
  <2>2. \A v \in Users : request'[v].at = "inserting" => ~request'[v].alone
    BY <1>0, <1>1, RequestEdits DEF SetMode
  <2>3. \A v \in Users :
          request'[v].stamp = 0 \/ request'[v].stamp = request[v].stamp
    BY <1>0, <1>1, RequestEdits DEF SetMode
  <2> QED
    BY <1>0, <2>1, <2>2, <2>3 DEF StampsGrow
<1>2. ASSUME NEW u \in Users, BeginInsert(u) PROVE StampsGrow'
  <2>1. clock' \in Nat /\ clock' = clock + 1 /\ row' = row
    BY <1>2 DEF BeginInsert
  <2>. DEFINE sent == [request[u] EXCEPT !.at = "inserting", !.stamp = clock']
  <2>5. request'[u] = sent
    BY <1>2 DEF BeginInsert
  <2>6. sent.stamp = clock'
    BY <1>0, <2>1 DEF Request
  <2>2. request'[u].stamp = clock'
    BY <2>5, <2>6
  <2>3. \A v \in Users \ {u} : request'[v] = request[v]
    BY <1>2 DEF BeginInsert
  <2>4. \A v \in Users : request[v].stamp \in Nat
    BY <1>0 DEF Request
  <2> HIDE DEF sent
  <2> QED
    BY <1>0, <2>1, <2>2, <2>3, <2>4 DEF StampsGrow
<1>3. ASSUME NEW u \in Users, CommitInsert(u) PROVE StampsGrow'
  <2>1. clock' = clock /\ request[u].at = "inserting"
        /\ request'[u] = NoRequest
        /\ \A v \in Users \ {u} : request'[v] = request[v]
    BY <1>3 DEF CommitInsert
  <2>2. \A v \in Users : ~(request'[v].at = "inserting" /\ request'[v].alone)
    BY <1>0, <2>1 DEF AloneMeansAlone
  <2>3. row'.stamp <= clock
    BY <1>3, <2>1 DEF CommitInsert, Newest, StampsGrow, Request
  <2> QED
    BY <1>0, <2>1, <2>2, <2>3 DEF StampsGrow
<1>4. ASSUME NEW u \in Users, InsertFails(u) PROVE StampsGrow'
  <2>1. /\ row' = row /\ clock' = clock
        /\ \A v \in Users : request'[v] = NoRequest \/ request'[v] = request[v]
    BY <1>4 DEF InsertFails
  <2> QED
    BY <1>0, <2>1 DEF StampsGrow
<1>5. CASE RouteExecutes \/ RouteQueues \/ SendOrder \/ ScanStops \/ UNCHANGED vars
  BY <1>5 DEF RouteExecutes, RouteQueues, SendOrder, ScanStops, vars, StampsGrow
<1>6. CASE Restart
  <2>1. row' = row /\ clock' = clock /\ \A v \in Users : request'[v] = NoRequest
    BY <1>6 DEF Restart
  <2> QED
    BY <1>0, <2>1 DEF StampsGrow
<1> QED
  BY <1>1, <1>2, <1>3, <1>4, <1>5, <1>6 DEF Next

\* The row of an acknowledged change stays the newest until the next change.
LEMMA AckedStep == ModeInv /\ [Next]_vars => AckedIsSaved'
<1> SUFFICES ASSUME ModeInv, [Next]_vars PROVE AckedIsSaved'
  OBVIOUS
<1> USE DEF ModeInv, TypeOK, saved, routing
<1>0. NoRequest.at = "idle" /\ \A u \in Users : request[u] \in Request
  BY DEF NoRequest
<1>1. ASSUME NEW u \in Users, NEW m \in Modes, SetMode(u, m) PROVE AckedIsSaved'
  BY <1>1 DEF SetMode, AckedIsSaved
<1>2. ASSUME NEW u \in Users, BeginInsert(u) \/ InsertFails(u)
      PROVE  AckedIsSaved'
  <2>1. acked = None
    BY <1>0, <1>2 DEF BeginInsert, InsertFails, AckedIsSaved
  <2> QED
    BY <1>2, <2>1 DEF BeginInsert, InsertFails, AckedIsSaved
<1>3. ASSUME NEW u \in Users, CommitInsert(u) PROVE AckedIsSaved'
  <2>1. acked = None /\ request[u].at = "inserting"
    BY <1>0, <1>3 DEF CommitInsert, AckedIsSaved
  <2>2. CASE ~request[u].alone
    BY <1>3, <2>1, <2>2 DEF CommitInsert, AckedIsSaved
  <2>3. CASE request[u].alone
    <3>1. /\ \A v \in Users \ {u} : request[v] = NoRequest
          /\ mode = request[u].mode
      BY <2>1, <2>3 DEF AloneMeansAlone
    <3>2. row.stamp < request[u].stamp
      BY <2>1, <2>3 DEF StampsGrow
    <3>3. row'.mode = request[u].mode
      BY <1>3, <3>2, <1>0 DEF CommitInsert, Newest, Request
    <3>4. \A v \in Users : request'[v] = NoRequest
      BY <1>3, <3>1 DEF CommitInsert
    <3>5. acked' = request[u].mode /\ mode' = mode
      BY <1>3, <2>3 DEF CommitInsert
    <3> QED
      BY <3>1, <3>3, <3>4, <3>5 DEF AckedIsSaved
  <2> QED
    BY <2>2, <2>3
<1>4. CASE RouteExecutes \/ RouteQueues \/ SendOrder \/ ScanStops \/ UNCHANGED vars
  BY <1>4 DEF RouteExecutes, RouteQueues, SendOrder, ScanStops, vars,
              AckedIsSaved
<1>5. CASE Restart
  <2>1. /\ row' = row /\ acked' = acked
        /\ mode' = row.mode \/ mode' = "manual"
        /\ \A v \in Users : request'[v] = NoRequest
    BY <1>5 DEF Restart
  <2> QED
    BY <2>1 DEF AckedIsSaved
<1> QED
  BY <1>1, <1>2, <1>3, <1>4, <1>5 DEF Next

\* An execution begins in autopilot only, and sends one order.
LEMMA StrayStep == ModeInv /\ [Next]_vars => StraysCounted'
<1> SUFFICES ASSUME ModeInv, [Next]_vars PROVE StraysCounted'
  OBVIOUS
<1> USE DEF ModeInv, TypeOK, StraysCounted, saved, routing
<1>1. ASSUME NEW u \in Users, NEW m \in Modes, SetMode(u, m) PROVE StraysCounted'
  BY <1>1 DEF SetMode
<1>2. ASSUME NEW u \in Users, BeginInsert(u) \/ CommitInsert(u) \/ InsertFails(u)
      PROVE  StraysCounted'
  BY <1>2 DEF BeginInsert, CommitInsert, InsertFails
<1>3. CASE RouteExecutes \/ RouteQueues \/ ScanStops \/ UNCHANGED vars
  BY <1>3 DEF RouteExecutes, RouteQueues, ScanStops, vars
<1>4. CASE SendOrder
  BY <1>4 DEF SendOrder
<1>5. CASE Restart
  BY <1>5 DEF Restart
<1> QED
  BY <1>1, <1>2, <1>3, <1>4, <1>5 DEF Next

LEMMA ModeInvariance == Spec => []ModeInv
<1>1. ModeInv /\ [Next]_vars => ModeInv'
  BY ModeTypeStep, AloneStep, StampStep, AckedStep, StrayStep DEF ModeInv
<1> QED
  BY ModeStarts, <1>1, PTL DEF Spec

(***************************************************************************)
(* Every variable keeps its type.                                          *)
(***************************************************************************)
THEOREM ModeTypeCorrect == Spec => []TypeOK
<1>1. ModeInv => TypeOK
  BY DEF ModeInv
<1> QED
  BY ModeInvariance, <1>1, PTL

(***************************************************************************)
(* An acknowledged mode is never replaced by an older one: a restart finds *)
(* its row or falls back to manual (set_mode, rehydrate).                  *)
(***************************************************************************)
THEOREM AckedModeStands == Spec => []AckedModeSurvives
<1>1. ModeInv => AckedModeSurvives
  BY DEF ModeInv, AckedIsSaved, AckedModeSurvives
<1> QED
  BY ModeInvariance, <1>1, PTL

(***************************************************************************)
(* The scan sends at most one order after autopilot is left                *)
(* (handle_signal).                                                        *)
(***************************************************************************)
THEOREM ScanStraysOnce == Spec => []OneStray
<1>1. ModeInv => OneStray
  BY DEF ModeInv, StraysCounted, OneStray
<1> QED
  BY ModeInvariance, <1>1, PTL

-----------------------------------------------------------------------------
(* Coordinator.                                                            *)

CallerRow == [job : Jobs \cup {None}, leads : BOOLEAN]
JobRow    == [st : {"free", "queued", "running", "done"}, prio : C!Priorities,
              key : Keys \cup {None}]

(***************************************************************************)
(* What else holds of the jobs: a queue holds queued jobs of its own       *)
(* priority, each once; no two workers run one job; only who waits leads,  *)
(* a job has one leader at most, and a key is that of the job registered   *)
(* under it.                                                               *)
(***************************************************************************)
QueuesFit ==
  \A p \in C!Priorities :
    /\ \A i \in DOMAIN queue[p] : /\ job[queue[p][i]].st = "queued"
                                  /\ job[queue[p][i]].prio = p
    /\ \A i, k \in DOMAIN queue[p] : queue[p][i] = queue[p][k] => i = k

WorkersFit == \A w, v \in Workers : worker[w] = worker[v] /\ worker[w] # None => w = v

LeadersFit ==
  /\ \A c \in Callers : caller[c].leads => C!Waits(c)
  /\ \A c, d \in Callers :
       caller[c].leads /\ caller[d].leads /\ caller[c].job = caller[d].job => c = d

KeysFit == \A k \in Keys : inFlight[k] # None => job[inFlight[k]].key = k

PoolFits == QueuesFit /\ WorkersFit /\ LeadersFit /\ KeysFit

PoolInv == C!TypeOK /\ C!NothingLost /\ PoolFits

-----------------------------------------------------------------------------
(* The operators.                                                          *)

\* A recycled job was done and referred to by nobody; the others stay.
LEMMA RecycledSpares ==
  ASSUME NEW jobs \in [Jobs -> JobRow], NEW callers, NEW flights, NEW j \in Jobs
  PROVE  LET freed == C!Recycled(jobs, callers, flights)
         IN  /\ freed \in [Jobs -> JobRow]
             /\ \/ freed[j] = jobs[j]
                \/ /\ freed[j] = C!Free /\ jobs[j].st = "done"
                   /\ \A c \in Callers : callers[c].job # j
                   /\ \A k \in Keys : flights[k] # j
BY DEF C!Recycled, C!Free, JobRow, C!Priorities

\* A sequence without its head: the others move up by one.
LEMMA TailMoves ==
  ASSUME NEW E, NEW s \in Seq(E), s # <<>>
  PROVE  /\ Head(s) = s[1] /\ 1 \in DOMAIN s /\ Tail(s) \in Seq(E)
         /\ \A i \in DOMAIN Tail(s) : /\ i \in Nat /\ i >= 1 /\ i + 1 \in DOMAIN s
                                      /\ Tail(s)[i] = s[i + 1]
         /\ \A i \in DOMAIN s : i # 1 => i - 1 \in DOMAIN Tail(s) /\ s[i] = Tail(s)[i - 1]
OBVIOUS

\* A sequence with one more element at its end.
LEMMA AppendEnds ==
  ASSUME NEW E, NEW s \in Seq(E), NEW e \in E
  PROVE  LET t == Append(s, e)
         IN  /\ t \in Seq(E) /\ Len(s) + 1 \in DOMAIN t /\ t[Len(s) + 1] = e
             /\ \A i \in DOMAIN s : i \in DOMAIN t /\ t[i] = s[i]
             /\ \A i \in DOMAIN t : i \in DOMAIN s \/ i = Len(s) + 1
OBVIOUS

-----------------------------------------------------------------------------
LEMMA PoolStarts == C!NoneIsNothing /\ C!Init => PoolInv
<1> SUFFICES ASSUME C!NoneIsNothing, C!Init PROVE PoolInv
  OBVIOUS
<1> USE DEF C!Init, C!Idle, C!Free, C!Priorities
<1>1. C!TypeOK
  BY DEF C!TypeOK
<1>2. C!NothingLost
  BY DEF C!NothingLost, C!KeysHaveLeaders, C!LeadersHaveKeys, C!JobsHavePlaces, C!WaitsHaveJobs,
         C!Waits, C!NoneIsNothing
<1>3. PoolFits
  BY DEF PoolFits, QueuesFit, WorkersFit, LeadersFit, KeysFit, C!Waits
<1> QED BY <1>1, <1>2, <1>3 DEF PoolInv

-----------------------------------------------------------------------------
(* submit.                                                                 *)

LEMMA JoinKeeps ==
  ASSUME C!NoneIsNothing, PoolInv, NEW c \in Callers, NEW k \in Keys, C!Join(c, k)
  PROVE  PoolInv'
<1> DEFINE j == inFlight[k]
<1>1. /\ j \in Jobs /\ job[j].st # "free"
      /\ ~C!Waits(c)
      /\ caller' = [caller EXCEPT ![c] = [job |-> j, leads |-> FALSE]]
      /\ UNCHANGED <<job, queue, worker, inFlight>>
  BY DEF C!Join, C!Unfinished
<1> HIDE DEF j
<1>2. C!TypeOK'
  BY <1>1 DEF PoolInv, C!TypeOK
<1>3. \A d \in Callers : d # c => caller'[d] = caller[d]
  BY <1>1 DEF PoolInv, C!TypeOK
<1>4. caller'[c].job = j /\ ~caller'[c].leads /\ ~caller[c].leads
  BY <1>1 DEF PoolInv, C!TypeOK, PoolFits, LeadersFit
<1>5. C!KeysHaveLeaders'
  <2> SUFFICES ASSUME NEW m \in Keys, inFlight[m] # None
               PROVE  \E d \in Callers : caller'[d] = [job |-> inFlight[m], leads |-> TRUE]
    BY <1>1 DEF C!KeysHaveLeaders
  <2>1. PICK d \in Callers : caller[d] = [job |-> inFlight[m], leads |-> TRUE]
    BY DEF PoolInv, C!NothingLost, C!KeysHaveLeaders
  <2> QED BY <2>1, <1>3, <1>4
<1>6. C!LeadersHaveKeys' /\ C!WaitsHaveJobs'
  BY <1>1, <1>3, <1>4 DEF PoolInv, C!NothingLost, C!LeadersHaveKeys, C!WaitsHaveJobs, C!Waits
<1>7. C!JobsHavePlaces' /\ QueuesFit' /\ WorkersFit' /\ KeysFit'
  BY <1>1 DEF PoolInv, C!NothingLost, C!JobsHavePlaces, PoolFits, QueuesFit, WorkersFit, KeysFit
<1>8. LeadersFit'
  BY <1>1, <1>3, <1>4 DEF PoolInv, PoolFits, LeadersFit, C!Waits
<1> QED BY <1>2, <1>5, <1>6, <1>7, <1>8 DEF PoolInv, C!NothingLost, PoolFits

LEMMA EnqueueKeeps ==
  ASSUME C!NoneIsNothing, PoolInv, NEW c \in Callers, NEW p \in C!Priorities,
         NEW k \in Keys \cup {None}, C!Enqueue(c, p, k)
  PROVE  PoolInv'
<1> USE DEF PoolInv
<1> DEFINE j == CHOOSE i \in Jobs : job[i].st = "free"
           R == [st |-> "queued", prio |-> p, key |-> k]
<1>1. /\ j \in Jobs /\ job[j].st = "free" /\ ~C!Waits(c)
      /\ k # None => inFlight[k] \notin C!Unfinished
      /\ job' = [job EXCEPT ![j] = R]
      /\ queue' = [queue EXCEPT ![p] = Append(@, j)]
      /\ inFlight' = IF k = None THEN inFlight ELSE [inFlight EXCEPT ![k] = j]
      /\ caller' = [caller EXCEPT ![c] = [job |-> j, leads |-> TRUE]]
      /\ UNCHANGED worker
  BY DEF C!Enqueue
<1> HIDE DEF j
<1>2. C!TypeOK'
  <2>1. R \in JobRow
    BY DEF JobRow
  <2>2. Append(queue[p], j) \in Seq(Jobs)
    BY <1>1, AppendEnds DEF C!TypeOK
  <2>3. queue' \in [C!Priorities -> Seq(Jobs)]
    BY <1>1, <2>2 DEF C!TypeOK
  <2>4. job' \in [Jobs -> JobRow]
    BY <1>1, <2>1 DEF C!TypeOK, JobRow
  <2> QED BY <1>1, <2>3, <2>4 DEF C!TypeOK, JobRow
<1>3. /\ job'[j] = R /\ \A i \in Jobs : i # j => job'[i] = job[i]
      /\ caller'[c] = [job |-> j, leads |-> TRUE]
      /\ \A d \in Callers : d # c => caller'[d] = caller[d]
      /\ k # None => inFlight'[k] = j
      /\ \A m \in Keys : m # k => inFlight'[m] = inFlight[m]
  BY <1>1, C!NoneIsNothing DEF C!TypeOK, C!NoneIsNothing
\* Nobody refers to the job that is taken.
<1>4. /\ \A d \in Callers : caller[d].job # j
      /\ \A m \in Keys : inFlight[m] # j
      /\ \A w \in Workers : worker[w] # j
      /\ \A q \in C!Priorities : \A i \in DOMAIN queue[q] : queue[q][i] # j
  <2>1. j # None
    BY <1>1 DEF C!NoneIsNothing
  <2>2. \A d \in Callers : caller[d].job # j
    BY <1>1, <2>1 DEF C!NothingLost, C!WaitsHaveJobs, C!Waits
  <2>3. ASSUME NEW m \in Keys, inFlight[m] = j PROVE FALSE
    <3>1. PICK d \in Callers : caller[d] = [job |-> inFlight[m], leads |-> TRUE]
      BY <2>1, <2>3 DEF C!NothingLost, C!KeysHaveLeaders
    <3> QED BY <2>2, <2>3, <3>1
  <2>4. \A w \in Workers : worker[w] # j
    BY <1>1 DEF C!NothingLost, C!JobsHavePlaces
  <2>5. \A q \in C!Priorities : \A i \in DOMAIN queue[q] : queue[q][i] # j
    BY <1>1 DEF PoolFits, QueuesFit
  <2> QED BY <2>2, <2>3, <2>4, <2>5
<1>5. C!KeysHaveLeaders'
  <2> SUFFICES ASSUME NEW m \in Keys, inFlight'[m] # None
               PROVE  \E d \in Callers : caller'[d] = [job |-> inFlight'[m], leads |-> TRUE]
    BY DEF C!KeysHaveLeaders
  <2>1. CASE m = k
    BY <2>1, <1>3 DEF C!NoneIsNothing
  <2>2. CASE m # k
    <3>1. PICK d \in Callers : caller[d] = [job |-> inFlight[m], leads |-> TRUE]
      BY <2>2, <1>3 DEF C!NothingLost, C!KeysHaveLeaders
    <3>2. d # c
      BY <3>1, <1>1, <1>3, <2>2 DEF C!Waits
    <3> QED BY <2>2, <3>1, <3>2, <1>3
  <2> QED BY <2>1, <2>2
<1>6. C!LeadersHaveKeys'
  <2> SUFFICES ASSUME NEW d \in Callers, caller'[d].leads, job'[caller'[d].job].key # None
               PROVE  \/ inFlight'[job'[caller'[d].job].key] = caller'[d].job
                      \/ job'[caller'[d].job].st = "done"
    BY DEF C!LeadersHaveKeys
  <2>1. CASE d = c
    BY <2>1, <1>3
  <2>2. CASE d # c
    <3> DEFINE i == caller[d].job
    <3>1. i \in Jobs /\ i # j /\ caller'[d].job = i /\ job'[i] = job[i]
      BY <2>2, <1>3, <1>4 DEF C!TypeOK, PoolFits, LeadersFit, C!Waits
    <3>2. inFlight[job[i].key] = i \/ job[i].st = "done"
      BY <2>2, <1>3, <3>1 DEF C!NothingLost, C!LeadersHaveKeys
    <3>3. CASE job[i].key # k
      <4>1. job[i].key \in Keys
        BY <3>1 DEF C!TypeOK
      <4> QED BY <3>1, <3>2, <3>3, <4>1, <1>3
    <3>4. CASE job[i].key = k /\ inFlight[k] = i
      <4>1. i \notin C!Unfinished /\ job[i].st # "free"
        BY <3>4, <3>1, <1>1, <2>2, <1>3 DEF C!NothingLost, C!WaitsHaveJobs, C!Waits, C!NoneIsNothing
      <4> QED BY <4>1, <3>1 DEF C!Unfinished, C!TypeOK
    <3> QED BY <3>1, <3>2, <3>3, <3>4
  <2> QED BY <2>1, <2>2
<1>7. C!WaitsHaveJobs'
  BY <1>1, <1>3, <1>4 DEF C!NothingLost, C!WaitsHaveJobs, C!Waits, C!TypeOK
<1>8. /\ queue'[p] = Append(queue[p], j)
      /\ \A q \in C!Priorities : q # p => queue'[q] = queue[q]
      /\ queue[p] \in Seq(Jobs)
  BY <1>1 DEF C!TypeOK
<1>9. C!JobsHavePlaces'
  <2> SUFFICES ASSUME NEW i \in Jobs
               PROVE  /\ job'[i].st = "queued" <=> \E n \in DOMAIN queue'[job'[i].prio] :
                                                     queue'[job'[i].prio][n] = i
                      /\ job'[i].st = "running" <=> \E w \in Workers : worker'[w] = i
    BY DEF C!JobsHavePlaces
  <2>1. CASE i = j
    <3>1. \E n \in DOMAIN queue'[p] : queue'[p][n] = j
      BY <1>8, <1>1, AppendEnds
    <3>2. ~\E w \in Workers : worker'[w] = j
      BY <1>1, <1>4
    <3> QED BY <2>1, <3>1, <3>2, <1>3
  <2>2. CASE i # j
    <3> DEFINE q == job[i].prio
    <3>1. job'[i] = job[i] /\ q \in C!Priorities
      BY <2>2, <1>3 DEF C!TypeOK
    <3>2. (\E n \in DOMAIN queue'[q] : queue'[q][n] = i)
            <=> (\E n \in DOMAIN queue[q] : queue[q][n] = i)
      <4>1. CASE q # p
        BY <4>1, <3>1, <1>8
      <4>2. CASE q = p
        <5> HIDE DEF q
        <5> QED BY <4>2, <2>2, <1>8, <1>1, AppendEnds
      <4> QED BY <4>1, <4>2
    <3> QED BY <3>1, <3>2, <1>1 DEF C!NothingLost, C!JobsHavePlaces
  <2> QED BY <2>1, <2>2
<1>10. QueuesFit'
  <2> SUFFICES ASSUME NEW q \in C!Priorities
               PROVE  /\ \A i \in DOMAIN queue'[q] : /\ job'[queue'[q][i]].st = "queued"
                                                     /\ job'[queue'[q][i]].prio = q
                      /\ \A i, n \in DOMAIN queue'[q] :
                           queue'[q][i] = queue'[q][n] => i = n
    BY DEF QueuesFit
  <2>0. \A i \in DOMAIN queue[q] : /\ queue[q][i] \in Jobs /\ queue[q][i] # j
                                   /\ job'[queue[q][i]] = job[queue[q][i]]
    BY <1>3, <1>4 DEF C!TypeOK
  <2>1. CASE q # p
    BY <2>0, <2>1, <1>8 DEF PoolFits, QueuesFit
  <2>2. CASE q = p
    <3>1. \A i \in DOMAIN queue'[p] :
            \/ i \in DOMAIN queue[p] /\ queue'[p][i] = queue[p][i]
            \/ i = Len(queue[p]) + 1 /\ queue'[p][i] = j
      BY <1>8, <1>1, AppendEnds
    <3> QED BY <2>0, <2>2, <3>1, <1>3, <1>4 DEF PoolFits, QueuesFit
  <2> QED BY <2>1, <2>2
<1>11. WorkersFit' /\ LeadersFit'
  BY <1>1, <1>3, <1>4 DEF PoolFits, WorkersFit, LeadersFit, C!Waits, C!NoneIsNothing
<1>12. KeysFit'
  <2> SUFFICES ASSUME NEW m \in Keys, inFlight'[m] # None PROVE job'[inFlight'[m]].key = m
    BY DEF KeysFit
  <2>1. CASE m = k
    BY <2>1, <1>3 DEF C!NoneIsNothing
  <2>2. CASE m # k
    BY <2>2, <1>3, <1>4 DEF C!TypeOK, PoolFits, KeysFit
  <2> QED BY <2>1, <2>2
<1> QED BY <1>2, <1>5, <1>6, <1>7, <1>9, <1>10, <1>11, <1>12 DEF C!NothingLost, PoolFits

-----------------------------------------------------------------------------
(* A caller leaves, a worker takes a job, a worker finishes.               *)

\* What is left when finished jobs are recycled: places and types.
LEMMA RecycleKeeps ==
  ASSUME PoolInv, NEW jobs \in [Jobs -> JobRow], NEW callers, NEW flights,
         job' = C!Recycled(jobs, callers, flights),
         UNCHANGED queue, worker' \in [Workers -> Jobs \cup {None}],
         \A j \in Jobs :
           /\ jobs[j].prio = job[j].prio
           /\ jobs[j].st = "queued" <=> job[j].st = "queued"
           /\ jobs[j].st = "running" <=> \E w \in Workers : worker'[w] = j
  PROVE  job' \in [Jobs -> JobRow] /\ C!JobsHavePlaces' /\ QueuesFit'
<1> USE DEF PoolInv
<1>1. job' \in [Jobs -> JobRow]
  BY RecycledSpares DEF C!Recycled, C!Free, JobRow, C!Priorities
<1>2. \A j \in Jobs : job'[j] = jobs[j] \/ (job'[j] = C!Free /\ jobs[j].st = "done")
  BY RecycledSpares
<1>3. QueuesFit'
  <2> SUFFICES ASSUME NEW q \in C!Priorities
               PROVE  /\ \A i \in DOMAIN queue[q] : /\ job'[queue[q][i]].st = "queued"
                                                    /\ job'[queue[q][i]].prio = q
                      /\ \A i, n \in DOMAIN queue[q] : queue[q][i] = queue[q][n] => i = n
    BY DEF QueuesFit
  <2>1. ASSUME NEW i \in DOMAIN queue[q]
        PROVE  job'[queue[q][i]].st = "queued" /\ job'[queue[q][i]].prio = q
    <3>1. queue[q][i] \in Jobs
      BY DEF C!TypeOK
    <3>2. job[queue[q][i]].st = "queued" /\ job[queue[q][i]].prio = q
      BY DEF PoolFits, QueuesFit
    <3> QED BY <3>1, <3>2, <1>2
  <2> QED BY <2>1 DEF PoolFits, QueuesFit
<1>4. C!JobsHavePlaces'
  <2> SUFFICES ASSUME NEW j \in Jobs
               PROVE  /\ job'[j].st = "queued" <=> \E i \in DOMAIN queue'[job'[j].prio] :
                                                     queue'[job'[j].prio][i] = j
                      /\ job'[j].st = "running" <=> \E w \in Workers : worker'[w] = j
    BY DEF C!JobsHavePlaces
  <2>1. CASE job'[j] = jobs[j]
    <3>1. job'[j].st = "queued" <=> job[j].st = "queued"
      BY <2>1
    <3>2. job'[j].prio = job[j].prio
      BY <2>1
    <3>3. job[j].st = "queued" <=> \E i \in DOMAIN queue[job[j].prio] :
                                     queue[job[j].prio][i] = j
      BY DEF C!NothingLost, C!JobsHavePlaces
    <3> QED BY <2>1, <3>1, <3>2, <3>3
  <2>2. CASE job'[j] = C!Free /\ jobs[j].st = "done"
    <3>1. \A i \in DOMAIN queue[0] : queue[0][i] # j
      BY <2>2 DEF PoolFits, QueuesFit, C!Priorities
    <3> QED BY <2>2, <3>1 DEF C!Free
  <2> QED BY <1>2, <2>1, <2>2
<1> QED BY <1>1, <1>3, <1>4

LEMMA LeaveKeeps ==
  ASSUME C!NoneIsNothing, PoolInv, NEW c \in Callers, C!Leave(c)
  PROVE  PoolInv'
<1> USE DEF PoolInv
<1>1. /\ C!Waits(c) /\ inFlight' = C!Cleared(c) /\ caller' = [caller EXCEPT ![c] = C!Idle]
      /\ job' = C!Recycled(job, caller', inFlight')
      /\ UNCHANGED <<queue, worker>>
  BY DEF C!Leave
<1>2. caller'[c] = C!Idle /\ \A d \in Callers : d # c => caller'[d] = caller[d]
  BY <1>1 DEF C!TypeOK
<1>3. caller[c].job \in Jobs
  BY <1>1 DEF C!TypeOK, C!Waits
<1>4. inFlight' \in [Keys -> Jobs \cup {None}]
  BY <1>1, <1>3 DEF C!Cleared, C!TypeOK
<1>5. \A m \in Keys :
        inFlight'[m] = IF caller[c].leads /\ inFlight[m] = caller[c].job
                       THEN None ELSE inFlight[m]
  <2> SUFFICES ASSUME NEW m \in Keys
               PROVE  inFlight'[m] = IF caller[c].leads /\ inFlight[m] = caller[c].job
                                     THEN None ELSE inFlight[m]
    OBVIOUS
  <2>1. inFlight[m] = caller[c].job => job[caller[c].job].key = m
    BY <1>1 DEF PoolFits, KeysFit, C!Waits
  <2> QED BY <1>1, <2>1, C!NoneIsNothing DEF C!Cleared, C!TypeOK, C!NoneIsNothing
<1>6. \A j \in Jobs : \/ job'[j] = job[j]
                      \/ /\ job'[j] = C!Free /\ job[j].st = "done"
                         /\ \A d \in Callers : caller'[d].job # j
                         /\ \A m \in Keys : inFlight'[m] # j
  BY <1>1 DEF C!Recycled
<1>7. job' \in [Jobs -> JobRow] /\ C!JobsHavePlaces' /\ QueuesFit'
  <2>1. \A j \in Jobs :
          job[j].st = "running" <=> \E w \in Workers : worker'[w] = j
    BY <1>1 DEF C!NothingLost, C!JobsHavePlaces
  <2>2. job \in [Jobs -> JobRow] /\ worker' \in [Workers -> Jobs \cup {None}]
    BY <1>1 DEF C!TypeOK, JobRow
  <2> QED BY <1>1, <2>1, <2>2, RecycleKeeps
<1>8. C!TypeOK'
  BY <1>1, <1>4, <1>7 DEF C!TypeOK, C!Idle, JobRow
<1>9. C!KeysHaveLeaders'
  <2> SUFFICES ASSUME NEW m \in Keys, inFlight'[m] # None
               PROVE  \E d \in Callers : caller'[d] = [job |-> inFlight'[m], leads |-> TRUE]
    BY DEF C!KeysHaveLeaders
  <2>1. inFlight'[m] = inFlight[m]
    BY <1>5
  <2>2. PICK d \in Callers : caller[d] = [job |-> inFlight[m], leads |-> TRUE]
    BY <2>1 DEF C!NothingLost, C!KeysHaveLeaders
  <2>3. d # c
    BY <1>5, <2>2
  <2> QED BY <1>2, <2>1, <2>2, <2>3
<1>10. C!LeadersHaveKeys'
  <2> SUFFICES ASSUME NEW d \in Callers, caller'[d].leads, job'[caller'[d].job].key # None
               PROVE  \/ inFlight'[job'[caller'[d].job].key] = caller'[d].job
                      \/ job'[caller'[d].job].st = "done"
    BY DEF C!LeadersHaveKeys
  <2> DEFINE i == caller[d].job
  <2>1. d # c /\ caller'[d] = caller[d]
    BY <1>2 DEF C!Idle
  <2>2. i \in Jobs
    BY <2>1 DEF C!TypeOK, PoolFits, LeadersFit, C!Waits
  <2>3. job'[i] = job[i]
    BY <2>1, <2>2, <1>6
  <2>4. inFlight[job[i].key] = i \/ job[i].st = "done"
    BY <2>1, <2>3 DEF C!NothingLost, C!LeadersHaveKeys
  <2>5. CASE inFlight[job[i].key] = i
    <3>1. ~(caller[c].leads /\ i = caller[c].job)
      BY <2>1 DEF PoolFits, LeadersFit
    <3>2. job[i].key \in Keys
      BY <2>1, <2>2, <2>3 DEF C!TypeOK
    <3> QED BY <2>1, <2>3, <2>5, <3>1, <3>2, <1>5
  <2> QED BY <2>1, <2>3, <2>4, <2>5
<1>11. C!WaitsHaveJobs'
  <2> SUFFICES ASSUME NEW d \in Callers, caller'[d].job # None
               PROVE  job'[caller'[d].job].st # "free"
    BY DEF C!WaitsHaveJobs, C!Waits
  <2>1. caller'[d] = caller[d]
    BY <1>2 DEF C!Idle
  <2>2. caller[d].job \in Jobs /\ job[caller[d].job].st # "free"
    BY <2>1 DEF C!TypeOK, C!NothingLost, C!WaitsHaveJobs, C!Waits
  <2> QED BY <2>1, <2>2, <1>6
<1>12. WorkersFit' /\ LeadersFit'
  BY <1>1, <1>2 DEF PoolFits, WorkersFit, LeadersFit, C!Waits, C!Idle
<1>13. KeysFit'
  BY <1>4, <1>5, <1>6 DEF PoolFits, KeysFit
<1> QED BY <1>7, <1>8, <1>9, <1>10, <1>11, <1>12, <1>13 DEF C!NothingLost, PoolFits

LEMMA TakeKeeps ==
  ASSUME C!NoneIsNothing, PoolInv, NEW w \in Workers, C!Take(w)
  PROVE  PoolInv'
<1> USE DEF PoolInv
<1>1. PICK p \in C!Priorities :
        /\ worker[w] = None /\ queue[p] # <<>>
        /\ worker' = [worker EXCEPT ![w] = Head(queue[p])]
        /\ job' = [job EXCEPT ![Head(queue[p])].st = "running"]
        /\ queue' = [queue EXCEPT ![p] = Tail(@)]
        /\ UNCHANGED <<caller, inFlight>>
  <2>1. C!Pulls(w) \subseteq C!Priorities
    BY DEF C!Pulls, C!Priorities
  <2> QED BY <2>1 DEF C!Take
<1> DEFINE h == Head(queue[p])
<1>2. /\ queue[p] \in Seq(Jobs) /\ h \in Jobs /\ h = queue[p][1] /\ 1 \in DOMAIN queue[p]
      /\ h # None
  BY <1>1, TailMoves DEF C!TypeOK, C!NoneIsNothing
<1>3. job[h].st = "queued" /\ job[h].prio = p
  BY <1>2 DEF PoolFits, QueuesFit
<1>4. /\ \A j \in Jobs : j # h => job'[j] = job[j]
      /\ job'[h] = [job[h] EXCEPT !.st = "running"]
      /\ job'[h].st = "running" /\ job'[h].prio = p /\ job'[h].key = job[h].key
      /\ worker'[w] = h /\ \A v \in Workers : v # w => worker'[v] = worker[v]
      /\ queue'[p] = Tail(queue[p]) /\ \A q \in C!Priorities : q # p => queue'[q] = queue[q]
  BY <1>1, <1>2, <1>3 DEF C!TypeOK
<1>0. /\ \A i \in DOMAIN queue'[p] : /\ i \in Nat /\ i >= 1 /\ i + 1 \in DOMAIN queue[p]
                                     /\ queue'[p][i] = queue[p][i + 1]
      /\ \A i \in DOMAIN queue[p] : i # 1 => /\ i - 1 \in DOMAIN queue'[p]
                                               /\ queue[p][i] = queue'[p][i - 1]
  <2> DEFINE t == Tail(queue[p])
  <2>1. /\ \A i \in DOMAIN t : /\ i \in Nat /\ i >= 1 /\ i + 1 \in DOMAIN queue[p]
                               /\ t[i] = queue[p][i + 1]
        /\ \A i \in DOMAIN queue[p] : i # 1 => i - 1 \in DOMAIN t /\ queue[p][i] = t[i - 1]
    BY <1>1, <1>2, TailMoves
  <2> HIDE DEF t
  <2>2. queue'[p] = t
    BY <1>4 DEF t
  <2> QED BY <2>1, <2>2
<1> HIDE DEF h
<1>5. C!TypeOK'
  <2>1. Tail(queue[p]) \in Seq(Jobs)
    BY <1>1, <1>2, TailMoves
  <2>2. queue' \in [C!Priorities -> Seq(Jobs)]
    BY <1>1, <2>1 DEF C!TypeOK
  <2>3. worker' \in [Workers -> Jobs \cup {None}]
    BY <1>1, <1>2 DEF C!TypeOK, h
  <2>4. job' \in [Jobs -> JobRow]
    BY <1>1 DEF C!TypeOK, JobRow
  <2> QED BY <1>1, <2>2, <2>3, <2>4 DEF C!TypeOK, JobRow
\* The head is in its queue once, and nowhere else.
<1>6. /\ \A i \in DOMAIN queue'[p] : queue'[p][i] # h
      /\ \A q \in C!Priorities : q # p => \A i \in DOMAIN queue[q] : queue[q][i] # h
      /\ \A v \in Workers : worker[v] # h
  <2>1. \A i \in DOMAIN queue'[p] : queue'[p][i] # h
    <3> SUFFICES ASSUME NEW i \in DOMAIN queue'[p], queue'[p][i] = h PROVE FALSE
      OBVIOUS
    <3>1. i + 1 \in DOMAIN queue[p] /\ queue[p][i + 1] = h /\ i \in Nat /\ i >= 1
      BY <1>0
    <3> QED BY <3>1, <1>2 DEF PoolFits, QueuesFit
  <2>2. \A q \in C!Priorities : q # p => \A i \in DOMAIN queue[q] : queue[q][i] # h
    BY <1>3 DEF PoolFits, QueuesFit
  <2>3. \A v \in Workers : worker[v] # h
    BY <1>2, <1>3 DEF C!NothingLost, C!JobsHavePlaces
  <2> QED BY <2>1, <2>2, <2>3
<1>7. C!KeysHaveLeaders' /\ LeadersFit'
  BY <1>1 DEF C!NothingLost, C!KeysHaveLeaders, PoolFits, LeadersFit, C!Waits
<1>8. \A j \in Jobs : /\ job'[j].key = job[j].key
                      /\ job'[j].st = IF j = h THEN "running" ELSE job[j].st
                      /\ job'[j].prio = job[j].prio
  <2> SUFFICES ASSUME NEW j \in Jobs
               PROVE  /\ job'[j].key = job[j].key
                      /\ job'[j].st = IF j = h THEN "running" ELSE job[j].st
                      /\ job'[j].prio = job[j].prio
    OBVIOUS
  <2>1. CASE j = h
    BY <2>1, <1>3, <1>4
  <2>2. CASE j # h
    BY <2>2, <1>4
  <2> QED BY <2>1, <2>2
<1>9. C!WaitsHaveJobs' /\ KeysFit'
  BY <1>1, <1>8 DEF C!NothingLost, C!WaitsHaveJobs, C!Waits, PoolFits, KeysFit, C!TypeOK
<1>10. C!LeadersHaveKeys'
  <2> SUFFICES ASSUME NEW d \in Callers, caller[d].leads, job'[caller[d].job].key # None
               PROVE  \/ inFlight[job'[caller[d].job].key] = caller[d].job
                      \/ job'[caller[d].job].st = "done"
    BY <1>1 DEF C!LeadersHaveKeys
  <2>1. caller[d].job \in Jobs
    BY DEF C!TypeOK, PoolFits, LeadersFit, C!Waits
  <2>2. caller[d].job = h => job[h].st # "done"
    BY <1>3
  <2> QED BY <2>1, <2>2, <1>8 DEF C!NothingLost, C!LeadersHaveKeys
<1>11. C!JobsHavePlaces'
  <2> SUFFICES ASSUME NEW j \in Jobs
               PROVE  /\ job'[j].st = "queued" <=> \E i \in DOMAIN queue'[job[j].prio] :
                                                     queue'[job[j].prio][i] = j
                      /\ job'[j].st = "running" <=> \E v \in Workers : worker'[v] = j
    BY <1>8 DEF C!JobsHavePlaces
  <2>1. CASE j = h
    BY <2>1, <1>3, <1>4, <1>6
  <2>2. CASE j # h
    <3>1. (\E v \in Workers : worker'[v] = j) <=> \E v \in Workers : worker[v] = j
      BY <2>2, <1>1, <1>2, <1>4 DEF C!NoneIsNothing
    <3>2. (\E i \in DOMAIN queue'[job[j].prio] : queue'[job[j].prio][i] = j)
            <=> \E i \in DOMAIN queue[job[j].prio] : queue[job[j].prio][i] = j
      <4>1. CASE job[j].prio # p
        BY <4>1, <1>4 DEF C!TypeOK
      <4>2. CASE job[j].prio = p
        BY <4>2, <2>2, <1>0, <1>2
      <4> QED BY <4>1, <4>2
    <3> QED BY <2>2, <3>1, <3>2, <1>8 DEF C!NothingLost, C!JobsHavePlaces
  <2> QED BY <2>1, <2>2
<1>12. QueuesFit'
  <2> SUFFICES ASSUME NEW q \in C!Priorities
               PROVE  /\ \A i \in DOMAIN queue'[q] : /\ job'[queue'[q][i]].st = "queued"
                                                     /\ job'[queue'[q][i]].prio = q
                      /\ \A i, n \in DOMAIN queue'[q] :
                           queue'[q][i] = queue'[q][n] => i = n
    BY DEF QueuesFit
  <2>1. CASE q # p
    <3>1. \A i \in DOMAIN queue[q] : queue[q][i] \in Jobs /\ queue[q][i] # h
      BY <2>1, <1>6 DEF C!TypeOK
    <3> QED BY <2>1, <3>1, <1>4 DEF PoolFits, QueuesFit
  <2>2. CASE q = p
    <3>1. \A i \in DOMAIN queue'[p] :
            /\ i + 1 \in DOMAIN queue[p] /\ queue'[p][i] = queue[p][i + 1]
            /\ queue'[p][i] \in Jobs /\ queue'[p][i] # h /\ i \in Nat
      BY <1>0, <1>2, <1>6
    <3>2. \A i, n \in DOMAIN queue'[p] : queue'[p][i] = queue'[p][n] => i = n
      <4> SUFFICES ASSUME NEW i \in DOMAIN queue'[p], NEW n \in DOMAIN queue'[p],
                          queue'[p][i] = queue'[p][n]
                   PROVE  i = n
        OBVIOUS
      <4>1. i + 1 = n + 1
        BY <3>1 DEF PoolFits, QueuesFit
      <4> QED BY <3>1, <4>1
    <3> QED BY <2>2, <3>1, <3>2, <1>4 DEF PoolFits, QueuesFit
  <2> QED BY <2>1, <2>2
<1>13. WorkersFit'
  BY <1>2, <1>4, <1>6 DEF PoolFits, WorkersFit
<1> QED BY <1>5, <1>7, <1>9, <1>10, <1>11, <1>12, <1>13 DEF C!NothingLost, PoolFits

LEMMA FinishKeeps ==
  ASSUME C!NoneIsNothing, PoolInv, NEW w \in Workers, C!Finish(w)
  PROVE  PoolInv'
<1> USE DEF PoolInv
<1> DEFINE j == worker[w]
           done == [job EXCEPT ![j].st = "done"]
<1>1. /\ j \in Jobs /\ job' = C!Recycled(done, caller, inFlight)
      /\ worker' = [worker EXCEPT ![w] = None] /\ UNCHANGED <<caller, queue, inFlight>>
  BY DEF C!Finish, C!TypeOK
<1>2. job[j].st = "running"
  BY <1>1 DEF C!NothingLost, C!JobsHavePlaces
<1>3. \A i \in Jobs : /\ done[i].prio = job[i].prio /\ done[i].key = job[i].key
                      /\ done[i].st = IF i = j THEN "done" ELSE job[i].st
  BY <1>1 DEF C!TypeOK
<1>4. done \in [Jobs -> JobRow]
  BY <1>1 DEF C!TypeOK, JobRow
<1> HIDE DEF done, j
<1>5. \A i \in Jobs : \/ job'[i] = done[i]
                      \/ /\ job'[i] = C!Free /\ done[i].st = "done"
                         /\ \A c \in Callers : caller[c].job # i
                         /\ \A m \in Keys : inFlight[m] # i
  BY <1>1, <1>4, RecycledSpares
<1>6. worker' \in [Workers -> Jobs \cup {None}]
  BY <1>1 DEF C!TypeOK
<1>7. job' \in [Jobs -> JobRow] /\ C!JobsHavePlaces' /\ QueuesFit'
  <2>1. ASSUME NEW i \in Jobs
        PROVE  /\ done[i].prio = job[i].prio
               /\ done[i].st = "queued" <=> job[i].st = "queued"
               /\ done[i].st = "running" <=> \E v \in Workers : worker'[v] = i
    <3>1. done[i].st = "queued" <=> job[i].st = "queued"
      BY <1>2, <1>3
    <3>2. \A v \in Workers : worker'[v] = i <=> v # w /\ worker[v] = i
      BY <1>1, C!NoneIsNothing DEF C!TypeOK, C!NoneIsNothing
    <3>3. CASE i = j
      <4>1. done[i].st = "done"
        BY <3>3, <1>3
      <4>2. ASSUME NEW v \in Workers, v # w, worker[v] = i PROVE FALSE
        <5>1. worker[v] = worker[w] /\ worker[v] # None
          BY <4>2, <3>3, <1>1 DEF j, C!NoneIsNothing
        <5> QED BY <4>2, <5>1 DEF PoolFits, WorkersFit
      <4> QED BY <3>1, <3>2, <4>1, <4>2, <1>3
    <3>4. CASE i # j
      <4>1. job[i].st = "running" <=> \E v \in Workers : worker[v] = i
        BY DEF C!NothingLost, C!JobsHavePlaces
      <4> QED BY <3>1, <3>2, <3>4, <4>1, <1>3 DEF j
    <3> QED BY <3>1, <3>3, <3>4, <1>3
  <2>2. UNCHANGED queue
    BY <1>1
  <2> QED BY <1>1, <1>4, <1>6, <2>1, <2>2, RecycleKeeps
<1>8. C!TypeOK'
  BY <1>1, <1>6, <1>7 DEF C!TypeOK, JobRow
<1>9. C!KeysHaveLeaders' /\ LeadersFit'
  BY <1>1 DEF C!NothingLost, C!KeysHaveLeaders, PoolFits, LeadersFit, C!Waits
<1>10. \A d \in Callers : C!Waits(d) =>
         /\ caller[d].job \in Jobs
         /\ job'[caller[d].job] = done[caller[d].job]
         /\ done[caller[d].job].st # "free"
  <2> SUFFICES ASSUME NEW d \in Callers, C!Waits(d)
               PROVE  /\ caller[d].job \in Jobs
                      /\ job'[caller[d].job] = done[caller[d].job]
                      /\ done[caller[d].job].st # "free"
    OBVIOUS
  <2>1. caller[d].job \in Jobs /\ job[caller[d].job].st # "free"
    BY DEF C!TypeOK, C!Waits, C!NothingLost, C!WaitsHaveJobs
  <2> QED BY <2>1, <1>3, <1>5
<1>11. C!WaitsHaveJobs'
  BY <1>1, <1>10 DEF C!WaitsHaveJobs, C!Waits
<1>12. C!LeadersHaveKeys'
  <2> SUFFICES ASSUME NEW d \in Callers, caller[d].leads, job'[caller[d].job].key # None
               PROVE  \/ inFlight[job'[caller[d].job].key] = caller[d].job
                      \/ job'[caller[d].job].st = "done"
    BY <1>1 DEF C!LeadersHaveKeys
  <2>1. caller[d].job \in Jobs /\ job'[caller[d].job] = done[caller[d].job]
    BY <1>10 DEF PoolFits, LeadersFit
  <2>2. job[caller[d].job].key # None
    BY <2>1, <1>3
  <2>3. \/ inFlight[job[caller[d].job].key] = caller[d].job
        \/ job[caller[d].job].st = "done"
    BY <2>2 DEF C!NothingLost, C!LeadersHaveKeys
  <2> QED BY <2>1, <2>3, <1>3
<1>13. KeysFit'
  <2> SUFFICES ASSUME NEW m \in Keys, inFlight[m] # None PROVE job'[inFlight[m]].key = m
    BY <1>1 DEF KeysFit
  <2>1. inFlight[m] \in Jobs /\ job[inFlight[m]].key = m
    BY DEF C!TypeOK, PoolFits, KeysFit
  <2> QED BY <2>1, <1>3, <1>5
<1>14. WorkersFit'
  BY <1>1 DEF PoolFits, WorkersFit, C!TypeOK
<1> QED BY <1>7, <1>8, <1>9, <1>11, <1>12, <1>13, <1>14 DEF C!NothingLost, PoolFits

-----------------------------------------------------------------------------
LEMMA PoolKept == C!NoneIsNothing /\ PoolInv /\ [C!Next]_(C!vars) => PoolInv'
<1> SUFFICES ASSUME C!NoneIsNothing, PoolInv, [C!Next]_(C!vars) PROVE PoolInv'
  OBVIOUS
<1>1. CASE \E c \in Callers, k \in Keys : C!Join(c, k)
  BY <1>1, JoinKeeps
<1>2. CASE \E c \in Callers, p \in C!Priorities, k \in Keys \cup {None} : C!Enqueue(c, p, k)
  BY <1>2, EnqueueKeeps
<1>3. CASE \E c \in Callers : C!Resume(c) \/ C!GiveUp(c)
  BY <1>3, LeaveKeeps DEF C!Resume, C!GiveUp
<1>4. CASE \E w \in Workers : C!Take(w) \/ C!Finish(w)
  BY <1>4, TakeKeeps, FinishKeeps
<1>5. CASE UNCHANGED C!vars
  BY <1>5 DEF C!vars, PoolInv, C!TypeOK, C!NothingLost, C!KeysHaveLeaders, C!LeadersHaveKeys,
              C!JobsHavePlaces, C!WaitsHaveJobs, PoolFits, QueuesFit, WorkersFit, LeadersFit,
              KeysFit, C!Waits
<1> QED BY <1>1, <1>2, <1>3, <1>4, <1>5 DEF C!Next

\* The type invariant.
THEOREM PoolTypeCorrect == ASSUME C!NoneIsNothing PROVE C!Spec => []C!TypeOK
<1>1. C!Init => PoolInv
  BY PoolStarts
<1>2. PoolInv /\ [C!Next]_(C!vars) => PoolInv'
  BY PoolKept
<1> QED BY <1>1, <1>2, PTL DEF C!Spec, PoolInv

\* No key, job or wait is lost, whoever joins, times out or is cancelled, and
\* however slow the gateway is.
THEOREM PoolLosesNothing == ASSUME C!NoneIsNothing PROVE C!Spec => []C!NothingLost
<1>1. C!Init => PoolInv
  BY PoolStarts
<1>2. PoolInv /\ [C!Next]_(C!vars) => PoolInv'
  BY PoolKept
<1> QED BY <1>1, <1>2, PTL DEF C!Spec, PoolInv

-----------------------------------------------------------------------------
(* OrderRetry.                                                             *)

(***************************************************************************)
(* What else holds of an order call: the attempts to come are blank, those *)
(* behind it dying; the call sees no more than there is; a fill behind it  *)
(* came unseen; and it returns leaving nothing it did not report.          *)
(***************************************************************************)
OrdersFit ==
  /\ \A a \in O!Attempts :
       /\ state[a] = "none" => filled[a] = 0
       /\ filled[a] = Qty => state[a] = "done"
       /\ a > attempt => state[a] = "none"
       /\ a < attempt => a \in dying
       /\ kind = "combo" /\ a < attempt => filled[a] = 0 \/ a \in late
  /\ at = "submit" => state[attempt] = "none"
  /\ at \in {"awaiting", "cancelling"} =>
       seen.filled <= filled[attempt] /\ (seen.ended => state[attempt] = "done")
  /\ at = "cancelling" =>
       attempt \in dying /\ (kind = "combo" => filled[attempt] = 0 \/ attempt \in late)
  /\ at = "returned" =>
       result = "submitted" \/ attempt \in dying \/ state[attempt] = "done"

OrderReports ==
  /\ at \notin {"returned"} => result = "none" /\ reported = 0
  /\ kind = "combo" => /\ result = "filled" => filled[attempt] = Qty
                       /\ reported <= filled[attempt]

OrderInv == O!TypeOK /\ OrdersFit /\ OrderReports

LEMMA OrderStarts == O!Init => OrderInv
BY OrderAssumption DEF O!Init, OrderInv, O!TypeOK, OrdersFit, OrderReports, O!Attempts, O!Unseen

LEMMA OrderKept == OrderInv /\ [O!Next]_orderVars => OrderInv'
<1> SUFFICES ASSUME OrderInv, [O!Next]_orderVars PROVE OrderInv'
  OBVIOUS
<1> USE OrderAssumption DEF OrderInv, O!TypeOK, OrdersFit, OrderReports, O!Attempts, O!call, O!book
<1>1. CASE O!Submit
  BY <1>1 DEF O!Submit, O!Unseen
<1>2. CASE O!SeesFill
  BY <1>2 DEF O!SeesFill, O!Return
<1>3. CASE O!SeesEnd
  BY <1>3 DEF O!SeesEnd, O!Return
<1>4. CASE O!TimesOutPartly
  BY <1>4 DEF O!TimesOutPartly, O!TimedOut, O!Return, O!CancelIt
<1>5. CASE O!LeavesMarketOrder
  BY <1>5 DEF O!LeavesMarketOrder, O!TimedOut, O!Return
<1>6. CASE O!TimesOut
  BY <1>6 DEF O!TimesOut, O!TimedOut, O!CancelIt
<1>7. CASE O!Retry
  BY <1>7 DEF O!Retry, O!LastAttempt
<1>8. CASE O!GivesUp
  BY <1>8 DEF O!GivesUp, O!Return
<1>9. CASE O!StatusArrives
  BY <1>9 DEF O!StatusArrives
<1>10. CASE O!Raises
  <2>1. at' = "raised" /\ UNCHANGED <<kind, market, attempt, seen, result, reported, O!book>>
    BY <1>10 DEF O!Raises
  <2>2. at \in {"submit", "awaiting"}
    BY <1>10 DEF O!Raises, O!TimedOut
  <2> QED BY <2>1, <2>2
<1>11. ASSUME NEW a \in O!Attempts, O!Fill(a) PROVE OrderInv'
  BY <1>11 DEF O!Fill
<1>12. ASSUME NEW a \in O!Attempts, O!End(a) PROVE OrderInv'
  BY <1>12 DEF O!End
<1>13. CASE O!Over \/ UNCHANGED orderVars
  BY <1>13 DEF O!Over, O!vars, orderVars
<1> QED
  BY <1>1, <1>2, <1>3, <1>4, <1>5, <1>6, <1>7, <1>8, <1>9, <1>10, <1>11, <1>12, <1>13
  DEF O!Next, O!CallStep

LEMMA OrderHolds == OrderInv => O!NothingLeftWorking /\ O!ComboExcessTakesARace
<1> SUFFICES ASSUME OrderInv PROVE O!NothingLeftWorking /\ O!ComboExcessTakesARace
  OBVIOUS
<1> USE OrderAssumption DEF OrderInv, O!TypeOK, OrdersFit, OrderReports, O!Attempts
<1>1. O!NothingLeftWorking
  BY DEF O!NothingLeftWorking
<1>2. ASSUME kind = "combo", \A a \in late : ~ (filled[a] > 0)
      PROVE  ~ (SumFunctionOnSet(filled, O!Attempts) > Qty)
  <2>1. \A a \in O!Attempts : filled[a] \in Int /\ (a # attempt => filled[a] = 0)
    BY <1>2
  <2>2. IsFiniteSet(O!Attempts) /\ IsFiniteSet(O!Attempts \ {attempt})
    <3>1. IsFiniteSet(1 .. MaxRetries + 1)
      BY FS_Interval
    <3> QED BY <3>1, FS_Subset
  <2>3. SumFunctionOnSet(filled, O!Attempts \ {attempt}) = 0
    BY <2>1, <2>2, SumsOfZeros
  <2> HIDE DEF O!Attempts
  <2>4. SumFunctionOnSet(filled, O!Attempts)
          = filled[attempt] + SumFunctionOnSet(filled, O!Attempts \ {attempt})
    BY <2>1, <2>2, SumsOfParts
  <2>5. filled[attempt] <= Qty /\ filled[attempt] \in Int
    BY DEF O!Attempts
  <2> HIDE DEF OrderInv
  <2> QED BY <2>3, <2>4, <2>5
<1>3. O!SumFunctionOnSet(filled, O!Attempts) = SumFunctionOnSet(filled, O!Attempts)
  <2> HIDE DEF OrderInv, O!Attempts
  <2> QED BY DEF SumFunctionOnSet, FoldFunctionOnSet, MapThenFoldSet, O!SumFunctionOnSet,
                 O!FoldFunctionOnSet, O!MapThenFoldSet
<1> HIDE DEF OrderInv, O!Attempts, O!TypeOK, OrdersFit, OrderReports
<1> QED BY <1>1, <1>2, <1>3 DEF O!ComboExcessTakesARace

-----------------------------------------------------------------------------
(* LiveFeed.                                                               *)

(***************************************************************************)
(* What else holds of the feed: until a subscription changes under a       *)
(* broadcast, the keys the loop has left have entries, and the set it      *)
(* iterates over is the one it began with.                                 *)
(***************************************************************************)
SweepsFit ==
  loop.at \in {"choosing", "sending"} /\ ~churned =>
    /\ \A k \in loop.keys : subs[k] # None
    /\ loop.at = "sending" =>
         sweep.own /\ subs[sweep.key] = sweep.old /\ F!Cardinality(sweep.old) = sweep.size

FeedInv ==
  /\ loop \in [at : {"asleep", "choosing", "sending", "ended"}, keys : SUBSET FeedKeys]
  /\ subs \in [FeedKeys -> (SUBSET Clients) \cup {None}]
  /\ churned \in BOOLEAN /\ misread \in BOOLEAN
  /\ loop.at = "sending" => sweep.key \in FeedKeys
  /\ SweepsFit /\ F!FeedEndTakesChurn

LEMMA FeedStarts == F!Init => FeedInv
<1> SUFFICES ASSUME F!Init PROVE FeedInv
  OBVIOUS
<1>1. loop.at = "asleep" /\ loop.keys = {} /\ churned \in BOOLEAN /\ misread \in BOOLEAN
  BY DEF F!Init
<1>2. loop \in [at : {"asleep", "choosing", "sending", "ended"}, keys : SUBSET FeedKeys]
  BY DEF F!Init
<1>3. subs \in [FeedKeys -> (SUBSET Clients) \cup {None}]
  BY DEF F!Init
<1> QED BY <1>1, <1>2, <1>3 DEF FeedInv, SweepsFit, F!FeedEndTakesChurn

LEMMA FeedKept == FeedInv /\ [F!Next]_feedVars => FeedInv'
<1> SUFFICES ASSUME FeedInv, [F!Next]_feedVars PROVE FeedInv'
  OBVIOUS
<1> USE DEF FeedInv, SweepsFit, F!FeedEndTakesChurn, F!table
\* A handler that runs while the loop sleeps, sends or has ended.
<1>1. ASSUME F!Yields, subs' \in [FeedKeys -> (SUBSET Clients) \cup {None}], UNCHANGED <<loop, misread>>,
             sweep'.key = sweep.key, subs' = subs => sweep' = sweep,
             churned' = (churned \/ (loop.at = "sending" /\ subs' # subs))
      PROVE  FeedInv'
  <2>1. churned' \in BOOLEAN /\ (churned => churned')
    BY <1>1, Zenon
  <2>2. CASE subs' = subs
    <3>1. churned' = churned
      BY <1>1, <2>2
    <3> QED BY <1>1, <2>2, <3>1
  <2>3. CASE subs' # subs
    <3>1. loop.at = "sending" => churned'
      BY <1>1, <2>3
    <3> QED BY <1>1, <2>1, <3>1 DEF F!Yields
  <2> QED BY <2>2, <2>3
<1>2. ASSUME NEW c \in Clients, F!Connect(c) \/ F!Vanish(c) PROVE FeedInv'
  BY <1>2 DEF F!Connect, F!Vanish
<1>3. ASSUME NEW c \in Clients, NEW k \in FeedKeys, F!Subscribe(c, k) PROVE FeedInv'
  <2>1. /\ F!Yields /\ subs' \in [FeedKeys -> (SUBSET Clients) \cup {None}] /\ UNCHANGED <<loop, misread, sweep>>
        /\ churned' = (churned \/ (loop.at = "sending" /\ subs' # subs))
    BY <1>3 DEF F!Subscribe, F!Touched
  <2> QED BY <1>1, <2>1
<1>4. ASSUME NEW c \in Clients, NEW k \in FeedKeys, F!Unsubscribe(c, k) PROVE FeedInv'
  <2>1. /\ F!Yields /\ subs' \in [FeedKeys -> (SUBSET Clients) \cup {None}] /\ UNCHANGED <<loop, misread>>
        /\ churned' = (churned \/ (loop.at = "sending" /\ subs' # subs))
        /\ sweep'.key = sweep.key
    BY <1>4 DEF F!Unsubscribe, F!Touched
  <2>2. subs' # subs \/ sweep' = sweep
    BY <1>4 DEF F!Unsubscribe
  <2> QED BY <1>1, <2>1, <2>2
<1>5. ASSUME NEW c \in Clients, F!Disconnect(c) PROVE FeedInv'
  <2>1. /\ F!Yields /\ subs' \in [FeedKeys -> (SUBSET Clients) \cup {None}] /\ UNCHANGED <<loop, misread, sweep>>
        /\ churned' = (churned \/ (loop.at = "sending" /\ subs' # subs))
    BY <1>5 DEF F!Disconnect, F!Without, F!Touched
  <2> QED BY <1>1, <2>1
<1>6. CASE F!PauseResume
  BY <1>6 DEF F!PauseResume
<1>7. CASE F!Wake
  BY <1>7 DEF F!Wake
<1>8. CASE F!ChooseRaises
  <2>1. PICK k \in loop.keys : /\ subs[k] = None \/ (k \in Unreadable /\ subs[k] # {})
                               /\ misread' = (misread \/ subs[k] # None)
    BY <1>8 DEF F!ChooseRaises
  <2>2. misread' \in BOOLEAN
    BY <2>1, Zenon
  <2>3. churned \/ misread'
    BY <1>8, <2>1 DEF F!ChooseRaises
  <2> QED BY <1>8, <2>2, <2>3 DEF F!ChooseRaises
<1>9. CASE F!Choose
  <2>1. /\ loop.at = "choosing" /\ UNCHANGED <<subs, active, client, paused, churned, misread>>
    BY <1>9 DEF F!Choose
  <2>2. PICK k \in loop.keys :
          /\ subs[k] # None
          /\ IF subs[k] = {} THEN loop' = [loop EXCEPT !.keys = @ \ {k}] /\ UNCHANGED sweep
             ELSE /\ k \notin Unreadable
                  /\ loop' = [at |-> "sending", keys |-> loop.keys \ {k}]
                  /\ \E c \in subs[k] :
                       sweep' = [key |-> k, own |-> TRUE, size |-> F!Cardinality(subs[k]),
                                 old |-> subs[k], seen |-> {}, to |-> c, failed |-> {}]
    BY <1>9, Zenon DEF F!Choose
  <2>3. CASE loop' = [loop EXCEPT !.keys = @ \ {k}]
    <3>1. /\ loop'.at = "choosing" /\ loop'.keys = loop.keys \ {k}
          /\ loop' \in [at : {"asleep", "choosing", "sending", "ended"}, keys : SUBSET FeedKeys]
      BY <2>1, <2>3
    <3> QED BY <2>1, <3>1
  <2>4. CASE loop' = [at |-> "sending", keys |-> loop.keys \ {k}]
    <3>1. loop'.at = "sending"
      BY <2>4
    <3>2. /\ sweep'.key = k /\ sweep'.own /\ sweep'.size = F!Cardinality(subs[k])
          /\ sweep'.old = subs[k]
      BY <2>2, <2>1, <3>1
    <3> QED BY <2>1, <2>4, <3>2
  <2> QED BY <2>2, <2>3, <2>4
<1>10. CASE F!PassOver
  BY <1>10 DEF F!PassOver
<1>11. CASE F!SendEnds
  <2>1. loop.at = "sending" /\ UNCHANGED <<client, paused, churned, misread>>
    BY <1>11 DEF F!SendEnds
  <2>2. \/ /\ F!Cardinality(F!Members \ {}) # sweep.size
           /\ loop' = [at |-> "ended", keys |-> {}] /\ UNCHANGED <<subs, active>>
        \/ /\ UNCHANGED <<subs, active, loop>>
           /\ \E past, c, failed :
                sweep' = [sweep EXCEPT !.seen = past, !.to = c, !.failed = failed]
        \/ loop' = [loop EXCEPT !.at = "choosing"] /\ \E failed : F!Without(failed)
    <3> HIDE DEF FeedInv, SweepsFit, F!FeedEndTakesChurn
    <3> DEFINE failed(fails) == IF fails THEN sweep.failed \cup {sweep.to} ELSE sweep.failed
               left == F!Members \ {}
               past == sweep.seen \cup {sweep.to}
               next == left \ past
    <3>1. \E fails \in BOOLEAN :
            \/ /\ F!Cardinality(left) # sweep.size
               /\ loop' = [at |-> "ended", keys |-> {}] /\ UNCHANGED <<subs, active>>
            \/ /\ \E c \in next :
                    sweep' = [sweep EXCEPT !.seen = past, !.to = c, !.failed = failed(fails)]
               /\ UNCHANGED <<subs, active, loop>>
            \/ F!Without(failed(fails)) /\ loop' = [loop EXCEPT !.at = "choosing"]
      BY <1>11, Zenon DEF F!SendEnds, F!Dropped, F!table
    <3> HIDE DEF failed, past, next
    <3> QED BY <3>1, Zenon
  <2>3. CASE /\ F!Cardinality(F!Members \ {}) # sweep.size
             /\ loop' = [at |-> "ended", keys |-> {}] /\ UNCHANGED <<subs, active>>
    <3>1. CASE churned
      BY <2>1, <2>3, <3>1
    <3>2. CASE ~churned
      <4>1. F!Members \ {} = sweep.old
        BY <2>1, <3>2 DEF F!Members
      <4> QED BY <2>1, <2>3, <3>2, <4>1
    <3> QED BY <3>1, <3>2
  <2>4. CASE /\ UNCHANGED <<subs, active, loop>>
             /\ \E past, c, failed :
                  sweep' = [sweep EXCEPT !.seen = past, !.to = c, !.failed = failed]
    <3>1. /\ sweep'.key = sweep.key /\ sweep'.own = sweep.own
          /\ sweep'.size = sweep.size /\ sweep'.old = sweep.old
      BY <2>4
    <3> QED BY <2>1, <2>4, <3>1
  <2>5. CASE loop' = [loop EXCEPT !.at = "choosing"] /\ \E failed : F!Without(failed)
    <3>1. PICK failed : F!Without(failed)
      BY <2>5
    <3>2. /\ subs' \in [FeedKeys -> (SUBSET Clients) \cup {None}]
          /\ \A k \in FeedKeys : subs[k] # None => subs'[k] # None
      BY <3>1, FeedAssumption DEF F!Without, F!NoneIsNoSet
    <3> QED BY <2>1, <2>5, <3>2
  <2> QED BY <2>2, <2>3, <2>4, <2>5
<1>12. CASE UNCHANGED feedVars
  BY <1>12 DEF feedVars
<1> QED BY <1>2, <1>3, <1>4, <1>5, <1>6, <1>7, <1>8, <1>9, <1>10, <1>11, <1>12
        DEF F!Next, F!LoopStep

-----------------------------------------------------------------------------
(* Scheduler.                                                              *)

\* The tasks marked in this pass.
Marked == {t \in LoopTasks : age[t] = spent}

Whole == SumFunctionOnSet(Guard, LoopTasks)

(***************************************************************************)
(* What else holds of the background loop: a task that runs has not been   *)
(* marked in this pass, the pass has lasted no longer than the tasks it    *)
(* has marked may take, no task was due by more than a pass at its top,    *)
(* and only a reconnect leaves the heartbeat old.                          *)
(***************************************************************************)
LoopFits ==
  /\ \A t \in LoopTasks : age[t] >= spent
  /\ running = None => length = 0
  /\ running # None => length <= Guard[running] /\ running \notin Marked
  /\ spent <= SumFunctionOnSet(Guard, Marked)
  /\ \A t \in LoopTasks \ {"backfill"} : age[t] - spent <= Interval[t] + Whole
  /\ beat <= IF "reconnect" \in Marked THEN Guard["reconnect"] ELSE 0

LoopInv == T!TypeOK /\ LoopFits

LEMMA LoopConstants ==
  /\ LoopTasks \subseteq {T!Order[i] : i \in 1 .. 12} /\ IsFiniteSet(LoopTasks)
  /\ None \notin LoopTasks /\ "reconnect" \in LoopTasks
  /\ "backfill" \in LoopTasks => "reconciliation" \in LoopTasks
  /\ Guard \in [LoopTasks -> Nat] /\ Interval \in [LoopTasks -> Nat \ {0}]
  /\ Patience \in Nat /\ Guard["reconnect"] < Patience
<1>1. DOMAIN T!Order = 1 .. 12
  BY DEF T!Order
<1>2. LoopTasks \subseteq {T!Order[i] : i \in 1 .. 12}
  BY <1>1, LoopAssumption DEF T!TasksAreScheduled
<1>3. IsFiniteSet(LoopTasks)
  <2>1. PICK m \in Nat : m = 12
    OBVIOUS
  <2> DEFINE f == [i \in 1 .. m |-> T!Order[i]]
             entries == {T!Order[i] : i \in 1 .. m}
  <2>2. f \in Surjection(1 .. m, entries)
    BY DEF Surjection
  <2>3. IsFiniteSet(entries)
    BY <2>2, FS_Interval, FS_Surjection
  <2>4. LoopTasks \subseteq entries
    BY <1>2, <2>1
  <2> QED BY <2>3, <2>4, FS_Subset
<1> QED BY <1>2, <1>3, LoopAssumption DEF T!TasksAreScheduled

\* The sums of guards.
LEMMA GuardSums ==
  ASSUME NEW D \in SUBSET LoopTasks
  PROVE  /\ SumFunctionOnSet(Guard, D) \in Nat /\ SumFunctionOnSet(Guard, D) <= Whole
         /\ Whole \in Nat
         /\ \A t \in LoopTasks \ D :
              SumFunctionOnSet(Guard, D \cup {t}) = Guard[t] + SumFunctionOnSet(Guard, D)
<1>1. \A U \in SUBSET LoopTasks : IsFiniteSet(U) /\ \A t \in U : Guard[t] \in Nat
  BY LoopConstants, FS_Subset
<1>2. \A U \in SUBSET LoopTasks : SumFunctionOnSet(Guard, U) \in Int
  <2> SUFFICES ASSUME NEW U \in SUBSET LoopTasks PROVE SumFunctionOnSet(Guard, U) \in Int
    OBVIOUS
  <2>1. \A t \in U : Guard[t] \in Int
    <3>1. Guard \in [LoopTasks -> Nat]
      BY LoopConstants
    <3> QED BY <3>1
  <2> QED BY <1>1, <2>1, SumsOfParts
<1>3. SumFunctionOnSet(Guard, {}) = 0
  BY LoopConstants, SumsOfParts
<1>4. \A U \in SUBSET LoopTasks : 0 <= SumFunctionOnSet(Guard, U)
  <2> SUFFICES ASSUME NEW U \in SUBSET LoopTasks PROVE 0 <= SumFunctionOnSet(Guard, U)
    OBVIOUS
  <2>1. SumFunctionOnSet(Guard, {}) <= SumFunctionOnSet(Guard, U)
    BY <1>1, PartsSumToLess
  <2> QED BY <1>3, <2>1
<1>5. SumFunctionOnSet(Guard, D) <= Whole
  BY <1>1, PartsSumToLess DEF Whole
<1>6. ASSUME NEW t \in LoopTasks \ D
      PROVE  SumFunctionOnSet(Guard, D \cup {t}) = Guard[t] + SumFunctionOnSet(Guard, D)
  <2> DEFINE both == D \cup {t}
  <2>1. IsFiniteSet(both) /\ (\A x \in both : Guard[x] \in Int) /\ t \in both
    BY <1>1
  <2>2. both \ {t} = D
    OBVIOUS
  <2> HIDE DEF both
  <2>3. SumFunctionOnSet(Guard, both) = Guard[t] + SumFunctionOnSet(Guard, both \ {t})
    BY <2>1, SumsOfParts
  <2> QED BY <2>2, <2>3 DEF both
<1> QED BY <1>2, <1>4, <1>5, <1>6 DEF Whole

\* What is first among the due is due, and if none is first, none is.
LEMMA FirstIsDue ==
  /\ T!FirstDue # 0 => T!Order[T!FirstDue] \in LoopTasks /\ T!Due(T!Order[T!FirstDue])
  /\ T!FirstDue = 0 => \A t \in LoopTasks : ~T!Due(t)
<1> DEFINE due == {i \in 1 .. 12 : T!Order[i] \in LoopTasks /\ T!Due(T!Order[i])}
           first == CHOOSE x \in due : \A y \in due : x <= y
<1>1. T!FirstDue = IF due # {} THEN first ELSE 0
  <2>1. Len(T!Order) = 12
    BY DEF T!Order
  <2> QED BY <2>1 DEF T!FirstDue, T!SelectInSeq, T!Min
<1>2. due # {} => first \in due
  <2>1. due \in SUBSET Nat
    OBVIOUS
  <2> HIDE DEF due
  <2> QED BY <2>1, LeastOfSet
<1> HIDE DEF first
<1>3. due = {} => \A t \in LoopTasks : ~T!Due(t)
  BY LoopConstants
<1> QED BY <1>1, <1>2, <1>3

LEMMA LoopStarts == T!Init => LoopInv
<1> SUFFICES ASSUME T!Init PROVE LoopInv
  OBVIOUS
<1>1. /\ running = None /\ length = 0 /\ spent = 0 /\ beat = 0 /\ crisis \in BOOLEAN
  BY DEF T!Init
<1>2. PICK uptime \in UNION {0 .. Interval[t] : t \in LoopTasks} :
        age = [t \in LoopTasks |-> IF t \in T!AtStart THEN 0 ELSE T!Min({uptime, Interval[t]})]
  BY DEF T!Init
<1>3. \A t \in LoopTasks : T!Min({uptime, Interval[t]}) \in 0 .. Interval[t]
  <2> SUFFICES ASSUME NEW t \in LoopTasks PROVE T!Min({uptime, Interval[t]}) \in 0 .. Interval[t]
    OBVIOUS
  <2>0. uptime \in Nat
    BY LoopConstants
  <2> DEFINE two == {uptime, Interval[t]}
  <2>1. two \in SUBSET Nat /\ two # {} /\ Interval[t] \in two
    BY <2>0, LoopConstants
  <2> HIDE DEF two
  <2>2. T!Min(two) \in two /\ T!Min(two) <= Interval[t]
    BY <2>1, LeastOfSet DEF T!Min
  <2>3. Interval[t] \in Nat
    BY LoopConstants
  <2> QED BY <2>1, <2>2, <2>3 DEF two
<1>4. age \in [LoopTasks -> Nat] /\ \A t \in LoopTasks : age[t] <= Interval[t]
  BY <1>2, <1>3, LoopConstants
<1>5. SumFunctionOnSet(Guard, Marked) \in Nat /\ Whole \in Nat
  BY GuardSums DEF Marked
<1>6. LoopFits
  BY <1>1, <1>4, <1>5, LoopConstants DEF LoopFits
<1> QED BY <1>1, <1>4, <1>6 DEF LoopInv, T!TypeOK

LEMMA LoopKept == LoopInv /\ [T!Next]_taskVars => LoopInv'
<1> SUFFICES ASSUME LoopInv, [T!Next]_taskVars PROVE LoopInv'
  OBVIOUS
<1> USE LoopConstants DEF LoopInv, T!TypeOK
<1>0. /\ SumFunctionOnSet(Guard, Marked) \in Nat /\ SumFunctionOnSet(Guard, Marked) <= Whole
      /\ Whole \in Nat
  BY GuardSums DEF Marked
<1>1. CASE T!Begin
  <2> DEFINE t == T!Order[T!FirstDue]
  <2>1. t \in LoopTasks /\ T!Due(t)
    BY <1>1, FirstIsDue DEF T!Begin
  <2> HIDE DEF t
  <2>2. /\ running = None /\ running' = t /\ length' \in {0, Guard[t]}
        /\ UNCHANGED <<age, spent, beat, crisis>>
    BY <1>1 DEF T!Begin, T!Lengths, t
  <2>3. Marked' = Marked
    BY <2>2 DEF Marked
  <2>4. t \notin Marked
    BY <2>1 DEF T!Due, Marked
  <2>5. T!TypeOK'
    BY <2>1, <2>2
  <2> QED BY <2>1, <2>2, <2>3, <2>4, <2>5 DEF LoopFits
<1>2. CASE T!SkipEquities
  <2>1. "equity" \in LoopTasks /\ T!Due("equity")
    BY <1>2, FirstIsDue DEF T!SkipEquities
  <2>2. /\ running = None /\ age' = [age EXCEPT !["equity"] = spent]
        /\ UNCHANGED <<running, length, spent, beat, crisis>>
    BY <1>2 DEF T!SkipEquities
  <2>3. "equity" \notin Marked
    BY <2>1 DEF T!Due, Marked
  <2>4. Marked' = Marked \cup {"equity"}
    BY <2>1, <2>2 DEF Marked
  <2>5. SumFunctionOnSet(Guard, Marked') >= SumFunctionOnSet(Guard, Marked)
    BY <2>1, <2>3, <2>4, <1>0, GuardSums DEF Marked
  <2>6. T!TypeOK'
    BY <2>1, <2>2
  <2>7. spent <= SumFunctionOnSet(Guard, Marked')
    <3>1. SumFunctionOnSet(Guard, Marked') \in Nat
      BY GuardSums DEF Marked
    <3> QED BY <1>0, <2>5, <3>1 DEF LoopFits
  <2>8. "reconnect" \in Marked' <=> "reconnect" \in Marked
    BY <2>4
  <2> QED BY <2>1, <2>2, <2>6, <2>7, <2>8, <1>0 DEF LoopFits
<1>3. CASE T!Finish
  <2>1. /\ running \in LoopTasks /\ running' = None /\ length' = 0
        /\ spent' = spent + length /\ UNCHANGED crisis
        /\ age' = [[u \in LoopTasks |-> age[u] + length] EXCEPT ![running] = spent']
        /\ beat' = IF running = "reconnect" THEN beat + length ELSE 0
    BY <1>3 DEF T!Finish, T!Later, T!Refreshed
  <2>2. /\ length <= Guard[running] /\ running \notin Marked /\ length \in Nat
    BY <2>1 DEF LoopFits
  <2>3. /\ age'[running] = spent'
        /\ \A u \in LoopTasks \ {running} : age'[u] = age[u] + length
        /\ age' \in [LoopTasks -> Nat]
    BY <2>1, <2>2
  <2>4. Marked' = Marked \cup {running}
    BY <2>1, <2>2, <2>3 DEF Marked
  <2>5. SumFunctionOnSet(Guard, Marked') = Guard[running] + SumFunctionOnSet(Guard, Marked)
    BY <2>1, <2>2, <2>4, GuardSums DEF Marked
  <2>6. spent' <= SumFunctionOnSet(Guard, Marked')
    BY <1>0, <2>1, <2>2, <2>5 DEF LoopFits
  <2>7. beat' <= IF "reconnect" \in Marked' THEN Guard["reconnect"] ELSE 0
    <3>1. CASE running = "reconnect"
      BY <2>1, <2>2, <2>4, <3>1 DEF LoopFits
    <3>2. CASE running # "reconnect"
      BY <2>1, <3>2
    <3> QED BY <3>1, <3>2
  <2>8. T!TypeOK'
    BY <2>1, <2>2, <2>3
  <2>9. \A u \in LoopTasks : age'[u] >= spent'
    BY <2>1, <2>2, <2>3 DEF LoopFits
  <2>10. \A u \in LoopTasks \ {"backfill"} : age'[u] - spent' <= Interval[u] + Whole
    BY <1>0, <2>1, <2>2, <2>3 DEF LoopFits
  <2> QED BY <2>1, <2>6, <2>7, <2>8, <2>9, <2>10 DEF LoopFits
<1>4. CASE T!Sleep
  <2>1. /\ running = None /\ age' = [u \in LoopTasks |-> age[u] + 1]
        /\ spent' = 0 /\ beat' = 0 /\ crisis' \in BOOLEAN /\ UNCHANGED <<running, length>>
    BY <1>4 DEF T!Sleep, T!Later, T!Pause
  <2>2. \A u \in LoopTasks : ~T!Due(u)
    BY <1>4, FirstIsDue DEF T!Sleep
  <2>3. \A u \in LoopTasks \ {"backfill"} : age[u] - spent < Interval[u]
    BY <2>2 DEF T!Due
  <2>4. Marked' = {} /\ SumFunctionOnSet(Guard, Marked') \in Nat
    <3>1. Marked' = {}
      BY <2>1 DEF Marked
    <3> QED BY <3>1, GuardSums
  <2>5. T!TypeOK'
    BY <2>1
  <2>6. \A u \in LoopTasks \ {"backfill"} : age'[u] - spent' <= Interval[u] + Whole
    <3> SUFFICES ASSUME NEW u \in LoopTasks \ {"backfill"}
                 PROVE  age'[u] - spent' <= Interval[u] + Whole
      OBVIOUS
    <3>1. age'[u] = age[u] + 1 /\ spent' = 0 /\ age[u] \in Nat /\ Interval[u] \in Nat
      BY <2>1
    <3>2. age[u] - spent < Interval[u] /\ spent <= Whole /\ spent \in Nat
      BY <1>0, <2>3 DEF LoopFits
    <3> QED BY <1>0, <3>1, <3>2
  <2> QED BY <2>1, <2>4, <2>5, <2>6 DEF LoopFits
<1>5. CASE UNCHANGED taskVars
  <2>1. Marked' = Marked
    BY <1>5 DEF taskVars, Marked
  <2> QED BY <1>5, <2>1 DEF taskVars, LoopFits
<1> QED BY <1>1, <1>2, <1>3, <1>4, <1>5 DEF T!Next

LEMMA LoopHolds == LoopInv => T!SchedulerHolds
<1> SUFFICES ASSUME LoopInv PROVE T!SchedulerHolds
  OBVIOUS
<1> USE LoopConstants DEF LoopInv, T!TypeOK
<1>0. SumFunctionOnSet(Guard, Marked) <= Whole /\ SumFunctionOnSet(Guard, Marked) \in Nat
      /\ Whole \in Nat
  BY GuardSums DEF Marked
<1>1. T!LongestPass = Whole
  BY DEF T!LongestPass, Whole, SumFunctionOnSet, FoldFunctionOnSet, MapThenFoldSet,
         T!SumFunctionOnSet, T!FoldFunctionOnSet, T!MapThenFoldSet
<1>2. spent + length <= Whole
  <2>1. CASE running = None
    BY <1>0, <2>1 DEF LoopFits
  <2>2. CASE running # None
    <3>1. running \in LoopTasks \ Marked /\ length <= Guard[running] /\ Guard[running] \in Nat
      BY <2>2 DEF LoopFits
    <3>2. SumFunctionOnSet(Guard, Marked \cup {running})
            = Guard[running] + SumFunctionOnSet(Guard, Marked)
      BY <3>1, GuardSums DEF Marked
    <3>3. SumFunctionOnSet(Guard, Marked \cup {running}) <= Whole
      BY <3>1, GuardSums DEF Marked
    <3>4. spent <= SumFunctionOnSet(Guard, Marked)
      BY DEF LoopFits
    <3> QED BY <1>0, <3>1, <3>2, <3>3, <3>4
  <2> QED BY <2>1, <2>2
<1>3. T!OnTime
  <2> SUFFICES ASSUME NEW t \in LoopTasks \ {"backfill"}
               PROVE  age[t] + length <= Interval[t] + 1 + 2 * Whole
    BY <1>1 DEF T!OnTime, T!Pause
  <2>1. age[t] - spent <= Interval[t] + Whole
    BY DEF LoopFits
  <2>2. age[t] \in Nat /\ Interval[t] \in Nat
    OBVIOUS
  <2> QED BY <1>0, <1>2, <2>1, <2>2
<1>4. T!StalledTakesALongTask
  <2> SUFFICES ASSUME beat + length >= Patience
               PROVE  running # None /\ Guard[running] + Guard["reconnect"] >= Patience
    BY DEF T!StalledTakesALongTask
  <2>1. beat <= Guard["reconnect"] /\ Guard["reconnect"] \in Nat
    BY DEF LoopFits
  <2>2. running # None
    BY <2>1 DEF LoopFits
  <2> QED BY <2>1, <2>2 DEF LoopFits
<1> QED BY <1>3, <1>4 DEF T!SchedulerHolds

-----------------------------------------------------------------------------
(* StopBackfill.                                                           *)

LegRow  == [action : {"BUY", "SELL"}, price : Prices, qty : 1 .. MaxQty]
StopRow == [open : BOOLEAN, side : {"long", "short"}, entry : Int,
            stop : [sum : Int, over : Int]]
Books   == UNION {[D -> LegRow] : D \in SUBSET Legs}

(***************************************************************************)
(* What holds of the backfill: until the broker moves, the book that the   *)
(* pass has read is that of the orders that rest, and the position it has  *)
(* read is the position.                                                   *)
(***************************************************************************)
StopsInv ==
  /\ position \in Int /\ leg \in [Legs -> {None} \cup LegRow] /\ moved \in BOOLEAN
  /\ stops \in [Rows -> StopRow]
  /\ reads \in [book : Books, position : Int]
  /\ pass \in {"booked", "located"} /\ ~moved =>
       reads.book = [l \in B!Resting |-> leg[l]]
  /\ pass = "located" /\ ~moved => reads.position = position

LEMMA LegsRest == leg \in [Legs -> {None} \cup LegRow] =>
  B!Resting \in SUBSET Legs /\ \A l \in B!Resting : leg[l] \in LegRow
BY DEF B!Resting

LEMMA RowsFit == \A o \in LegRow : /\ o.action \in {"BUY", "SELL"} /\ o.price \in Int
                                   /\ o.price \in Prices
                                   /\ o.qty \in 1 .. MaxQty /\ o.qty \in Int
<1> SUFFICES ASSUME NEW o \in LegRow
             PROVE  /\ o.action \in {"BUY", "SELL"} /\ o.price \in Int /\ o.price \in Prices
                    /\ o.qty \in 1 .. MaxQty /\ o.qty \in Int
  OBVIOUS
<1>1. /\ o.action \in {"BUY", "SELL"} /\ o.price \in Prices
      /\ o.qty \in 1 .. MaxQty
  BY DEF LegRow
<1>2. o.price \in Int
  BY <1>1, StopAssumption
<1> QED BY <1>1, <1>2

LEMMA BooksFit ==
  ASSUME NEW D \in SUBSET Legs, NEW book \in [D -> LegRow]
  PROVE  book \in Books /\ DOMAIN book \in SUBSET Legs
         /\ \A l \in DOMAIN book : /\ book[l] \in LegRow /\ book[l].qty \in Int
                                   /\ book[l].price \in Int
<1>1. book \in Books /\ DOMAIN book = D
  BY DEF Books
<1>2. \A l \in D : book[l] \in LegRow
  OBVIOUS
<1> QED BY <1>1, <1>2, RowsFit

\* The stop of a book is a fraction of whole numbers.
LEMMA BlendFits ==
  ASSUME NEW book \in Books
  PROVE  /\ B!Blend(book) \in [sum : Int, over : Int]
         /\ B!Blend(book).sum
              = SumFunctionOnSet([l \in DOMAIN book |-> book[l].price * book[l].qty],
                                 DOMAIN book)
         /\ B!Blend(book).over
              = SumFunctionOnSet([l \in DOMAIN book |-> book[l].qty], DOMAIN book)
<1> DEFINE D == DOMAIN book
           value == [l \in D |-> book[l].price * book[l].qty]
           size == [l \in D |-> book[l].qty]
<1>1. D \in SUBSET Legs /\ \A l \in D : book[l].qty \in Int /\ book[l].price \in Int
  <2>1. PICK E \in SUBSET Legs : book \in [E -> LegRow]
    BY DEF Books
  <2> QED BY <2>1, BooksFit
<1>2. IsFiniteSet(D)
  BY <1>1, StopAssumption, FS_Subset
<1>3. \A l \in D : value[l] \in Int /\ size[l] \in Int
  BY <1>1
<1>4. B!Blend(book) = [sum |-> SumFunctionOnSet(value, D), over |-> SumFunctionOnSet(size, D)]
  <2>1. B!Blend(book) = [sum |-> B!SumFunctionOnSet(value, DOMAIN value),
                         over |-> B!SumFunctionOnSet(size, DOMAIN size)]
    BY DEF B!Blend, B!SumFunction
  <2>2. DOMAIN value = D /\ DOMAIN size = D
    OBVIOUS
  <2> HIDE DEF D, value, size
  <2>3. \A f : B!SumFunctionOnSet(f, D) = SumFunctionOnSet(f, D)
    BY DEF SumFunctionOnSet, FoldFunctionOnSet, MapThenFoldSet, B!SumFunctionOnSet,
           B!FoldFunctionOnSet, B!MapThenFoldSet
  <2> QED BY <2>1, <2>2, <2>3
<1> HIDE DEF value, size
<1>5. SumFunctionOnSet(value, D) \in Int /\ SumFunctionOnSet(size, D) \in Int
  BY <1>2, <1>3, SumsOfParts
<1> QED BY <1>4, <1>5 DEF value, size

LEMMA StopsStarts == SumInit => StopsInv
<1> SUFFICES ASSUME SumInit PROVE StopsInv
  OBVIOUS
<1>1. B!Unread \in [book : Books, position : Int]
  <2>1. <<>> \in [{} -> LegRow]
    OBVIOUS
  <2> QED BY <2>1 DEF B!Unread, Books
<1>2. CASE B!Init
  <2>1. position \in Int /\ leg \in [Legs -> {None} \cup LegRow] /\ moved = FALSE
    BY <1>2, StopAssumption DEF B!Init, LegRow
  <2>2. \A r \in Rows : stops[r] \in StopRow
    <3>1. B!NoStop \in [sum : Int, over : Int]
      BY DEF B!NoStop
    <3>2. stops \in [Rows -> [open : {TRUE}, side : {"long", "short"}, entry : Prices,
                             stop : {B!NoStop}]]
      BY <1>2 DEF B!Init, B!Sides
    <3> QED BY <3>1, <3>2, StopAssumption DEF StopRow
  <2>3. pass = "idle" /\ reads = B!Unread /\ stops \in [Rows -> StopRow]
    BY <1>2, <2>2 DEF B!Init
  <2> QED BY <1>1, <2>1, <2>3 DEF StopsInv
<1>3. CASE ~B!Init
  <2>1. /\ position = 0 /\ leg = [l \in Legs |-> None] /\ moved = FALSE
        /\ pass = "idle" /\ reads = B!Unread
        /\ stops = [r \in Rows |-> [open |-> FALSE, side |-> "long", entry |-> 0,
                                    stop |-> B!NoStop]]
    BY <1>3 DEF SumInit
  <2>2. [open |-> FALSE, side |-> "long", entry |-> 0, stop |-> B!NoStop] \in StopRow
    BY DEF StopRow, B!NoStop
  <2>3. stops \in [Rows -> StopRow]
    BY <2>1, <2>2
  <2>4. position \in Int /\ leg \in [Legs -> {None} \cup LegRow] /\ moved \in BOOLEAN
    <3>1. position \in Int /\ leg \in [Legs -> {None} \cup LegRow]
      BY <2>1
    <3>2. moved \in BOOLEAN
      BY <2>1
    <3> QED BY <3>1, <3>2
  <2>5. pass \notin {"booked", "located"}
    BY <2>1
  <2>6. reads \in [book : Books, position : Int]
    BY <1>1, <2>1
  <2> QED BY <2>3, <2>4, <2>5, <2>6 DEF StopsInv
<1> QED BY <1>2, <1>3

LEMMA StopsKept == StopsInv /\ [B!Next]_stopVars => StopsInv'
<1> SUFFICES ASSUME StopsInv, [B!Next]_stopVars PROVE StopsInv'
  OBVIOUS
<1> USE StopAssumption DEF StopsInv
<1>1. CASE B!Probe
  BY <1>1 DEF B!Probe, B!Resting
<1>2. CASE B!ReadBook
  <2>1. UNCHANGED <<position, leg, stops>> /\ moved' = FALSE
    BY <1>2 DEF B!ReadBook
  <2>2. [l \in B!Resting |-> leg[l]] \in Books
    BY LegsRest DEF Books
  <2>3. CASE pass' = "booked" /\ reads' = [reads EXCEPT !.book = B!Restrict(leg, B!Resting)]
    <3>1. reads' = [reads EXCEPT !.book = [l \in B!Resting |-> leg[l]]]
      BY <2>3 DEF B!Restrict
    <3>2. /\ reads' \in [book : Books, position : Int]
          /\ reads'.book = [l \in B!Resting |-> leg[l]]
      BY <2>2, <3>1
    <3>3. B!Resting' = B!Resting
      BY <2>1 DEF B!Resting
    <3> QED BY <2>1, <2>3, <3>2, <3>3
  <2>4. CASE pass' = "idle" /\ UNCHANGED reads
    BY <2>1, <2>4
  <2> QED BY <1>2, <2>3, <2>4 DEF B!ReadBook
<1>3. CASE B!ReadPositions
  <2>1. UNCHANGED <<position, leg, stops, moved>> /\ pass = "booked"
    BY <1>3 DEF B!ReadPositions
  <2>2. B!Resting' = B!Resting
    BY <2>1 DEF B!Resting
  <2>3. CASE pass' = "located" /\ reads' = [reads EXCEPT !.position = position]
    BY <2>1, <2>2, <2>3
  <2>4. CASE pass' = "idle" /\ UNCHANGED reads
    BY <2>1, <2>4
  <2> QED BY <1>3, <2>3, <2>4 DEF B!ReadPositions
<1>4. CASE B!Finish
  <2>1. UNCHANGED <<position, leg, moved>> /\ pass' = "idle" /\ reads' = B!Unread
    BY <1>4 DEF B!Finish
  <2>2. B!Unread \in [book : Books, position : Int]
    <3>1. <<>> \in [{} -> LegRow]
      OBVIOUS
    <3> QED BY <3>1 DEF B!Unread, Books
  <2>3. stops' \in [Rows -> StopRow]
    <3>1. B!Blend(reads.book) \in [sum : Int, over : Int]
      BY BlendFits
    <3>2. stops' \in {stops, [r \in Rows |->
            IF r \in B!Stopless /\ B!Backfills(stops[r], reads.book, reads.position)
            THEN [stops[r] EXCEPT !.stop = B!Blend(reads.book)] ELSE stops[r]]}
      BY <1>4 DEF B!Finish
    <3>3. \A r \in Rows : stops[r] \in StopRow
                          /\ [stops[r] EXCEPT !.stop = B!Blend(reads.book)] \in StopRow
      BY <3>1 DEF StopRow
    <3> QED BY <3>2, <3>3
  <2> QED BY <2>1, <2>2, <2>3
<1>5. CASE B!LegFires
  <2>1. UNCHANGED <<stops, pass, reads>> /\ moved' = TRUE
    BY <1>5 DEF B!LegFires
  <2>2. PICK l \in B!Resting : \E q \in 1 .. leg[l].qty :
          /\ position' = IF leg[l].action = "SELL" THEN position - q ELSE position + q
          /\ leg' = [leg EXCEPT ![l] = IF q = @.qty THEN None ELSE [leg[l] EXCEPT !.qty = @ - q]]
    BY <1>5 DEF B!LegFires
  <2>3. PICK q \in 1 .. leg[l].qty :
          /\ position' = IF leg[l].action = "SELL" THEN position - q ELSE position + q
          /\ leg' = [leg EXCEPT ![l] = IF q = @.qty THEN None ELSE [leg[l] EXCEPT !.qty = @ - q]]
    BY <2>2
  <2>4. l \in Legs /\ leg[l] \in LegRow
    BY LegsRest
  <2>5. position' \in Int
    BY <2>3, <2>4 DEF LegRow
  <2> DEFINE rest == [leg[l] EXCEPT !.qty = leg[l].qty - q]
  <2>6. q # leg[l].qty => rest \in LegRow
    <3>1. /\ leg[l].qty \in 1 .. MaxQty /\ leg[l].action \in {"BUY", "SELL"}
          /\ leg[l].price \in Prices
      BY <2>4 DEF LegRow
    <3>2. rest = [action |-> leg[l].action, price |-> leg[l].price, qty |-> leg[l].qty - q]
      BY <2>4 DEF LegRow
    <3>3. q # leg[l].qty => leg[l].qty - q \in 1 .. MaxQty
      BY <2>3, <3>1
    <3> QED BY <3>1, <3>2, <3>3 DEF LegRow
  <2>7. leg' = [leg EXCEPT ![l] = IF q = leg[l].qty THEN None ELSE rest]
    BY <2>3 DEF rest
  <2> HIDE DEF rest
  <2>8. leg' \in [Legs -> {None} \cup LegRow]
    BY <2>4, <2>6, <2>7
  <2> QED BY <2>1, <2>5, <2>8
<1>6. CASE B!BrokerMoves
  <2>1. /\ UNCHANGED <<stops, pass, reads>> /\ moved' = TRUE
        /\ position' \in Int /\ leg' \in [Legs -> {None} \cup LegRow]
    BY <1>6 DEF B!BrokerMoves
  <2> QED BY <2>1
<1>7. CASE B!RowCloses
  <2>1. /\ UNCHANGED <<position, leg, pass, reads, moved>>
        /\ \E r \in Rows : stops' = [stops EXCEPT ![r].open = FALSE]
    BY <1>7 DEF B!RowCloses
  <2>2. stops' \in [Rows -> StopRow]
    <3>1. PICK r \in Rows : stops' = [stops EXCEPT ![r].open = FALSE]
      BY <2>1
    <3>2. stops[r] \in StopRow
      OBVIOUS
    <3>3. [stops[r] EXCEPT !.open = FALSE] \in StopRow
      BY <3>2 DEF StopRow
    <3>4. stops' = [stops EXCEPT ![r] = [stops[r] EXCEPT !.open = FALSE]]
      BY <3>1, <3>2
    <3> QED BY <3>3, <3>4
  <2>3. B!Resting' = B!Resting
    BY <2>1 DEF B!Resting
  <2> QED BY <2>1, <2>2, <2>3
<1>8. CASE UNCHANGED stopVars
  <2>1. B!Resting' = B!Resting
    BY <1>8 DEF stopVars, B!Resting
  <2>2. UNCHANGED <<position, leg, stops, pass, reads, moved>>
    BY <1>8 DEF stopVars
  <2> QED BY <2>1, <2>2
<1> QED BY <1>1, <1>2, <1>3, <1>4, <1>5, <1>6, <1>7, <1>8 DEF B!Next

\* The stop of the orders that rest loses what they lose one by one.
LEMMA BlendLosesTheSame ==
  ASSUME leg \in [Legs -> {None} \cup LegRow], NEW t \in StopRow,
         NEW book, book = [l \in B!Resting |-> leg[l]],
         t.stop = B!Blend(book), B!Trusted(t)
  PROVE  /\ B!Size(t.entry * t.stop.over - t.stop.sum) = B!LossAtLegs(t)
         /\ t.stop.over = B!SumFunction([l \in B!Resting |-> leg[l].qty])
<1> DEFINE D == B!Resting
           value == [l \in D |-> leg[l].price * leg[l].qty]
           size == [l \in D |-> leg[l].qty]
           loss == [l \in D |-> leg[l].qty * (IF t.side = "long" THEN t.entry - leg[l].price
                                              ELSE leg[l].price - t.entry)]
<1>1. D \in SUBSET Legs /\ \A l \in D : leg[l].qty \in Int /\ leg[l].price \in Int
  BY LegsRest, RowsFit
<1>2. IsFiniteSet(D)
  BY <1>1, StopAssumption, FS_Subset
<1>3. DOMAIN book = D /\ book \in Books /\ \A l \in D : book[l] = leg[l]
  BY LegsRest, <1>1 DEF Books
<1>4. /\ t.stop.sum = SumFunctionOnSet(value, D) /\ t.stop.over = SumFunctionOnSet(size, D)
      /\ t.stop \in [sum : Int, over : Int]
  <2>1. [l \in DOMAIN book |-> book[l].price * book[l].qty] = value
    BY <1>3
  <2>2. [l \in DOMAIN book |-> book[l].qty] = size
    BY <1>3
  <2> QED BY <1>3, <2>1, <2>2, BlendFits
<1>5. \A f : B!SumFunctionOnSet(f, D) = SumFunctionOnSet(f, D)
  BY DEF SumFunctionOnSet, FoldFunctionOnSet, MapThenFoldSet, B!SumFunctionOnSet,
         B!FoldFunctionOnSet, B!MapThenFoldSet
<1>6. B!LossAtLegs(t) = SumFunctionOnSet(loss, D)
  <2>1. B!LossAtLegs(t) = B!SumFunctionOnSet(loss, DOMAIN loss) /\ DOMAIN loss = D
    BY DEF B!LossAtLegs, B!SumFunction
  <2> HIDE DEF loss, D
  <2> QED BY <1>5, <2>1
<1>7. B!SumFunction([l \in B!Resting |-> leg[l].qty]) = SumFunctionOnSet(size, D)
  <2>1. B!SumFunction(size) = B!SumFunctionOnSet(size, DOMAIN size) /\ DOMAIN size = D
    BY DEF B!SumFunction
  <2>2. B!SumFunction([l \in B!Resting |-> leg[l].qty]) = B!SumFunction(size)
    OBVIOUS
  <2> HIDE DEF size, D
  <2> QED BY <1>5, <2>1, <2>2
<1>8. t.entry \in Int /\ \A l \in D : /\ size[l] \in Int /\ value[l] \in Int
                                      /\ size[l] = leg[l].qty
                                      /\ value[l] = leg[l].price * leg[l].qty
  BY <1>1 DEF StopRow
<1>9. CASE t.side = "long"
  <2>1. \A l \in D : loss[l] = t.entry * size[l] - value[l]
    <3> SUFFICES ASSUME NEW l \in D PROVE loss[l] = t.entry * size[l] - value[l]
      OBVIOUS
    <3>1. loss[l] = leg[l].qty * (t.entry - leg[l].price)
      BY <1>9
    <3>2. leg[l].qty * (t.entry - leg[l].price)
            = t.entry * leg[l].qty - leg[l].price * leg[l].qty
      BY <1>1, <1>8
    <3> QED BY <1>8, <3>1, <3>2
  <2> HIDE DEF loss, size, value, D
  <2>2. SumFunctionOnSet(loss, D)
          = t.entry * SumFunctionOnSet(size, D) - SumFunctionOnSet(value, D)
    BY <1>2, <1>8, <2>1, SumsAreLinear
  <2>3. t.stop.sum < t.entry * t.stop.over
    BY <1>9 DEF B!Trusted
  <2>4. t.entry * t.stop.over \in Int
    BY <1>4, <1>8
  <2>5. B!Size(t.entry * t.stop.over - t.stop.sum) = t.entry * t.stop.over - t.stop.sum
    BY <1>4, <2>3, <2>4 DEF B!Size
  <2> QED BY <1>4, <1>6, <1>7, <2>2, <2>5 DEF size, D
<1>10. CASE t.side # "long"
  <2> DEFINE minus == 0 - t.entry
             less == [l \in D |-> 0 - value[l]]
  <2>1. \A l \in D : loss[l] = minus * size[l] - less[l]
    <3> SUFFICES ASSUME NEW l \in D PROVE loss[l] = minus * size[l] - less[l]
      OBVIOUS
    <3>1. loss[l] = leg[l].qty * (leg[l].price - t.entry)
      BY <1>10
    <3>2. leg[l].qty * (leg[l].price - t.entry)
            = minus * leg[l].qty - (0 - leg[l].price * leg[l].qty)
      BY <1>1, <1>8
    <3> QED BY <1>8, <3>1, <3>2
  <2>2. \A l \in D : less[l] \in Int /\ less[l] = 0 * size[l] - value[l]
    BY <1>8
  <2>3. minus \in Int /\ minus = 0 - t.entry
    BY <1>8
  <2> HIDE DEF loss, size, value, less, minus, D
  <2>4. SumFunctionOnSet(loss, D)
          = minus * SumFunctionOnSet(size, D) - SumFunctionOnSet(less, D)
    BY <1>2, <1>8, <2>1, <2>2, <2>3, SumsAreLinear
  <2>5. SumFunctionOnSet(less, D) = 0 * SumFunctionOnSet(size, D) - SumFunctionOnSet(value, D)
    BY <1>2, <1>8, <2>2, SumsAreLinear
  <2>6. t.stop.sum > t.entry * t.stop.over
    BY <1>10 DEF B!Trusted
  <2>7. t.entry * t.stop.over \in Int /\ t.stop.sum \in Int /\ t.stop.over \in Int
    BY <1>4, <1>8
  <2>8. B!Size(t.entry * t.stop.over - t.stop.sum) = t.stop.sum - t.entry * t.stop.over
    BY <2>6, <2>7 DEF B!Size
  <2>9. minus * t.stop.over = 0 - t.entry * t.stop.over
    BY <1>8, <2>3, <2>7
  <2> QED BY <1>4, <1>6, <1>7, <2>4, <2>5, <2>7, <2>8, <2>9 DEF size, D
<1> QED BY <1>9, <1>10

\* A stop that a step records is that of the orders that rest, and covers the position.
LEMMA BlendIsExactStep ==
  ASSUME StopsInv, [B!Next]_stopVars, NEW r \in Rows, stops'[r].stop # stops[r].stop, ~moved
  PROVE  LET t == stops'[r]
         IN  /\ B!Size(t.entry * t.stop.over - t.stop.sum) = B!LossAtLegs(t)
             /\ B!SumFunction([l \in B!Resting |-> leg[l].qty]) = B!Size(position)
<1> USE DEF StopsInv
<1>1. B!Finish
  <2>1. stops' # stops
    OBVIOUS
  <2>2. ~B!RowCloses
    <3> SUFFICES ASSUME B!RowCloses PROVE FALSE
      OBVIOUS
    <3>1. PICK c \in Rows : stops' = [stops EXCEPT ![c].open = FALSE]
      BY DEF B!RowCloses
    <3>2. stops[r] \in StopRow
      OBVIOUS
    <3>3. stops'[r].stop = stops[r].stop
      BY <3>1, <3>2 DEF StopRow
    <3> QED BY <3>3
  <2> QED BY <2>1, <2>2 DEF B!Next, B!Probe, B!ReadBook, B!ReadPositions, B!LegFires,
                            B!BrokerMoves, stopVars
<1>2. /\ pass = "located" /\ reads.book = [l \in B!Resting |-> leg[l]]
      /\ reads.position = position
  BY <1>1 DEF B!Finish
<1>3. /\ B!Backfills(stops[r], reads.book, reads.position)
      /\ stops'[r] = [stops[r] EXCEPT !.stop = B!Blend(reads.book)]
  BY <1>1 DEF B!Finish
<1> DEFINE t == [stops[r] EXCEPT !.stop = B!Blend(reads.book)]
<1>4. t \in StopRow /\ t.stop = B!Blend(reads.book)
  <2>1. reads.book \in Books /\ stops[r] \in StopRow
    OBVIOUS
  <2> DEFINE stop == B!Blend(reads.book)
  <2>2. stop \in [sum : Int, over : Int]
    BY <2>1, BlendFits
  <2>3. t = [open |-> stops[r].open, side |-> stops[r].side, entry |-> stops[r].entry,
             stop |-> stop]
    BY <2>1 DEF StopRow
  <2>4. /\ stops[r].side \in {"long", "short"} /\ stops[r].entry \in Int
        /\ stops[r].open \in BOOLEAN
    BY <2>1, Zenon DEF StopRow
  <2> HIDE DEF stop, StopsInv, t
  <2>5. t \in StopRow
    BY <2>2, <2>3, <2>4 DEF StopRow
  <2>6. t.stop = stop
    BY <2>3
  <2> QED BY <2>5, <2>6 DEF stop
<1>5. B!Trusted(t) /\ t.stop.over = B!Size(position)
  BY <1>2, <1>3, <1>4 DEF B!Backfills, B!Covers
<1>6. stops'[r] = t
  BY <1>3
<1> HIDE DEF t
<1>7. /\ B!Size(t.entry * t.stop.over - t.stop.sum) = B!LossAtLegs(t)
      /\ t.stop.over = B!SumFunction([l \in B!Resting |-> leg[l].qty])
  BY <1>2, <1>4, <1>5, BlendLosesTheSame
<1> QED BY <1>5, <1>6, <1>7

-----------------------------------------------------------------------------
(* Sessions.                                                               *)

VisitRow == [at : {"idle", "reading", "touching"}, token : Tokens \cup {None},
             late : BOOLEAN, read : {None, "live"}]

(***************************************************************************)
(* What holds of the sessions: a session whose logout was told is revoked; *)
(* a request that arrived too late has such a session's cookie or comes    *)
(* after the account was disabled; the log has every attempt that still    *)
(* counts, and none is of a time to come.                                  *)
(***************************************************************************)
RowsFollow ==
  /\ visit \in [Requests -> VisitRow]
  /\ userRow \in [Tokens -> {"missing", "live", "revoked", "expired"}]
  /\ told \subseteq Tokens /\ \A t \in told : userRow[t] = "revoked"
  /\ \A r \in Requests : visit[r].at = "reading" =>
       visit[r].token \in Tokens /\ (visit[r].late => visit[r].token \in told \/ ~enabled)
  /\ ~admitted

Windows(t) == {u \in t .. MaxTime : u < t + Window}

LogFollows ==
  /\ now \in S!Times /\ log \in [S!Times -> Nat] /\ let \in [S!Times -> Nat]
  /\ \A t \in S!Times : t > now => let[t] = 0 /\ log[t] = 0
  /\ \A t \in S!Recent : log[t] = let[t]
  /\ \A t \in S!Times : SumFunctionOnSet(let, Windows(t)) <= MaxAttempts

SessionsInv == RowsFollow /\ LogFollows

LEMMA TimesAreFinite ==
  /\ IsFiniteSet(S!Times) /\ S!Times \subseteq Nat
  /\ \A U \in SUBSET S!Times : IsFiniteSet(U)
  /\ \A t \in S!Times : Windows(t) \subseteq S!Times
<1>1. IsFiniteSet(0 .. MaxTime)
  BY FS_Interval, SessionAssumption
<1>2. \A t \in S!Times : Windows(t) \subseteq S!Times
  BY SessionAssumption DEF Windows, S!Times
<1>3. ASSUME NEW U \in SUBSET S!Times PROVE IsFiniteSet(U)
  BY <1>1, FS_Subset DEF S!Times
<1>4. IsFiniteSet(S!Times) /\ S!Times \subseteq Nat
  BY <1>1, SessionAssumption DEF S!Times
<1> QED BY <1>2, <1>3, <1>4

LEMMA SessionsStart == S!Init => SessionsInv
<1> SUFFICES ASSUME S!Init PROVE SessionsInv
  OBVIOUS
<1>1. RowsFollow
  <2>1. visit \in [Requests -> VisitRow]
    BY DEF S!Init, S!NoRequest, VisitRow
  <2>2. \A r \in Requests : visit[r].at # "reading"
    BY DEF S!Init, S!NoRequest
  <2>3. ~admitted
    BY Zenon DEF S!Init
  <2>4. told = {} /\ userRow = [t \in Tokens |-> "missing"]
    BY DEF S!Init
  <2> QED BY <2>1, <2>2, <2>3, <2>4 DEF RowsFollow
<1>2. LogFollows
  <2>1. now = 0 /\ log = [t \in S!Times |-> 0] /\ let = [t \in S!Times |-> 0]
    BY DEF S!Init
  <2>2. 0 \in S!Times /\ S!Recent \subseteq S!Times
    BY <2>1, SessionAssumption DEF S!Times, S!Recent
  <2>3. ASSUME NEW t \in S!Times PROVE SumFunctionOnSet(let, Windows(t)) = 0
    <3>1. IsFiniteSet(Windows(t)) /\ \A u \in Windows(t) : let[u] = 0
      BY <2>1, TimesAreFinite
    <3> QED BY <3>1, SumsOfZeros
  <2> QED BY <2>1, <2>2, <2>3, SessionAssumption DEF LogFollows
<1> QED BY <1>1, <1>2 DEF SessionsInv

\* An attempt that is let through leaves no window too full: what a window holds
\* counts for the attempt, or is still to come.
LEMMA AttemptsKeepWindows ==
  ASSUME LogFollows, S!LoginArrives
  PROVE  LogFollows'
<1>1. /\ now \in S!Times /\ log \in [S!Times -> Nat] /\ let \in [S!Times -> Nat]
      /\ now' = now /\ let' = [let EXCEPT ![now] = let[now] + 1]
      /\ log' = [t \in S!Times |-> IF t = now THEN log[t] + 1
                                   ELSE IF t \in S!Recent THEN log[t] ELSE 0]
  BY DEF LogFollows, S!LoginArrives
<1>2. /\ S!Recent \subseteq S!Times /\ IsFiniteSet(S!Recent) /\ now \in S!Recent
      /\ \A t \in S!Recent : t <= now
      /\ S!Recent' = S!Recent
  <2>1. S!Recent \subseteq S!Times /\ \A t \in S!Recent : t <= now
    BY <1>1, SessionAssumption DEF S!Recent, S!Times
  <2>2. now \in S!Recent
    BY <1>1, SessionAssumption DEF S!Recent, S!Times
  <2>3. S!Recent' = S!Recent
    BY <1>1 DEF S!Recent
  <2> QED BY <2>1, <2>2, <2>3, TimesAreFinite
<1>3. /\ let' \in [S!Times -> Nat] /\ log' \in [S!Times -> Nat]
      /\ \A t \in S!Times \ {now} : let'[t] = let[t]
      /\ let'[now] = let[now] + 1
  BY <1>1
<1>4. \A t \in S!Recent : log'[t] = let'[t]
  BY <1>1, <1>2, <1>3 DEF LogFollows
<1>5. SumFunctionOnSet(let, S!Recent) < MaxAttempts
  <2>1. SumFunctionOnSet(log, S!Recent) < MaxAttempts
    BY DEF S!LoginArrives, SumFunctionOnSet, FoldFunctionOnSet, MapThenFoldSet,
           S!SumFunctionOnSet, S!FoldFunctionOnSet, S!MapThenFoldSet
  <2>2. \A t \in S!Recent : let[t] \in Int /\ log[t] = let[t]
    BY <1>1, <1>2 DEF LogFollows
  <2>3. SumFunctionOnSet(log, S!Recent) = SumFunctionOnSet(let, S!Recent)
    BY <1>2, <2>2, SumsAgree
  <2> QED BY <2>1, <2>3
<1>6. ASSUME NEW t \in S!Times PROVE SumFunctionOnSet(let', Windows(t)) <= MaxAttempts
  <2> DEFINE W == Windows(t)
             V == W \cap S!Recent
  <2>1. W \subseteq S!Times /\ IsFiniteSet(W) /\ \A u \in W : let[u] \in Nat
    BY <1>1, TimesAreFinite
  <2>2. SumFunctionOnSet(let, W) <= MaxAttempts
    BY DEF LogFollows
  <2>3. CASE now \notin W
    <3>1. \A u \in W : let[u] \in Int /\ let'[u] = let[u]
      BY <1>3, <2>1, <2>3
    <3>2. SumFunctionOnSet(let', W) = SumFunctionOnSet(let, W)
      BY <2>1, <3>1, SumsAgree
    <3> QED BY <2>2, <3>2
  <2>4. CASE now \in W
    <3>1. \A u \in W \ V : let[u] = 0
      <4>1. t \in Int /\ now \in Int /\ t <= now /\ now < t + Window
        BY <2>4, <1>1, TimesAreFinite, SessionAssumption DEF Windows, S!Times
      <4>2. ASSUME NEW u \in W, u \notin S!Recent PROVE u > now
        BY <4>1, <4>2, SessionAssumption DEF Windows, S!Recent, S!Times
      <4> QED BY <2>1, <4>2 DEF LogFollows
    <3>2. V \in SUBSET W /\ V \in SUBSET S!Recent
      OBVIOUS
    <3> HIDE DEF V
    <3>3. SumFunctionOnSet(let, W) = SumFunctionOnSet(let, V)
      <4>1. \A u \in W : let[u] \in Int
        BY <2>1
      <4> QED BY <2>1, <3>1, <3>2, <4>1, SumsOfSupport
    <3>4. SumFunctionOnSet(let, V) <= SumFunctionOnSet(let, S!Recent)
      <4>1. \A u \in S!Recent : let[u] \in Nat
        BY <1>1, <1>2
      <4> QED BY <1>2, <3>2, <4>1, PartsSumToLess
    <3>5. SumFunctionOnSet(let', W) = SumFunctionOnSet(let, W) + 1
      <4>1. \A u \in W : let[u] \in Int
        BY <2>1
      <4>2. \A u \in W \ {now} : let'[u] = let[u]
        BY <1>3, <2>1
      <4>3. PICK g : g = let'
        OBVIOUS
      <4>4. PICK one \in Int : one = 1
        OBVIOUS
      <4>5. g[now] = let[now] + one /\ \A u \in W \ {now} : g[u] = let[u]
        BY <1>3, <4>2, <4>3, <4>4
      <4> HIDE DEF W
      <4>6. SumFunctionOnSet(g, W) = SumFunctionOnSet(let, W) + one
        BY <2>1, <2>4, <4>1, <4>5, SumsShift
      <4> QED BY <4>3, <4>4, <4>6
    <3>6. /\ SumFunctionOnSet(let, W) \in Int /\ SumFunctionOnSet(let, S!Recent) \in Int
      <4>1. /\ \A u \in W : let[u] \in Int
            /\ \A u \in S!Recent : let[u] \in Int
        BY <1>1, <1>2, <2>1
      <4> HIDE DEF W
      <4> QED BY <1>2, <2>1, <4>1, SumsOfParts
    <3> QED BY <1>5, <3>3, <3>4, <3>5, <3>6, SessionAssumption
  <2> QED BY <2>3, <2>4
<1>7. \A t \in S!Times : t > now' => let'[t] = 0 /\ log'[t] = 0
  BY <1>1, <1>3, TimesAreFinite DEF LogFollows
<1> HIDE DEF S!LoginArrives
<1> QED BY <1>1, <1>2, <1>3, <1>4, <1>6, <1>7 DEF LogFollows, S!Times, Windows

\* No row that a told logout revoked comes back, and no late request finds its row
\* live while the account is enabled.
LEMMA RowsKept == RowsFollow /\ [S!Next]_sessionVars => RowsFollow'
<1> SUFFICES ASSUME RowsFollow, [S!Next]_sessionVars PROVE RowsFollow'
  OBVIOUS
<1>1. /\ visit \in [Requests -> VisitRow]
      /\ userRow \in [Tokens -> {"missing", "live", "revoked", "expired"}]
      /\ told \subseteq Tokens /\ \A t \in told : userRow[t] = "revoked"
      /\ \A r \in Requests : visit[r].at = "reading" =>
           visit[r].token \in Tokens /\ (visit[r].late => visit[r].token \in told \/ ~enabled)
  BY DEF RowsFollow
<1>2. ~admitted
  BY Zenon DEF RowsFollow
<1>3. S!NoRequest \in VisitRow /\ S!NoRequest.at = "idle"
  BY DEF S!NoRequest, VisitRow
<1>4. \* A step that answers no request leaves alone what a request was promised.
      ASSUME visit' = visit, admitted' = admitted, enabled' = enabled, told \subseteq told',
             told' \subseteq Tokens, \A t \in told' : userRow'[t] = "revoked",
             userRow' \in [Tokens -> {"missing", "live", "revoked", "expired"}]
      PROVE  RowsFollow'
  <2>1. ~admitted'
    BY <1>2, <1>4, Zenon
  <2>2. \A r \in Requests : visit'[r].at = "reading" =>
          visit'[r].token \in Tokens /\ (visit'[r].late => visit'[r].token \in told' \/ ~enabled')
    BY <1>1, <1>4
  <2> QED BY <1>1, <1>4, <2>1, <2>2 DEF RowsFollow
<1>5. \* A request's own step.
      ASSUME NEW r \in Requests, NEW v \in VisitRow, visit' = [visit EXCEPT ![r] = v],
             ~admitted', userRow' = userRow, UNCHANGED told, UNCHANGED enabled,
             v.at = "reading" => v.token \in Tokens /\ (v.late => v.token \in told \/ ~enabled)
      PROVE  RowsFollow'
  <2>1. visit' \in [Requests -> VisitRow]
    BY <1>1, <1>5
  <2>2. ASSUME NEW q \in Requests, visit'[q].at = "reading"
        PROVE  visit'[q].token \in Tokens
               /\ (visit'[q].late => visit'[q].token \in told' \/ ~enabled')
    BY <1>1, <1>5, <2>2
  <2> QED BY <1>1, <1>5, <2>1, <2>2 DEF RowsFollow
<1>6. CASE S!LoginArrives \/ S!LoginFails \/ S!LoginPasses \/ UNCHANGED sessionVars
  BY <1>1, <1>4, <1>6 DEF S!LoginArrives, S!LoginFails, S!LoginPasses, sessionVars
<1>7. CASE S!LoginCommits
  BY <1>1, <1>4, <1>7 DEF S!LoginCommits
<1>8. ASSUME NEW t \in Tokens,
             S!LogoutArrives(t) \/ S!LogoutReads(t) \/ S!LogoutCommits(t) \/ S!LogoutFails(t)
      PROVE  RowsFollow'
  BY <1>1, <1>4, <1>8 DEF S!LogoutArrives, S!LogoutReads, S!LogoutCommits, S!LogoutFails
<1>9. ASSUME NEW t \in Tokens, NEW r \in Requests, S!RequestArrives(r, t)
      PROVE  RowsFollow'
  <2> DEFINE v == [at |-> "reading", token |-> t, read |-> None, late |-> t \in told \/ ~enabled]
  <2>1. v \in VisitRow
    BY DEF VisitRow
  <2>2. /\ visit' = [visit EXCEPT ![r] = v] /\ userRow' = userRow
        /\ UNCHANGED told /\ UNCHANGED enabled
    BY <1>9 DEF S!RequestArrives
  <2>3. ~admitted'
    BY <1>2, <1>9, Zenon DEF S!RequestArrives
  <2>4. v.at = "reading" => v.token \in Tokens /\ (v.late => v.token \in told \/ ~enabled)
    OBVIOUS
  <2> HIDE DEF v
  <2> QED BY <1>5, <2>1, <2>2, <2>3, <2>4
<1>10. ASSUME NEW r \in Requests, S!Resolve(r)
       PROVE  RowsFollow'
  <2>1. /\ visit[r].at = "reading" /\ userRow' = userRow /\ UNCHANGED told /\ UNCHANGED enabled
        /\ visit[r].token \in Tokens
    BY <1>1, <1>10 DEF S!Resolve
  <2>2. CASE userRow[visit[r].token] = "live" /\ enabled
    <3>1. visit[r].token \notin told
      BY <1>1, <2>2
    <3>2. ~visit[r].late
      BY <1>1, <2>1, <2>2, <3>1, Zenon
    <3>3. admitted' = (admitted \/ visit[r].late)
      BY <1>10, <2>2, Zenon DEF S!Resolve
    <3>4. ~admitted'
      BY <1>2, <3>2, <3>3, Zenon
    <3>5. PICK v \in VisitRow : visit' = [visit EXCEPT ![r] = v] /\ v.at # "reading"
      <4>1. \A v \in VisitRow :
              LET w == [v EXCEPT !.at = "touching", !.read = "live"]
              IN  w \in VisitRow /\ w.at = "touching"
        BY DEF VisitRow
      <4>2. visit[r] \in VisitRow /\ userRow[visit[r].token] = "live"
        BY <1>1, <2>2
      <4>3. \E stale \in BOOLEAN : visit' = [visit EXCEPT ![r] =
              IF stale THEN [visit[r] EXCEPT !.at = "touching", !.read = userRow[visit[r].token]]
              ELSE S!NoRequest]
        BY <1>10, <2>2 DEF S!Resolve
      <4> QED BY <1>3, <4>1, <4>2, <4>3
    <3> QED BY <1>5, <2>1, <3>4, <3>5
  <2>3. CASE ~ (userRow[visit[r].token] = "live" /\ enabled)
    <3>1. visit' = [visit EXCEPT ![r] = S!NoRequest]
      BY <1>10, <2>3 DEF S!Resolve
    <3>2. admitted' = admitted
      BY <1>10, <2>3, Zenon DEF S!Resolve
    <3>3. ~admitted'
      BY <1>2, <3>2, Zenon
    <3> QED BY <1>3, <1>5, <2>1, <3>1, <3>3
  <2> QED BY <2>2, <2>3
<1>11. ASSUME NEW r \in Requests, S!ResolveFails(r) \/ S!Touch(r)
       PROVE  RowsFollow'
  <2>1. /\ visit' = [visit EXCEPT ![r] = S!NoRequest] /\ userRow' = userRow
        /\ UNCHANGED told /\ UNCHANGED enabled
    BY <1>11 DEF S!ResolveFails, S!Touch, S!Touched
  <2>2. ~admitted'
    BY <1>2, <1>11, Zenon DEF S!ResolveFails, S!Touch
  <2> QED BY <1>3, <1>5, <2>1, <2>2
<1>12. CASE S!DisableAccount
  <2>1. ~admitted'
    BY <1>2, <1>12, Zenon DEF S!DisableAccount
  <2>2. ~enabled'
    BY <1>12, Zenon DEF S!DisableAccount
  <2>3. UNCHANGED <<visit, told, userRow>>
    BY <1>12 DEF S!DisableAccount
  <2> QED BY <1>1, <2>1, <2>2, <2>3 DEF RowsFollow
<1>13. CASE S!Tick
  BY <1>1, <1>4, <1>13 DEF S!Tick
<1> QED BY <1>6, <1>7, <1>8, <1>9, <1>10, <1>11, <1>12, <1>13 DEF S!Next

LEMMA SessionsKept == SessionsInv /\ [S!Next]_sessionVars => SessionsInv'
<1> SUFFICES ASSUME SessionsInv, [S!Next]_sessionVars PROVE SessionsInv'
  OBVIOUS
<1>1. LogFollows'
  <2>1. CASE S!LoginArrives
    BY <2>1, AttemptsKeepWindows DEF SessionsInv
  <2>2. CASE S!Tick
    <3>1. UNCHANGED <<log, let>> /\ now < MaxTime /\ now' = now + 1
      BY <2>2 DEF S!Tick
    <3>2. now \in S!Times /\ now' \in S!Times
      BY <3>1, SessionAssumption DEF SessionsInv, LogFollows, S!Times
    <3>3. \A t \in S!Recent' : t \in S!Recent \/ t = now'
      BY <3>1, <3>2, SessionAssumption DEF S!Recent, S!Times
    <3>4. /\ now' \in S!Times /\ log' \in [S!Times -> Nat] /\ let' \in [S!Times -> Nat]
      BY <3>1, <3>2 DEF SessionsInv, LogFollows
    <3>5. \A t \in S!Times : t > now' => let'[t] = 0 /\ log'[t] = 0
      BY <3>1, <3>2, TimesAreFinite DEF SessionsInv, LogFollows
    <3>6. \A t \in S!Recent' : log'[t] = let'[t]
      BY <3>1, <3>2, <3>3 DEF SessionsInv, LogFollows
    <3>7. \A t \in S!Times : SumFunctionOnSet(let', Windows(t)) <= MaxAttempts
      BY <3>1 DEF SessionsInv, LogFollows
    <3> QED BY <3>4, <3>5, <3>6, <3>7 DEF LogFollows, S!Times, Windows
  <2>3. CASE UNCHANGED <<log, let, now>>
    BY <2>3 DEF SessionsInv, LogFollows, S!Times, S!Recent, Windows
  <2> QED BY <2>1, <2>2, <2>3 DEF S!Next, sessionVars, S!LoginFails, S!LoginPasses, S!LoginCommits,
          S!LogoutArrives, S!LogoutReads, S!LogoutCommits, S!LogoutFails, S!RequestArrives,
          S!Resolve, S!ResolveFails, S!Touch, S!DisableAccount
<1>2. RowsFollow'
  BY RowsKept DEF SessionsInv
<1> QED BY <1>1, <1>2 DEF SessionsInv

LEMMA SessionsHold == SessionsInv => S!NobodySlipsIn
<1> SUFFICES ASSUME SessionsInv PROVE S!NobodySlipsIn
  OBVIOUS
<1>1. ~admitted
  BY Zenon DEF SessionsInv, RowsFollow
<1>2. \A t \in S!Times : SumFunctionOnSet(let, Windows(t)) <= MaxAttempts
  BY DEF SessionsInv, LogFollows
<1>3. \A t \in S!Times : S!SumFunctionOnSet(let, Windows(t)) <= MaxAttempts
  BY <1>2 DEF SumFunctionOnSet, FoldFunctionOnSet, MapThenFoldSet,
              S!SumFunctionOnSet, S!FoldFunctionOnSet, S!MapThenFoldSet
<1> QED BY <1>1, <1>3 DEF S!NobodySlipsIn, Windows

-----------------------------------------------------------------------------
(* AccountFeed.                                                            *)

Ages == 0 .. StaleAfter + 1

(***************************************************************************)
(* What holds of the account values: on a connection that is up the stamp  *)
(* tells the facts, and on one that is down nothing is cached; what is     *)
(* cached was pushed.                                                      *)
(***************************************************************************)
StampsAreTrue ==
  /\ lastPush \in Ages \cup {None} /\ pushed \in Ages \cup {None}
  /\ up => lastPush = pushed
  /\ ~up => ~filledIn /\ pushed = None
  /\ filledIn => pushed # None

WaitersWait ==
  /\ reader \in [Account!Readers -> {"idle", "waiting", "cancelled"}]
  /\ answer = [c \in Account!Readers |-> answer[c]]

AccountInv == StampsAreTrue /\ WaitersWait /\ Account!AccountAnswers

LEMMA AccountStarts == Account!Init => AccountInv
<1> SUFFICES ASSUME Account!Init PROVE AccountInv
  OBVIOUS
<1>1. StampsAreTrue
  BY Zenon DEF Account!Init, StampsAreTrue
<1>2. WaitersWait
  BY DEF Account!Init, WaitersWait
<1>3. Account!AccountAnswers
  BY DEF Account!Init, Account!AccountAnswers, Account!CurrentIsCurrent,
         Account!LossTakesAnOrphan
<1> QED BY <1>1, <1>2, <1>3 DEF AccountInv

\* What is answered as current and not empty is current.
LEMMA SummaryIsCurrent ==
  ASSUME StampsAreTrue, Account!Summary.current, ~Account!Summary.empty
  PROVE  Account!Summary.age # None /\ Account!Summary.age <= StaleAfter
<1>1. Account!Summary.age = pushed
  BY DEF Account!Summary
<1>2. filledIn
  BY Zenon DEF Account!Summary
<1>3. lastPush = None \/ lastPush <= StaleAfter
  BY Zenon DEF Account!Summary
<1>4. lastPush = pushed /\ pushed # None
  BY <1>2, Zenon DEF StampsAreTrue
<1> QED BY <1>1, <1>3, <1>4

LEMMA OlderAges ==
  ASSUME NEW a \in Ages \cup {None}
  PROVE  /\ Account!Older(a) \in Ages \cup {None}
         /\ a # None => Account!Older(a) # None
         /\ a = None => Account!Older(a) = None
<1>1. CASE a = None
  BY <1>1 DEF Account!Older
<1>2. CASE a \in Ages /\ a # None
  <2>1. a \in 0 .. StaleAfter + 1 /\ StaleAfter \in Nat /\ None \notin Nat
    BY <1>2, AccountAssumption DEF Ages
  <2> QED BY <1>2, <2>1 DEF Account!Older, Ages
<1> QED BY <1>1, <1>2

LEMMA StampsKept ==
  ASSUME StampsAreTrue, [Account!Next]_accountVars
  PROVE  StampsAreTrue'
<1>1. /\ lastPush \in Ages \cup {None} /\ pushed \in Ages \cup {None}
  BY DEF StampsAreTrue
<1>2. /\ up => lastPush = pushed
      /\ ~up => ~filledIn /\ pushed = None
      /\ filledIn => pushed # None
  BY Zenon DEF StampsAreTrue
<1>3. 0 \in Ages /\ 0 # None
  BY AccountAssumption DEF Ages
<1>4. CASE UNCHANGED <<up, filledIn, lastPush, pushed>>
  <2>1. lastPush' \in Ages \cup {None} /\ pushed' \in Ages \cup {None}
    BY <1>1, <1>4 DEF Ages
  <2>2. /\ up' => lastPush' = pushed'
        /\ ~up' => ~filledIn' /\ pushed' = None
        /\ filledIn' => pushed' # None
    BY <1>2, <1>4, Zenon
  <2> QED BY <2>1, <2>2, Zenon DEF StampsAreTrue, Ages
<1>5. CASE Account!Push \/ Account!Acknowledged
  <2>1. lastPush' = 0 /\ pushed' = 0 /\ up /\ up' = up
    BY <1>5, Zenon DEF Account!Push, Account!Acknowledged
  <2>2. /\ up' => lastPush' = pushed'
        /\ ~up' => ~filledIn' /\ pushed' = None
        /\ filledIn' => pushed' # None
    BY <1>3, <2>1, Zenon
  <2>3. lastPush' \in Ages \cup {None} /\ pushed' \in Ages \cup {None}
    BY <1>3, <2>1
  <2> QED BY <2>2, <2>3, Zenon DEF StampsAreTrue, Ages
<1>6. CASE Account!Tick
  <2>1. /\ lastPush' = Account!Older(lastPush) /\ pushed' = Account!Older(pushed)
        /\ up' = up /\ filledIn' = filledIn
    BY <1>6, Zenon DEF Account!Tick
  <2>2. /\ lastPush' \in Ages \cup {None} /\ pushed' \in Ages \cup {None}
        /\ pushed # None => pushed' # None
        /\ pushed = None => pushed' = None
    BY <1>1, <2>1, OlderAges
  <2>3. lastPush = pushed => lastPush' = pushed'
    BY <2>1
  <2>4. /\ up' => lastPush' = pushed'
        /\ ~up' => ~filledIn' /\ pushed' = None
        /\ filledIn' => pushed' # None
    BY <1>2, <2>1, <2>2, <2>3, Zenon
  <2> QED BY <2>2, <2>4, Zenon DEF StampsAreTrue, Ages
<1>7. CASE Account!Drop
  <2>1. ~up' /\ ~filledIn' /\ pushed' = None /\ lastPush' = lastPush
    BY <1>7, Zenon DEF Account!Drop
  <2> QED BY <1>1, <2>1, Zenon DEF StampsAreTrue, Ages
<1>8. CASE Account!Connect
  <2>1. /\ ~up /\ lastPush' = None /\ filledIn' = filledIn /\ pushed' = pushed
    BY <1>8, Zenon DEF Account!Connect
  <2>2. pushed = None /\ ~filledIn
    BY <1>2, <2>1, Zenon
  <2> QED BY <2>1, <2>2, Zenon DEF StampsAreTrue, Ages
<1>9. CASE Account!StreamTurns \/ Account!GivenUp \/ (\E c \in Account!Readers : Account!Call(c))
           \/ (\E c \in Direct : Account!TimeOut(c)) \/ UNCHANGED accountVars
  BY <1>4, <1>9, Zenon DEF Account!StreamTurns, Account!GivenUp, Account!Call, Account!TimeOut,
     accountVars
<1> QED BY <1>5, <1>6, <1>7, <1>8, <1>9, Zenon DEF Account!Next

\* Every answer is the old one, none, or a summary made now.
LEMMA AnswersKept ==
  ASSUME AccountInv, [Account!Next]_accountVars
  PROVE  WaitersWait' /\ Account!CurrentIsCurrent'
<1>1. /\ reader \in [Account!Readers -> {"idle", "waiting", "cancelled"}]
      /\ answer = [c \in Account!Readers |-> answer[c]]
  BY DEF AccountInv, WaitersWait
<1> DEFINE now0 == [current |-> TRUE, empty |-> FALSE, age |-> 0]
           may(c) == {answer[c], None, Account!Summary, now0}
<1>2. ASSUME \A c \in Account!Readers : answer'[c] \in may(c)
      PROVE  Account!CurrentIsCurrent'
  <2>1. ASSUME NEW c \in Account!Readers, answer'[c] # None, answer'[c].current,
               ~answer'[c].empty
        PROVE  answer'[c].age # None /\ answer'[c].age <= StaleAfter
    <3>1. CASE answer'[c] = answer[c]
      BY <2>1, <3>1, Zenon DEF AccountInv, Account!AccountAnswers, Account!CurrentIsCurrent
    <3>2. CASE answer'[c] = Account!Summary
      <4>1. Account!Summary.current /\ ~Account!Summary.empty
        BY <2>1, <3>2, Zenon
      <4> QED BY <3>2, <4>1, SummaryIsCurrent DEF AccountInv
    <3>3. CASE answer'[c] = now0
      BY <3>3, AccountAssumption
    <3> QED BY <1>2, <2>1, <3>1, <3>2, <3>3
  <2> QED BY <2>1 DEF Account!CurrentIsCurrent, Account!Readers
<1>3. ASSUME answer' \in [Account!Readers -> {answer[c] : c \in Account!Readers}
                            \cup {None, Account!Summary, now0}],
             reader' \in [Account!Readers -> {"idle", "waiting", "cancelled"}]
      PROVE  WaitersWait'
  BY <1>3 DEF WaitersWait, Account!Readers
<1>4. ASSUME NEW s \in {None, Account!Summary, now0}, Account!Woken(s)
      PROVE  WaitersWait' /\ Account!CurrentIsCurrent'
  <2>1. /\ answer' \in [Account!Readers -> {answer[c] : c \in Account!Readers}
                          \cup {None, Account!Summary, now0}]
        /\ reader' \in [Account!Readers -> {"idle", "waiting", "cancelled"}]
        /\ \A c \in Account!Readers : answer'[c] \in may(c)
    BY <1>1, <1>4 DEF Account!Woken
  <2> QED BY <1>2, <1>3, <2>1
<1>5. ASSUME UNCHANGED answer,
             reader' \in [Account!Readers -> {"idle", "waiting", "cancelled"}]
      PROVE  WaitersWait' /\ Account!CurrentIsCurrent'
  BY <1>1, <1>2, <1>3, <1>5
<1>6. ASSUME NEW c \in Account!Readers, NEW s \in {None, Account!Summary},
             answer' = [answer EXCEPT ![c] = s],
             reader' \in [Account!Readers -> {"idle", "waiting", "cancelled"}]
      PROVE  WaitersWait' /\ Account!CurrentIsCurrent'
  <2>1. /\ answer' \in [Account!Readers -> {answer[d] : d \in Account!Readers}
                          \cup {None, Account!Summary, now0}]
        /\ \A d \in Account!Readers : answer'[d] \in may(d)
    BY <1>1, <1>6
  <2> QED BY <1>2, <1>3, <1>6, <2>1
<1> HIDE DEF now0, may
<1>7. CASE Account!Push \/ Account!Tick \/ Account!StreamTurns \/ UNCHANGED accountVars
  <2>1. UNCHANGED answer /\ UNCHANGED reader
    BY <1>7 DEF Account!Push, Account!Tick, Account!StreamTurns, accountVars
  <2> QED BY <1>1, <1>5, <2>1
<1>8. CASE Account!Drop
  <2>1. Account!Woken(None) \/ (UNCHANGED answer /\ UNCHANGED reader)
    BY <1>8 DEF Account!Drop
  <2> QED BY <1>1, <1>4, <1>5, <2>1
<1>9. CASE Account!Connect
  <2>1. /\ UNCHANGED answer
        /\ reader' = [c \in Account!Readers |-> IF reader[c] = "waiting" THEN "cancelled"
                                                ELSE reader[c]]
    BY <1>9 DEF Account!Connect
  <2> QED BY <1>1, <1>5, <2>1
<1>10. ASSUME NEW c \in Account!Readers, Account!Call(c)
       PROVE  WaitersWait' /\ Account!CurrentIsCurrent'
  <2>1. \/ answer' = [answer EXCEPT ![c] = Account!Summary] /\ UNCHANGED reader
        \/ reader' = [reader EXCEPT ![c] = "waiting"] /\ UNCHANGED answer
    BY <1>10 DEF Account!Call
  <2> QED BY <1>1, <1>5, <1>6, <2>1
<1>11. CASE Account!Acknowledged
  <2>1. Account!Woken(now0)
    BY <1>11 DEF Account!Acknowledged, now0
  <2> QED BY <1>4, <2>1
<1>12. CASE Account!GivenUp
  <2>1. Account!Woken(Account!Summary) \/ Account!Woken(None)
    BY <1>12 DEF Account!GivenUp
  <2> QED BY <1>4, <2>1
<1>13. ASSUME NEW c \in Direct, Account!TimeOut(c)
       PROVE  WaitersWait' /\ Account!CurrentIsCurrent'
  <2>1. /\ reader' = [reader EXCEPT ![c] = "idle"] /\ answer' = [answer EXCEPT ![c] = None]
        /\ c \in Account!Readers
    BY <1>13 DEF Account!TimeOut, Account!Readers
  <2> QED BY <1>1, <1>6, <2>1
<1> QED BY <1>7, <1>8, <1>9, <1>10, <1>11, <1>12, <1>13 DEF Account!Next

LEMMA LossKept ==
  ASSUME AccountInv, [Account!Next]_accountVars
  PROVE  Account!LossTakesAnOrphan'
<1> DEFINE some(f, v) == \E c \in Account!Readers : f[c] = v
<1>1. /\ some(reader, "cancelled") => outlived
      /\ some(reader, "waiting") => trying \in Account!Running
  BY Zenon DEF AccountInv, Account!AccountAnswers, Account!LossTakesAnOrphan
<1>2. reader \in [Account!Readers -> {"idle", "waiting", "cancelled"}]
  BY DEF AccountInv, WaitersWait
<1>3. ASSUME some(reader', "cancelled") => some(reader, "cancelled") \/ outlived',
             outlived => outlived',
             some(reader', "waiting") => trying' \in Account!Running
      PROVE  Account!LossTakesAnOrphan'
  BY <1>1, <1>3, Zenon DEF Account!LossTakesAnOrphan, Account!Readers, Account!Running
<1>4. CASE UNCHANGED <<reader, trying, outlived>>
  BY <1>1, <1>4, Zenon DEF Account!LossTakesAnOrphan, Account!Readers, Account!Running
<1>5. ASSUME NEW s, Account!Woken(s)
      PROVE  ~some(reader', "waiting") /\ (some(reader', "cancelled") => some(reader, "cancelled"))
  BY <1>2, <1>5 DEF Account!Woken
<1> HIDE DEF some
<1>6. CASE Account!Drop
  <2>1. outlived' = outlived
    BY <1>6, Zenon DEF Account!Drop
  <2>2. CASE Account!Woken(None)
    BY <1>3, <1>5, <2>1, <2>2, Zenon
  <2>3. CASE /\ trying' = IF trying = "asking" THEN "orphaned" ELSE trying
             /\ UNCHANGED <<answer, reader>>
    <3>1. trying \in Account!Running => trying' \in Account!Running
      BY <2>3 DEF Account!Running
    <3>2. reader' = reader
      BY <2>3
    <3> QED BY <1>1, <1>3, <2>1, <3>1, <3>2, Zenon
  <2> QED BY <1>6, <2>2, <2>3 DEF Account!Drop
<1>7. CASE Account!Connect
  <2>1. reader' = [c \in Account!Readers |-> IF reader[c] = "waiting" THEN "cancelled"
                                             ELSE reader[c]]
    BY <1>7 DEF Account!Connect
  <2>2. /\ ~some(reader', "waiting")
        /\ some(reader', "cancelled") => some(reader, "cancelled") \/ some(reader, "waiting")
    BY <1>2, <2>1 DEF some
  <2>3. outlived' = (outlived \/ trying \in Account!Running)
    BY <1>7, Zenon DEF Account!Connect
  <2> QED BY <1>1, <1>3, <2>2, <2>3, Zenon
<1>8. ASSUME NEW c \in Account!Readers, Account!Call(c)
      PROVE  Account!LossTakesAnOrphan'
  <2>1. outlived' = outlived
    BY <1>8, Zenon DEF Account!Call
  <2>2. some(reader', "cancelled") => some(reader, "cancelled")
    BY <1>2, <1>8 DEF Account!Call, some
  <2>3. trying \in Account!Running => trying' \in Account!Running
    BY <1>8 DEF Account!Call, Account!Running
  <2>4. CASE subscribed \/ filledIn
    <3>1. reader' = reader
      BY <1>8, <2>4, Zenon DEF Account!Call
    <3> QED BY <1>1, <1>3, <2>1, <2>2, <2>3, <3>1, Zenon
  <2>5. CASE ~ (subscribed \/ filledIn)
    <3>1. ~subscribed
      BY <2>5, Zenon
    <3>2. trying' \in Account!Running
      BY <1>8, <2>3, <3>1 DEF Account!Call, Account!Running
    <3> QED BY <1>3, <2>1, <2>2, <3>2, Zenon
  <2> QED BY <2>4, <2>5, Zenon
<1>9. CASE Account!Acknowledged
  <2>1. Account!Woken([current |-> TRUE, empty |-> FALSE, age |-> 0]) /\ outlived' = outlived
    BY <1>9, Zenon DEF Account!Acknowledged
  <2> QED BY <1>3, <1>5, <2>1, Zenon
<1>10. CASE Account!GivenUp
  <2>1. Account!Woken(IF filledIn THEN Account!Summary ELSE None) /\ outlived' = outlived
    BY <1>10, Zenon DEF Account!GivenUp
  <2> QED BY <1>3, <1>5, <2>1, Zenon
<1>11. ASSUME NEW c \in Direct, Account!TimeOut(c)
       PROVE  Account!LossTakesAnOrphan'
  <2>1. reader' = [reader EXCEPT ![c] = "idle"] /\ trying' = trying /\ outlived' = outlived
    BY <1>11, Zenon DEF Account!TimeOut
  <2>2. /\ some(reader', "waiting") => some(reader, "waiting")
        /\ some(reader', "cancelled") => some(reader, "cancelled")
    BY <1>2, <2>1 DEF some
  <2> QED BY <1>1, <1>3, <2>1, <2>2, Zenon
<1>12. CASE Account!Push \/ Account!Tick \/ Account!StreamTurns \/ UNCHANGED accountVars
  BY <1>4, <1>12, Zenon DEF Account!Push, Account!Tick, Account!StreamTurns, accountVars
<1> QED BY <1>6, <1>7, <1>8, <1>9, <1>10, <1>11, <1>12 DEF Account!Next

LEMMA AccountKept == AccountInv /\ [Account!Next]_accountVars => AccountInv'
<1> SUFFICES ASSUME AccountInv, [Account!Next]_accountVars PROVE AccountInv'
  OBVIOUS
<1>1. StampsAreTrue'
  BY StampsKept DEF AccountInv
<1>2. WaitersWait' /\ Account!CurrentIsCurrent' /\ Account!LossTakesAnOrphan'
  BY AnswersKept, LossKept
<1> QED BY <1>1, <1>2, Zenon DEF AccountInv, Account!AccountAnswers

-----------------------------------------------------------------------------
(* OrderCancel.  A request under way has stripped nothing before it is     *)
(* sent, and every position in shares was named to it or opened after.     *)

NamedOrCrossed ==
  step = "checked" =>
    \A p \in held : p[2] = "STK" => p[1] \in names \/ p \in crossed

UnsentStripsNothing == step \in {"booked", "checked", "refused"} => stripped = {}

CancelInv == NamedOrCrossed /\ UnsentStripsNothing /\ Cancels!StrippingTakesARace

LEMMA CancelStarts ==
  SumInit => CancelInv
<1> SUFFICES ASSUME SumInit PROVE step = "idle" /\ stripped = {}
  BY DEF CancelInv, NamedOrCrossed, UnsentStripsNothing, Cancels!StrippingTakesARace
<1>1. CASE subject = "cancel"
  BY <1>1, Zenon DEF SumInit, Cancels!Init
<1>2. CASE subject # "cancel"
  BY <1>2, Zenon DEF SumInit
<1> QED BY <1>1, <1>2

\* What is sent strips a position in shares only through a race.
LEMMA SendTakesARace ==
  ASSUME CancelInv, Cancels!Send
  PROVE  CancelInv'
<1>1. step = "checked" /\ step' = "sent" /\ Cancels!Protected = {}
  BY DEF Cancels!Send
<1>2. UNCHANGED <<held, asked, orders, names, crossed>>
  BY DEF Cancels!Send
<1>3. PICK kept \in SUBSET asked :
        stripped' = {Cancels!Position(i) : i \in (asked \cap live) \ (kept \cup Opens)}
                      \cap held
  BY DEF Cancels!Send
<1>4. ASSUME NEW p \in stripped', p[2] = "STK"
      PROVE  p \in crossed \/ \E i \in asked \ (orders \cup Opens) : Cancels!Position(i) = p
  <2>1. PICK i \in (asked \cap live) \ (kept \cup Opens) : p = Cancels!Position(i)
    BY <1>3
  <2>2. p \in held
    BY <1>3
  <2>3. CASE i \notin orders
    BY <2>1, <2>3
  <2>4. CASE i \in orders
    <3>1. OrderSymbol[i] \notin names
      BY <1>1, <2>1, <2>4 DEF Cancels!Protected
    <3>2. p[1] = OrderSymbol[i]
      BY <2>1 DEF Cancels!Position
    <3> QED BY <1>1, <1>4, <2>2, <3>1, <3>2 DEF CancelInv, NamedOrCrossed
  <2> QED BY <2>3, <2>4
<1>5. Cancels!StrippingTakesARace'
  BY <1>1, <1>2, <1>4 DEF Cancels!StrippingTakesARace, Cancels!Position
<1> QED BY <1>1, <1>5 DEF CancelInv, NamedOrCrossed, UnsentStripsNothing

LEMMA CancelKept == CancelInv /\ [Cancels!Next]_cancelVars => CancelInv'
<1> SUFFICES ASSUME CancelInv, [Cancels!Next]_cancelVars PROVE CancelInv'
  OBVIOUS
<1> USE DEF CancelInv
<1>1. CASE Cancels!Send
  BY <1>1, SendTakesARace
<1>2. CASE Cancels!ReadBook
  BY <1>2 DEF Cancels!ReadBook, NamedOrCrossed, UnsentStripsNothing,
              Cancels!StrippingTakesARace
<1>3. CASE Cancels!ReadPositions
  <2>1. /\ step = "booked" /\ step' \in {"checked", "refused"}
        /\ step' = "checked" => names' = Cancels!HeldNames
        /\ UNCHANGED <<held, asked, orders, stripped, crossed>>
    BY <1>3 DEF Cancels!ReadPositions
  <2>2. NamedOrCrossed'
    BY <2>1 DEF NamedOrCrossed, Cancels!HeldNames
  <2> QED BY <2>1, <2>2 DEF UnsentStripsNothing, Cancels!StrippingTakesARace
<1>4. CASE Cancels!Refuse \/ Cancels!Verify \/ Cancels!Again
  <2>1. /\ step' \in {"refused", "done", "idle"}
        /\ step' = "refused" => stripped = {}
        /\ UNCHANGED <<asked, orders, stripped, crossed>>
    BY <1>4 DEF Cancels!Refuse, Cancels!Verify, Cancels!Again, UnsentStripsNothing
  <2> QED BY <2>1 DEF NamedOrCrossed, UnsentStripsNothing, Cancels!StrippingTakesARace,
                      Cancels!Position
<1>5. ASSUME NEW i \in Ids, Cancels!Fill(i) \/ Cancels!Place(i) PROVE CancelInv'
  <2>1. UNCHANGED <<step, asked, orders, names, stripped>>
    BY <1>5 DEF Cancels!Fill, Cancels!Place
  <2>2. crossed \subseteq crossed'
    BY <1>5 DEF Cancels!Fill, Cancels!Place
  <2>3. \A p \in held' : p \in held \/ step # "checked" \/ p \in crossed'
    BY <1>5 DEF Cancels!Fill, Cancels!Place
  <2>4. NamedOrCrossed'
    BY <2>1, <2>2, <2>3 DEF NamedOrCrossed
  <2>5. UnsentStripsNothing'
    BY <2>1 DEF UnsentStripsNothing
  <2>6. Cancels!StrippingTakesARace'
    BY <2>1, <2>2 DEF Cancels!StrippingTakesARace, Cancels!Position
  <2> QED BY <2>4, <2>5, <2>6
<1>6. CASE UNCHANGED cancelVars
  BY <1>6 DEF cancelVars, NamedOrCrossed, UnsentStripsNothing,
              Cancels!StrippingTakesARace, Cancels!Position
<1> QED BY <1>1, <1>2, <1>3, <1>4, <1>5, <1>6 DEF Cancels!Next

-----------------------------------------------------------------------------
(* SpreadLedger.                                                           *)

LEMMA RoundedIsNear ==
  ASSUME NEW n \in Int, NEW d \in Nat \ {0}
  PROVE  /\ Booking!Rounded(n, d) \in Int
         /\ 2 * (d * Booking!Rounded(n, d)) <= 2 * n + d
         /\ 2 * n + d < 2 * (d * Booking!Rounded(n, d)) + 2 * d
<1> DEFINE r == (2 * n + d) \div (2 * d)
<1>1. 2 * n + d \in Int /\ 2 * d \in Nat /\ 2 * d > 0
  OBVIOUS
<1>2. \A a \in Int : \A b \in Nat : b > 0 =>
        a \div b \in Int /\ b * (a \div b) <= a /\ a < b * (a \div b) + b
  OBVIOUS
<1>3. r \in Int /\ 2 * d * r <= 2 * n + d /\ 2 * n + d < 2 * d * r + 2 * d
  BY <1>1, <1>2
<1>4. 2 * d * r = 2 * (d * r)
  BY <1>3
<1> HIDE DEF r
<1>5. Booking!Rounded(n, d) = r
  BY DEF r, Booking!Rounded
<1> QED BY <1>3, <1>4, <1>5

\* A credit lowered to no less than half of it is still a credit.
LEMMA HalfIsPositive ==
  ASSUME NEW c \in Nat \ {0}, NEW a \in Nat \ 0 .. 49
  PROVE  Booking!Rounded(c * a, 100) > 0
<1>1. c * a \in Int /\ c * a >= 50
  <2>1. c * a = a + (c - 1) * a /\ (c - 1) * a \in Nat
    OBVIOUS
  <2> QED BY <2>1
<1>2. Booking!Rounded(c * a, 100) = (2 * (c * a) + 100) \div 200
  BY DEF Booking!Rounded
<1> QED BY <1>1, <1>2

\* The combo takes one contract of each leg per contract of the signal.
LEMMA ComboIsThePlan ==
  ASSUME plan.quantity \in Nat \ {0}
  PROVE  /\ Booking!ComboSize.total = plan.quantity
         /\ \A l \in Booking!Sides : Booking!ComboSize.ratio[l] = 1
<1> DEFINE q == plan.quantity
           divisors == {d \in 1 .. q : \A l \in Booking!Sides : Booking!Quantities[l] % d = 0}
<1>1. q % q = 0 /\ q \div q = 1
  OBVIOUS
<1>2. \A l \in Booking!Sides : Booking!Quantities[l] = q
  BY DEF Booking!Quantities
<1>3. q \in divisors /\ \A d \in divisors : d \in Int /\ d <= q
  BY <1>1, <1>2
<1>4. Booking!Max(divisors) = q
  <2>1. \A x \in divisors : (\A y \in divisors : x >= y) => x = q
    BY <1>3
  <2>2. Booking!Max(divisors) = CHOOSE x \in divisors : \A y \in divisors : x >= y
    BY DEF Booking!Max
  <2>3. \E x \in divisors : \A y \in divisors : x >= y
    BY <1>3
  <2> HIDE DEF divisors, q
  <2> QED BY <2>1, <2>2, <2>3
<1>5. Booking!ComboSize = [total |-> q, ratio |-> [l \in Booking!Sides |-> Booking!Quantities[l] \div q]]
  BY <1>4 DEF Booking!ComboSize
<1> QED BY <1>1, <1>2, <1>5

TicketTypes == [state : {"none", "working", "done"}, limit : Int, tries : Nat, filled : Nat,
                price : Int]
TrackedTypes == [status : {"none", "pending", "open", "cancelled", "closed"}, credit : Int,
                 quantity : Int]

BookTyped ==
  /\ plan.quantity \in Nat \ {0} /\ plan.credit \in Int /\ beside \in Int
  /\ ticket \in TicketTypes /\ tracked \in TrackedTypes
  /\ contracts \in [Booking!Sides -> Nat]
  /\ closes \in [Booking!Sides -> [n : Nat, paid : Int]] /\ cash \in Int

(***************************************************************************)
(* Contracts that are held and contracts that were closed make up the      *)
(* fill, and what was paid and received for them is the cash, until an     *)
(* execution of another trade is counted among those of the short leg.     *)
(***************************************************************************)
LegsAccountFor(l) == closes[l].n + contracts[l] = ticket.filled

FillsAccounted ==
  /\ ticket.filled <= plan.quantity
  /\ ticket.state # "done" => ticket.filled = 0
  /\ \A l \in Booking!Sides : contracts[l] <= ticket.filled
  /\ LegsAccountFor("long")
  /\ mixed \/ LegsAccountFor("short")

CashIsCounted ==
  \/ mixed
  \/ /\ \A l \in Booking!Sides : closes[l].n = 0 => closes[l].paid = 0
     /\ cash = 100 * (ticket.price * ticket.filled + closes["long"].paid
                        - closes["short"].paid)

CreditsStayPositive ==
  Booking!Credit > 0 =>
    /\ ticket.state = "working" => ticket.limit > 0
    /\ ticket.filled > 0 => ticket.price > 0

RowsTellThePlan ==
  /\ tracked.status # "none" => tracked.credit = Booking!Credit
  /\ tracked.status \in {"open", "closed"} /\ ticket.filled = 0 => beside > 0 \/ mixed

BookedAsTold ==
  booked.as = "known" =>
    /\ tracked.status = "closed" /\ Booking!ExitKnown
    /\ booked.pnl = Booking!ProfitOrLoss

BookInv ==
  /\ BookTyped /\ FillsAccounted /\ CashIsCounted /\ CreditsStayPositive
  /\ RowsTellThePlan /\ BookedAsTold

LEMMA BookStarts == Booking!Init => BookInv
<1> SUFFICES ASSUME Booking!Init PROVE BookInv
  OBVIOUS
<1>1. /\ plan \in [quantity : Sizes, credit : Credits] /\ beside \in Holdings
      /\ ticket = Booking!NoTicket /\ tracked = Booking!NoRow
      /\ contracts = [l \in Booking!Sides |-> 0]
      /\ closes = [l \in Booking!Sides |-> [n |-> 0, paid |-> 0]]
      /\ cash = 0 /\ booked = Booking!NotYet
  BY DEF Booking!Init
<1>2. BookTyped
  <2>1. plan.quantity \in Sizes /\ plan.credit \in Credits
    BY <1>1
  <2>2. ticket \in TicketTypes
    BY <1>1 DEF Booking!NoTicket, TicketTypes
  <2>3. tracked \in TrackedTypes
    BY <1>1 DEF Booking!NoRow, TrackedTypes
  <2>4. [n |-> 0, paid |-> 0] \in [n : Nat, paid : Int]
    OBVIOUS
  <2> QED BY <1>1, <2>1, <2>2, <2>3, <2>4, BookingAssumption DEF BookTyped, Booking!SpreadConstants
<1>3. ticket.filled = 0 /\ ticket.state = "none" /\ ticket.price = 0
  BY <1>1 DEF Booking!NoTicket
<1>4. \A l \in Booking!Sides : contracts[l] = 0 /\ closes[l].n = 0 /\ closes[l].paid = 0
  BY <1>1
<1>5. "long" \in Booking!Sides /\ "short" \in Booking!Sides
  BY DEF Booking!Sides
<1>6. FillsAccounted
  BY <1>2, <1>3, <1>4, <1>5 DEF FillsAccounted, LegsAccountFor, BookTyped
<1>7. CashIsCounted
  BY <1>1, <1>3, <1>4, <1>5 DEF CashIsCounted
<1>8. CreditsStayPositive /\ RowsTellThePlan
  BY <1>1, <1>3 DEF CreditsStayPositive, RowsTellThePlan, Booking!NoRow
<1>9. BookedAsTold
  BY <1>1 DEF BookedAsTold, Booking!NotYet
<1> QED BY <1>2, <1>6, <1>7, <1>8, <1>9 DEF BookInv

\* The cost to close is near the exact one.
LEMMA BookedNearCash ==
  ASSUME NEW q \in Nat \ {0}, NEW c \in Int, NEW sp \in Int, NEW lp \in Int,
         NEW cost \in Int,
         2 * ((q * q) * cost) <= 2 * (100 * (sp * q - lp * q)) + q * q,
         2 * (100 * (sp * q - lp * q)) + q * q < 2 * ((q * q) * cost) + 2 * (q * q)
  PROVE  LET pnl  == (100 * c - cost) * q * 100
             paid == 100 * (c * q + lp - sp)
         IN  /\ 2 * (pnl - 100 * paid) <= 100 * q
             /\ -(100 * q) <= 2 * (pnl - 100 * paid)
<1> DEFINE a == q * cost
           x == 2 * a - 200 * (sp - lp)
<1>1. a \in Int /\ x \in Int
  OBVIOUS
<1>2. /\ (q * q) * cost = q * a
      /\ 100 * (sp * q - lp * q) = q * (100 * (sp - lp))
  OBVIOUS
<1>3. 2 * (q * a) - 2 * (q * (100 * (sp - lp))) = q * x
  OBVIOUS
<1>4. q * x <= q * q /\ -(q * q) < q * x
  <2>1. q * a \in Int /\ q * (100 * (sp - lp)) \in Int /\ q * x \in Int /\ q * q \in Int
    BY <1>1
  <2> HIDE DEF a, x
  <2> QED BY <1>2, <1>3, <2>1
<1>5. x <= q
  <2>1. SUFFICES ASSUME x > q PROVE FALSE
    BY <1>1
  <2>2. q * x = q * q + q * (x - q) /\ q * (x - q) > 0
    <3> HIDE DEF x
    <3> QED BY <1>1, <2>1
  <2> HIDE DEF x, a
  <2> QED BY <1>4, <2>2, <1>1
<1>6. -q < x
  <2>1. SUFFICES ASSUME x <= -q PROVE FALSE
    BY <1>1
  <2>2. q * x = -(q * q) - q * (-q - x) /\ q * (-q - x) >= 0
    <3> HIDE DEF x
    <3> QED BY <1>1, <2>1
  <2> HIDE DEF x, a
  <2> QED BY <1>4, <2>2, <1>1
<1>7. 2 * ((100 * c - cost) * q * 100 - 100 * (100 * (c * q + lp - sp))) = -(100 * x)
  <2>1. (100 * c - cost) * q * 100 = 10000 * (c * q) - 100 * a
    OBVIOUS
  <2>2. 100 * (100 * (c * q + lp - sp)) = 10000 * (c * q) + 10000 * (lp - sp)
    OBVIOUS
  <2>3. c * q \in Int
    OBVIOUS
  <2> HIDE DEF a
  <2> QED BY <1>1, <2>1, <2>2, <2>3
<1> HIDE DEF x
<1> QED BY <1>1, <1>5, <1>6, <1>7

LEMMA BookedIsTheCash == BookInv => Booking!BookedIsCash
<1> SUFFICES ASSUME BookInv, booked.as = "known", \A l \in Booking!Sides : contracts[l] = 0,
                    Booking!WholeAndAsPlanned, ~mixed
             PROVE  2 * (booked.pnl - 100 * cash)
                      \in -(100 * plan.quantity) .. 100 * plan.quantity
  BY DEF Booking!BookedIsCash
<1>1. PICK q \in Nat \ {0} : q = plan.quantity
  BY DEF BookInv, BookTyped
<1>2. PICK c \in Int : c = plan.credit
  BY DEF BookInv, BookTyped
<1>3. "long" \in Booking!Sides /\ "short" \in Booking!Sides
  BY DEF Booking!Sides
<1>4. PICK sp \in Int : sp = closes["short"].paid
  BY <1>3 DEF BookInv, BookTyped
<1>5. PICK lp \in Int : lp = closes["long"].paid
  BY <1>3 DEF BookInv, BookTyped
<1>6. ticket.filled = q /\ ticket.price = c /\ tracked.quantity = q
  BY <1>1, <1>2, ComboIsThePlan DEF Booking!WholeAndAsPlanned, Booking!Credit
<1>7. closes["short"].n = q /\ closes["long"].n = q
  <2>1. /\ closes["short"].n + contracts["short"] = q
        /\ closes["long"].n + contracts["long"] = q
    BY <1>6 DEF BookInv, FillsAccounted, LegsAccountFor
  <2>2. closes["short"].n \in Nat /\ closes["long"].n \in Nat
    BY <1>3 DEF BookInv, BookTyped
  <2> QED BY <1>3, <2>1, <2>2
<1>8. cash = 100 * (c * q + lp - sp)
  BY <1>4, <1>5, <1>6 DEF BookInv, CashIsCounted
<1>9. Booking!CostToClose = Booking!Rounded(100 * (sp * q - lp * q), q * q)
  BY <1>4, <1>5, <1>7 DEF Booking!CostToClose
<1>10. q * q \in Nat \ {0} /\ 100 * (sp * q - lp * q) \in Int
  OBVIOUS
<1>11. PICK cost \in Int :
         /\ cost = Booking!CostToClose
         /\ 2 * ((q * q) * cost) <= 2 * (100 * (sp * q - lp * q)) + q * q
         /\ 2 * (100 * (sp * q - lp * q)) + q * q < 2 * ((q * q) * cost) + 2 * (q * q)
  BY <1>9, <1>10, RoundedIsNear
<1>12. booked.pnl = (100 * c - cost) * q * 100
  <2>1. booked.pnl = Booking!ProfitOrLoss /\ tracked.credit = c
    BY <1>2 DEF BookInv, BookedAsTold, RowsTellThePlan, Booking!Credit
  <2> QED BY <1>6, <1>11, <2>1 DEF Booking!ProfitOrLoss, Booking!Multiplier
<1>13. /\ 2 * (booked.pnl - 100 * cash) <= 100 * q
       /\ -(100 * q) <= 2 * (booked.pnl - 100 * cash)
  BY <1>8, <1>11, <1>12, BookedNearCash
<1>14. booked.pnl \in Int /\ cash \in Int
  BY <1>8, <1>12
<1> QED BY <1>1, <1>13, <1>14

LEMMA BookHolds == BookInv => Booking!SpreadLedgerHolds
<1> SUFFICES ASSUME BookInv PROVE Booking!SpreadLedgerHolds
  OBVIOUS
<1>1. Booking!BookedIsCash
  BY BookedIsTheCash
<1>2. Booking!PhantomTakesAnotherTrade
  BY DEF BookInv, RowsTellThePlan, Booking!PhantomTakesAnotherTrade, Booking!Listed
<1>3. Booking!OrderIsThePlan
  BY DEF BookInv, BookTyped, FillsAccounted, CreditsStayPositive, TicketTypes,
         Booking!OrderIsThePlan
<1> QED BY <1>1, <1>2, <1>3 DEF Booking!SpreadLedgerHolds

\* The parts of the ticket, the row and the fills that the types tell.
LEMMA BookParts ==
  ASSUME BookTyped
  PROVE  /\ ticket.state \in {"none", "working", "done"} /\ ticket.limit \in Int
         /\ ticket.tries \in Nat /\ ticket.filled \in Nat /\ ticket.price \in Int
         /\ ticket = [state |-> ticket.state, limit |-> ticket.limit, tries |-> ticket.tries,
                      filled |-> ticket.filled, price |-> ticket.price]
         /\ "long" \in Booking!Sides /\ "short" \in Booking!Sides
         /\ \A l \in Booking!Sides :
              contracts[l] \in Nat /\ closes[l].n \in Nat /\ closes[l].paid \in Int
  BY DEF BookTyped, TicketTypes, Booking!Sides

\* What stays of the invariant when only the ticket's limit, its tries and its end change.
LEMMA TicketMoves ==
  ASSUME BookInv, ticket' \in TicketTypes,
         ticket'.filled = ticket.filled, ticket'.price = ticket.price,
         ticket.state # "done",
         Booking!Credit > 0 /\ ticket'.state = "working" => ticket'.limit > 0,
         UNCHANGED <<plan, beside, contracts, closes, mixed, cash, booked>>,
         tracked' \in TrackedTypes, RowsTellThePlan', BookedAsTold'
  PROVE  BookInv'
<1>1. BookTyped'
  BY DEF BookInv, BookTyped
<1>2. ticket.filled = 0
  BY DEF BookInv, FillsAccounted
<1>3. FillsAccounted'
  BY <1>2 DEF BookInv, FillsAccounted, LegsAccountFor
<1>4. CashIsCounted'
  BY DEF BookInv, CashIsCounted
<1>5. CreditsStayPositive'
  BY <1>2 DEF CreditsStayPositive, Booking!Credit
<1> QED BY <1>1, <1>3, <1>4, <1>5 DEF BookInv

LEMMA BookedKept ==
  ASSUME BookedAsTold, UNCHANGED <<plan, closes, booked, tracked>>
  PROVE  BookedAsTold'
<1>1. Booking!CostToClose' = Booking!CostToClose
  BY DEF Booking!CostToClose, Booking!Rounded
<1>2. Booking!ProfitOrLoss' = Booking!ProfitOrLoss
  BY <1>1 DEF Booking!ProfitOrLoss, Booking!Multiplier
<1>3. Booking!ExitKnown' = Booking!ExitKnown
  BY DEF Booking!ExitKnown, Booking!Sides
<1> QED BY <1>2, <1>3 DEF BookedAsTold

\* Nothing is known of the exit of an order that has not filled.
LEMMA NothingBookedYet ==
  ASSUME BookInv, ticket.filled = 0
  PROVE  booked.as # "known"
<1>1. closes["long"].n = 0
  BY BookParts DEF BookInv, FillsAccounted, LegsAccountFor
<1> QED BY <1>1, BookParts DEF BookInv, BookedAsTold, Booking!ExitKnown

LEMMA PlaceKept == BookInv /\ Booking!Place => BookInv'
<1> SUFFICES ASSUME BookInv, Booking!Place PROVE BookInv'
  OBVIOUS
<1>1. ticket.state = "none" /\ UNCHANGED <<plan, beside, tracked, contracts, closes, mixed, cash, booked>>
  BY DEF Booking!Place
<1>2. ticket' = [state |-> "working", limit |-> Booking!FirstLimit, tries |-> 0, filled |-> 0,
                 price |-> 0]
  BY DEF Booking!Place, Booking!NoTicket
<1>3. plan.credit \in Int /\ Aggression \in Nat \ 0 .. 49
  BY BookingAssumption DEF BookInv, BookTyped, Booking!SpreadConstants
<1>4. Booking!FirstLimit \in Int
  <2>1. \A x \in Int : Booking!Rounded(x, 100) \in Int
    BY RoundedIsNear
  <2>2. plan.credit * Aggression \in Int
    BY <1>3
  <2> QED BY <2>1, <2>2 DEF Booking!FirstLimit, Booking!Credit
<1>5. ticket' \in TicketTypes
  BY <1>2, <1>4 DEF TicketTypes
<1>6. plan.credit > 0 => Booking!FirstLimit > 0
  BY <1>3, HalfIsPositive DEF Booking!FirstLimit, Booking!Credit
<1>7. ticket.filled = 0
  BY <1>1 DEF BookInv, FillsAccounted
<1>8. RowsTellThePlan'
  BY <1>1, <1>2, <1>7 DEF BookInv, RowsTellThePlan, Booking!Credit
<1>9. BookedAsTold'
  BY <1>1, BookedKept DEF BookInv
<1>10. tracked' \in TrackedTypes
  BY <1>1 DEF BookInv, BookTyped
<1>11. FillsAccounted' /\ CashIsCounted'
  <2>1. FillsAccounted'
    BY <1>1, <1>2, <1>7 DEF BookInv, FillsAccounted, LegsAccountFor
  <2>2. CashIsCounted'
    BY <1>1, <1>2, <1>7, BookParts DEF BookInv, CashIsCounted
  <2> QED BY <2>1, <2>2
<1>12. CreditsStayPositive'
  BY <1>1, <1>2, <1>6 DEF CreditsStayPositive, Booking!Credit
<1>13. BookTyped'
  BY <1>1, <1>5, <1>10 DEF BookInv, BookTyped
<1> QED BY <1>8, <1>9, <1>11, <1>12, <1>13 DEF BookInv

LEMMA EndKept == BookInv /\ (Booking!End \/ Booking!Retry) => BookInv'
<1> SUFFICES ASSUME BookInv, Booking!End \/ Booking!Retry PROVE BookInv'
  OBVIOUS
<1>1. ticket.state = "working" /\ UNCHANGED <<plan, beside, tracked, contracts, closes, mixed, cash, booked>>
  BY DEF Booking!End, Booking!Retry
<1>2. /\ RetryStep \in Nat
      /\ ticket.limit \in Int /\ ticket.tries \in Nat
  BY BookingAssumption, BookParts DEF BookInv, Booking!SpreadConstants
<1>3. \/ ticket' = [ticket EXCEPT !.state = "done"]
      \/ /\ ticket.limit - RetryStep > 0
         /\ ticket' = [ticket EXCEPT !.limit = ticket.limit - RetryStep, !.tries = ticket.tries + 1]
  <2>1. CASE Booking!End
    BY <2>1 DEF Booking!End
  <2>2. CASE Booking!Retry
    <3>1. ticket' = IF ticket.tries = MaxRetries \/ ticket.limit - RetryStep <= 0
                    THEN [ticket EXCEPT !.state = "done"]
                    ELSE [ticket EXCEPT !.limit = ticket.limit - RetryStep,
                                        !.tries = ticket.tries + 1]
      BY <2>2 DEF Booking!Retry
    <3> QED BY <1>2, <3>1
  <2> QED BY <2>1, <2>2
<1>4. /\ ticket' \in TicketTypes /\ ticket'.filled = ticket.filled
      /\ ticket'.price = ticket.price
      /\ ticket'.state = "working" => ticket'.limit > 0
  <2>1. ticket \in TicketTypes
    BY DEF BookInv, BookTyped
  <2>2. CASE ticket' = [ticket EXCEPT !.state = "done"]
    BY <2>1, <2>2 DEF TicketTypes
  <2>3. CASE /\ ticket.limit - RetryStep > 0
             /\ ticket' = [ticket EXCEPT !.limit = ticket.limit - RetryStep,
                                        !.tries = ticket.tries + 1]
    <3>1. ticket' = [state |-> ticket.state, limit |-> ticket.limit - RetryStep,
                     tries |-> ticket.tries + 1, filled |-> ticket.filled,
                     price |-> ticket.price]
      BY <2>1, <2>3 DEF TicketTypes
    <3>2. ticket.limit - RetryStep \in Int /\ ticket.tries + 1 \in Nat
      BY <1>2
    <3>3. ticket' \in TicketTypes
      BY <2>1, <3>1, <3>2 DEF TicketTypes
    <3> QED BY <2>3, <3>1, <3>3
  <2> QED BY <1>3, <2>2, <2>3
<1>5. RowsTellThePlan'
  BY <1>1, <1>4 DEF BookInv, RowsTellThePlan, Booking!Credit
<1>6. BookedAsTold'
  BY <1>1, BookedKept DEF BookInv
<1>7. tracked' \in TrackedTypes
  BY <1>1 DEF BookInv, BookTyped
<1> QED BY <1>1, <1>4, <1>5, <1>6, <1>7, TicketMoves

LEMMA LoseResultKept == BookInv /\ Booking!LoseResult => BookInv'
<1> SUFFICES ASSUME BookInv, Booking!LoseResult PROVE BookInv'
  OBVIOUS
<1>1. /\ ticket.state = "working"
      /\ UNCHANGED <<plan, beside, ticket, contracts, closes, mixed, cash, booked>>
  BY DEF Booking!LoseResult
<1>2. tracked' = [status |-> "pending", credit |-> plan.credit, quantity |-> plan.quantity]
  BY DEF Booking!LoseResult, Booking!Recorded, Booking!Credit
<1>3. tracked' \in TrackedTypes
  BY <1>2 DEF BookInv, BookTyped, TrackedTypes
<1>4. RowsTellThePlan'
  BY <1>1, <1>2 DEF RowsTellThePlan, Booking!Credit
<1>5. ticket.filled = 0
  BY <1>1 DEF BookInv, FillsAccounted
<1>6. BookedAsTold'
  BY <1>1, <1>5, NothingBookedYet DEF BookedAsTold
<1>7. Booking!Credit > 0 => ticket.limit > 0
  BY <1>1 DEF BookInv, CreditsStayPositive
<1>8. ticket' \in TicketTypes
  BY <1>1 DEF BookInv, BookTyped
<1> QED BY <1>1, <1>3, <1>4, <1>6, <1>7, <1>8, TicketMoves

LEMMA FillKept == BookInv /\ Booking!Fill => BookInv'
<1> SUFFICES ASSUME BookInv, Booking!Fill PROVE BookInv'
  OBVIOUS
<1>1. ticket.state = "working" /\ UNCHANGED <<plan, beside, closes, mixed, booked>>
  BY DEF Booking!Fill
<1>2. PICK n \in 1 .. Booking!ComboSize.total, gain \in {0, Gain} :
        /\ ticket' = [ticket EXCEPT !.state = "done", !.filled = n,
                                    !.price = ticket.limit + gain]
        /\ contracts' = [l \in Booking!Sides |-> n * Booking!ComboSize.ratio[l]]
        /\ cash' = (ticket.limit + gain) * n * 100
  BY DEF Booking!Fill, Booking!Multiplier
<1>3. plan.quantity \in Nat \ {0}
  BY DEF BookInv, BookTyped
<1>4. /\ Booking!ComboSize.total = plan.quantity
      /\ \A l \in Booking!Sides : Booking!ComboSize.ratio[l] = 1
  BY <1>3, ComboIsThePlan
<1>5. n \in Nat /\ 1 <= n /\ n <= plan.quantity /\ gain \in Nat
  BY <1>3, <1>4, BookingAssumption DEF Booking!SpreadConstants
<1>6. PICK price \in Int : price = ticket.limit + gain /\ price >= ticket.limit
  BY <1>5, BookParts DEF BookInv
<1>7. contracts' = [l \in Booking!Sides |-> n]
  BY <1>2, <1>4, <1>5
<1>8. ticket' = [state |-> "done", limit |-> ticket.limit, tries |-> ticket.tries,
                 filled |-> n, price |-> price]
  BY <1>2, <1>6, BookParts DEF BookInv
<1>9. ticket.filled = 0
  BY <1>1 DEF BookInv, FillsAccounted
<1>10. \/ tracked' = tracked
       \/ tracked' = [status |-> "open", credit |-> plan.credit, quantity |-> plan.quantity]
  BY DEF Booking!Fill, Booking!Recorded, Booking!Credit
<1>11. cash' = price * n * 100
  BY <1>2, <1>6
<1>12. BookTyped'
  <2>1. ticket' \in TicketTypes
    BY <1>5, <1>8, BookParts DEF BookInv, TicketTypes
  <2>2. tracked' \in TrackedTypes
    BY <1>10 DEF BookInv, BookTyped, TrackedTypes
  <2>3. contracts' \in [Booking!Sides -> Nat] /\ cash' \in Int
    BY <1>5, <1>7, <1>11
  <2> QED BY <1>1, <2>1, <2>2, <2>3 DEF BookInv, BookTyped
<1>13. FillsAccounted'
  <2>1. closes["long"].n = 0 /\ (mixed \/ closes["short"].n = 0)
    BY <1>9, BookParts DEF BookInv, FillsAccounted, LegsAccountFor
  <2> QED BY <1>1, <1>5, <1>7, <1>8, <2>1, BookParts DEF BookInv, FillsAccounted, LegsAccountFor
<1>14. CashIsCounted'
  <2>1. CASE mixed
    BY <1>1, <2>1 DEF CashIsCounted
  <2>2. CASE ~mixed
    <3>1. closes["long"].n = 0 /\ closes["short"].n = 0
      BY <1>9, <2>2, BookParts DEF BookInv, FillsAccounted, LegsAccountFor
    <3>2. closes["long"].paid = 0 /\ closes["short"].paid = 0
      BY <2>2, <3>1, BookParts DEF BookInv, CashIsCounted
    <3>3. cash' = 100 * (price * n + 0 - 0)
      BY <1>5, <1>11
    <3>4. \A l \in Booking!Sides : closes'[l].n = 0 => closes'[l].paid = 0
      BY <1>1, <2>2 DEF BookInv, CashIsCounted
    <3> QED BY <1>1, <1>8, <3>2, <3>3, <3>4 DEF CashIsCounted
  <2> QED BY <2>1, <2>2
<1>15. CreditsStayPositive'
  BY <1>1, <1>6, <1>8, BookParts DEF BookInv, CreditsStayPositive, Booking!Credit
<1>16. RowsTellThePlan'
  BY <1>1, <1>5, <1>8, <1>10 DEF BookInv, RowsTellThePlan, Booking!Credit
<1>17. BookedAsTold'
  BY <1>1, <1>9, NothingBookedYet DEF BookedAsTold
<1> QED BY <1>12, <1>13, <1>14, <1>15, <1>16, <1>17 DEF BookInv

LEMMA CloseLegKept == BookInv /\ Booking!CloseLeg => BookInv'
<1> SUFFICES ASSUME BookInv, Booking!CloseLeg PROVE BookInv'
  OBVIOUS
<1>1. booked.as = "no" /\ UNCHANGED <<plan, beside, ticket, tracked, mixed, booked>>
  BY DEF Booking!CloseLeg, Booking!NotYet
<1>2. PICK l \in Booking!Sides, price \in ClosePrices : \E n \in 1 .. contracts[l] :
        /\ contracts' = [contracts EXCEPT ![l] = @ - n]
        /\ closes' = [closes EXCEPT ![l] = [n |-> @.n + n, paid |-> @.paid + n * price]]
        /\ cash' = cash + Booking!Proceeds(l, price) * n * 100
  BY DEF Booking!CloseLeg, Booking!Multiplier
<1>3. PICK n \in 1 .. contracts[l] :
        /\ contracts' = [contracts EXCEPT ![l] = @ - n]
        /\ closes' = [closes EXCEPT ![l] = [n |-> @.n + n, paid |-> @.paid + n * price]]
        /\ cash' = cash + Booking!Proceeds(l, price) * n * 100
  BY <1>2
<1>4. n \in Nat /\ 1 <= n /\ n <= contracts[l]
  BY BookParts DEF BookInv
<1>5. price \in Int
  BY BookingAssumption DEF Booking!SpreadConstants
<1>6. PICK paid \in Int : paid = n * price
  BY <1>4, <1>5
<1>7. /\ contracts \in [Booking!Sides -> Nat]
      /\ closes \in [Booking!Sides -> [n : Nat, paid : Int]]
      /\ cash \in Int
  BY DEF BookInv, BookTyped
<1>8. /\ contracts'[l] = contracts[l] - n
      /\ closes'[l] = [n |-> closes[l].n + n, paid |-> closes[l].paid + paid]
      /\ \A m \in Booking!Sides \ {l} : contracts'[m] = contracts[m] /\ closes'[m] = closes[m]
  BY <1>3, <1>6, <1>7
<1>9. cash' = IF l = "long" THEN cash + 100 * paid ELSE cash - 100 * paid
  <2>1. CASE l = "long"
    BY <1>3, <1>4, <1>5, <1>6, <1>7, <2>1 DEF Booking!Proceeds
  <2>2. CASE l # "long"
    <3>1. (-price) * n * 100 = -(100 * paid)
      BY <1>4, <1>5, <1>6
    <3> QED BY <1>3, <1>7, <2>2, <3>1 DEF Booking!Proceeds
  <2> QED BY <2>1, <2>2
<1>10. BookTyped'
  <2>1. contracts' \in [Booking!Sides -> Nat]
    BY <1>3, <1>4, <1>7
  <2>2. closes[l].n \in Nat /\ closes[l].paid \in Int
    BY <1>7
  <2>3. [n |-> closes[l].n + n, paid |-> closes[l].paid + paid] \in [n : Nat, paid : Int]
    BY <1>4, <2>2
  <2>4. closes' = [closes EXCEPT ![l] = [n |-> closes[l].n + n, paid |-> closes[l].paid + paid]]
    BY <1>3, <1>6
  <2>5. closes' \in [Booking!Sides -> [n : Nat, paid : Int]]
    BY <1>7, <2>3, <2>4
  <2>6. cash' \in Int
    BY <1>7, <1>9
  <2> QED BY <1>1, <2>1, <2>5, <2>6 DEF BookInv, BookTyped
<1>11. l \in {"long", "short"}
  BY DEF Booking!Sides
<1>12. FillsAccounted'
  <2>1. \A m \in Booking!Sides : closes'[m].n + contracts'[m] = closes[m].n + contracts[m]
    BY <1>4, <1>8, BookParts DEF BookInv
  <2>2. \A m \in Booking!Sides : contracts'[m] <= contracts[m]
    BY <1>4, <1>8, BookParts DEF BookInv
  <2>3. \A m \in Booking!Sides : contracts'[m] <= ticket.filled
    BY <2>2, BookParts, <1>10 DEF BookInv, FillsAccounted, BookTyped
  <2> QED BY <1>1, <2>1, <2>3, BookParts DEF BookInv, FillsAccounted, LegsAccountFor
<1>13. CashIsCounted'
  <2>1. CASE mixed
    BY <1>1, <2>1 DEF CashIsCounted
  <2>2. CASE ~mixed
    <3>1. \A m \in Booking!Sides : closes'[m].n = 0 => closes'[m].paid = 0
      BY <1>4, <1>8, <2>2, BookParts DEF BookInv, CashIsCounted
    <3>2. PICK worth \in Int : worth = ticket.price * ticket.filled
      BY BookParts DEF BookInv
    <3>3. cash = 100 * (worth + closes["long"].paid - closes["short"].paid)
      BY <2>2, <3>2 DEF BookInv, CashIsCounted
    <3>4. cash' = 100 * (worth + closes'["long"].paid - closes'["short"].paid)
      <4>1. CASE l = "long"
        BY <1>8, <1>9, <3>3, <4>1, BookParts DEF BookInv
      <4>2. CASE l = "short"
        BY <1>8, <1>9, <3>3, <4>2, BookParts DEF BookInv
      <4> QED BY <1>11, <4>1, <4>2
    <3> QED BY <1>1, <3>1, <3>2, <3>4 DEF CashIsCounted
  <2> QED BY <2>1, <2>2
<1>14. CreditsStayPositive' /\ RowsTellThePlan'
  BY <1>1 DEF BookInv, CreditsStayPositive, RowsTellThePlan, Booking!Credit
<1>15. BookedAsTold'
  BY <1>1 DEF BookedAsTold
<1> QED BY <1>10, <1>12, <1>13, <1>14, <1>15 DEF BookInv

LEMMA MixKept == BookInv /\ Booking!Mix => BookInv'
<1> SUFFICES ASSUME BookInv, Booking!Mix PROVE BookInv'
  OBVIOUS
<1>1. /\ mixed' = TRUE /\ booked.as = "no"
      /\ UNCHANGED <<plan, beside, ticket, tracked, contracts, cash, booked>>
  BY DEF Booking!Mix, Booking!NotYet
<1>2. PICK price \in ClosePrices :
        closes' = [closes EXCEPT !["short"] = [n |-> @.n + 1, paid |-> @.paid + price]]
  BY DEF Booking!Mix
<1>3. price \in Int /\ closes \in [Booking!Sides -> [n : Nat, paid : Int]]
  BY BookingAssumption DEF BookInv, BookTyped, Booking!SpreadConstants
<1>4. "short" \in Booking!Sides /\ "long" \in Booking!Sides /\ "long" # "short"
  BY DEF Booking!Sides
<1>5. closes'["long"] = closes["long"]
  BY <1>2, <1>3, <1>4
<1>6. closes' \in [Booking!Sides -> [n : Nat, paid : Int]]
  <2>1. closes["short"].n + 1 \in Nat /\ closes["short"].paid + price \in Int
    BY <1>3, <1>4
  <2> QED BY <1>2, <1>3, <1>4, <2>1
<1>7. BookTyped'
  BY <1>1, <1>6 DEF BookInv, BookTyped
<1>8. FillsAccounted'
  BY <1>1, <1>5 DEF BookInv, FillsAccounted, LegsAccountFor
<1>9. CashIsCounted' /\ CreditsStayPositive' /\ RowsTellThePlan' /\ BookedAsTold'
  BY <1>1 DEF BookInv, CashIsCounted, CreditsStayPositive, RowsTellThePlan, BookedAsTold,
              Booking!Credit
<1> QED BY <1>7, <1>8, <1>9 DEF BookInv

LEMMA PollPendingKept == BookInv /\ Booking!PollPending => BookInv'
<1> SUFFICES ASSUME BookInv, Booking!PollPending PROVE BookInv'
  OBVIOUS
<1>1. /\ tracked.status = "pending"
      /\ UNCHANGED <<plan, beside, contracts, closes, mixed, cash, booked>>
  BY DEF Booking!PollPending
<1>2. tracked \in TrackedTypes /\ ticket \in TicketTypes /\ beside \in Int
  BY DEF BookInv, BookTyped
<1>3. booked.as # "known"
  BY <1>1 DEF BookInv, BookedAsTold
<1>4. BookedAsTold'
  BY <1>1, <1>3 DEF BookedAsTold
<1>5. \/ /\ Booking!Listed \/ Booking!Traded
         /\ tracked' = [tracked EXCEPT !.status = "open",
                                       !.quantity = IF Booking!Listed THEN beside ELSE @]
         /\ ticket' = ticket
      \/ /\ tracked' = [tracked EXCEPT !.status = "cancelled"]
         /\ ticket' = [ticket EXCEPT !.state = "done"]
  BY DEF Booking!PollPending
<1>6. CASE /\ Booking!Listed \/ Booking!Traded
           /\ tracked' = [tracked EXCEPT !.status = "open",
                                         !.quantity = IF Booking!Listed THEN beside ELSE @]
           /\ ticket' = ticket
  <2>1. PICK q \in Int : tracked' = [status |-> "open", credit |-> tracked.credit, quantity |-> q]
    <3>1. tracked.quantity \in Int
      BY <1>2 DEF TrackedTypes
    <3>2. CASE Booking!Listed
      BY <1>2, <1>6, <3>2 DEF TrackedTypes
    <3>3. CASE ~Booking!Listed
      BY <1>2, <1>6, <3>1, <3>3 DEF TrackedTypes
    <3> QED BY <3>2, <3>3
  <2>2. tracked' \in TrackedTypes
    BY <1>2, <2>1 DEF TrackedTypes
  <2>3. ticket.filled = 0 => beside > 0 \/ mixed
    <3>1. SUFFICES ASSUME ticket.filled = 0, ~mixed PROVE ~Booking!Traded
      BY <1>6 DEF Booking!Listed
    <3>2. closes["long"].n = 0 /\ closes["short"].n = 0
      BY <3>1, BookParts DEF BookInv, FillsAccounted, LegsAccountFor
    <3> QED BY <3>1, <3>2 DEF Booking!Traded, Booking!Sides
  <2>4. RowsTellThePlan'
    BY <1>1, <1>6, <2>1, <2>3 DEF BookInv, RowsTellThePlan, Booking!Credit
  <2>5. BookTyped' /\ FillsAccounted' /\ CashIsCounted' /\ CreditsStayPositive'
    BY <1>1, <1>6, <2>2 DEF BookInv, BookTyped, FillsAccounted, LegsAccountFor, CashIsCounted,
                            CreditsStayPositive, Booking!Credit
  <2> QED BY <1>4, <2>4, <2>5 DEF BookInv
<1>7. CASE /\ tracked' = [tracked EXCEPT !.status = "cancelled"]
           /\ ticket' = [ticket EXCEPT !.state = "done"]
  <2>1. tracked' \in TrackedTypes /\ tracked'.status = "cancelled" /\ tracked'.credit = tracked.credit
    BY <1>2, <1>7 DEF TrackedTypes
  <2>2. /\ ticket' \in TicketTypes /\ ticket'.state = "done"
        /\ ticket'.filled = ticket.filled /\ ticket'.price = ticket.price
    BY <1>2, <1>7 DEF TicketTypes
  <2>3. RowsTellThePlan'
    BY <1>1, <2>1 DEF BookInv, RowsTellThePlan, Booking!Credit
  <2>4. BookTyped'
    BY <1>1, <2>1, <2>2 DEF BookInv, BookTyped
  <2>5. FillsAccounted' /\ CashIsCounted' /\ CreditsStayPositive'
    BY <1>1, <2>2 DEF BookInv, FillsAccounted, LegsAccountFor, CashIsCounted,
                      CreditsStayPositive, Booking!Credit
  <2> QED BY <1>4, <2>3, <2>4, <2>5 DEF BookInv
<1> QED BY <1>5, <1>6, <1>7

LEMMA PollMissingKept == BookInv /\ Booking!PollMissing => BookInv'
<1> SUFFICES ASSUME BookInv, Booking!PollMissing PROVE BookInv'
  OBVIOUS
<1>1. /\ tracked.status = "open"
      /\ UNCHANGED <<plan, beside, ticket, contracts, closes, mixed, cash>>
  BY DEF Booking!PollMissing
<1>2. /\ tracked \in TrackedTypes
      /\ tracked' = tracked \/ tracked' = [tracked EXCEPT !.status = "closed"]
  BY DEF Booking!PollMissing, BookInv, BookTyped
<1>3. /\ tracked' \in TrackedTypes
      /\ tracked'.credit = tracked.credit /\ tracked'.quantity = tracked.quantity
      /\ tracked'.status \in {"open", "closed"}
  BY <1>1, <1>2 DEF TrackedTypes
<1>4. RowsTellThePlan'
  BY <1>1, <1>3 DEF BookInv, RowsTellThePlan, Booking!Credit
<1>5. BookTyped' /\ FillsAccounted' /\ CashIsCounted' /\ CreditsStayPositive'
  BY <1>1, <1>3 DEF BookInv, BookTyped, FillsAccounted, LegsAccountFor, CashIsCounted,
                    CreditsStayPositive, Booking!Credit
<1>6. BookedAsTold'
  <2>1. booked.as # "known"
    BY <1>1 DEF BookInv, BookedAsTold
  <2>2. SUFFICES ASSUME booked'.as = "known"
                 PROVE  /\ tracked'.status = "closed" /\ Booking!ExitKnown'
                        /\ booked'.pnl = Booking!ProfitOrLoss'
    BY DEF BookedAsTold
  <2>3. /\ Booking!ExitKnown /\ tracked' = [tracked EXCEPT !.status = "closed"]
        /\ booked' = [as |-> "known", pnl |-> Booking!ProfitOrLoss]
    BY <2>1, <2>2 DEF Booking!PollMissing
  <2>4. Booking!CostToClose' = Booking!CostToClose
    BY <1>1 DEF Booking!CostToClose, Booking!Rounded
  <2>5. Booking!ProfitOrLoss' = Booking!ProfitOrLoss
    BY <1>3, <2>4 DEF Booking!ProfitOrLoss, Booking!Multiplier
  <2>6. Booking!ExitKnown'
    BY <1>1, <2>3 DEF Booking!ExitKnown, Booking!Sides
  <2>7. tracked'.status = "closed"
    BY <1>2, <2>3 DEF TrackedTypes
  <2> QED BY <2>3, <2>5, <2>6, <2>7
<1> QED BY <1>4, <1>5, <1>6 DEF BookInv

LEMMA BookKept == BookInv /\ [Booking!Next]_ledgerVars => BookInv'
<1> SUFFICES ASSUME BookInv, [Booking!Next]_ledgerVars PROVE BookInv'
  OBVIOUS
<1>1. CASE UNCHANGED ledgerVars
  <2>1. UNCHANGED <<plan, beside, ticket, tracked, contracts, closes, mixed, cash, booked>>
    BY <1>1 DEF ledgerVars
  <2>2. BookedAsTold'
    BY <2>1, BookedKept DEF BookInv
  <2>3. RowsTellThePlan'
    BY <2>1 DEF BookInv, RowsTellThePlan, Booking!Credit
  <2>4. BookTyped' /\ FillsAccounted' /\ CashIsCounted' /\ CreditsStayPositive'
    BY <2>1 DEF BookInv, BookTyped, FillsAccounted, LegsAccountFor, CashIsCounted,
                CreditsStayPositive, Booking!Credit
  <2> QED BY <2>2, <2>3, <2>4 DEF BookInv
<1> QED
  BY <1>1, PlaceKept, FillKept, EndKept, LoseResultKept, CloseLegKept, MixKept,
     PollPendingKept, PollMissingKept DEF Booking!Next

-----------------------------------------------------------------------------
(* ResearchLab.  Unless two requests held a reading of the row at once,    *)
(* what the one under way has read is still the row, so that its commit    *)
(* writes a row that its gates let through.                                *)

Experiments ==
  [stage : Lab!Stages, backtest : Backtests \cup {None}, walk : Walks \cup {None},
   perf : Perfs \cup {None}, base : [of : Perfs, tol : Nat] \cup {None}]

Passed(r, n) ==
  \E target \in Lab!Stages, bt \in Backtests \cup {None}, wf \in Walks \cup {None},
     p \in Perfs \cup {None} : n \in Lab!Patched(r, target, bt, wf, p)

LabTyped ==
  /\ exp \in Experiments /\ atOnce \in BOOLEAN
  /\ DOMAIN pending = LabRequests
  /\ \A q \in LabRequests : pending[q] # None =>
       /\ pending[q].old \in Experiments
       /\ Passed(pending[q].old, pending[q].new)

AloneReadsTrue ==
  ~atOnce =>
    \A q \in LabRequests : pending[q] # None =>
      /\ pending[q].old = exp
      /\ \A o \in LabRequests \ {q} : pending[o] = None

\* Evidence for a row in its stage.
EarnedBy(r) ==
  /\ r.stage \in {"paper", "promoted"} => Lab!Clears(r.walk)
  /\ r.stage = "promoted" =>
       /\ Lab!Clears(r.perf) /\ r.base.of = r.perf
       /\ r.base.tol >= r.perf.dd /\ r.base.tol >= Floor
       /\ r.backtest # None => r.base.tol >= r.backtest.dd

LabInv == LabTyped /\ AloneReadsTrue /\ (~atOnce => EarnedBy(exp))

LEMMA LabStarts == Lab!Init => LabInv
<1> SUFFICES ASSUME Lab!Init PROVE LabInv
  OBVIOUS
<1>1. /\ exp = Lab!Fresh /\ atOnce = FALSE
      /\ pending = [q \in LabRequests |-> None]
  BY DEF Lab!Init
<1>2. Lab!Fresh \in Experiments /\ Lab!Fresh.stage = "draft"
  BY DEF Lab!Fresh, Experiments, Lab!Stages
<1> QED BY <1>1, <1>2 DEF LabInv, LabTyped, AloneReadsTrue, EarnedBy

LEMMA HighestIsHigh ==
  ASSUME NEW a \in Nat, NEW b \in Nat
  PROVE  Lab!Highest(a, b) \in Nat /\ Lab!Highest(a, b) >= a /\ Lab!Highest(a, b) >= b
  BY DEF Lab!Highest

\* The baseline is no tighter than the record it is drawn from.
LEMMA BaselineIsNoTighter ==
  ASSUME NEW p \in Perfs, NEW bt \in Backtests \cup {None}
  PROVE  LET base == Lab!BaselineOf(p, bt)
         IN  /\ base \in [of : Perfs, tol : Nat] /\ base.of = p
             /\ base.tol >= p.dd /\ base.tol >= Floor
             /\ bt # None => base.tol >= bt.dd
<1> DEFINE a == Lab!Highest(p.dd, Floor)
           c == IF bt = None THEN 0 ELSE bt.dd
           t == Lab!Highest(a, c)
<1>1. p.dd \in Nat /\ Floor \in Nat /\ c \in Nat
  BY LabAssumption DEF Lab!DrawdownsAreNumbers
<1>2. a \in Nat /\ a >= p.dd /\ a >= Floor
  BY <1>1, HighestIsHigh
<1>3. t \in Nat /\ t >= a /\ t >= c
  <2> HIDE DEF a, c
  <2> QED BY <1>1, <1>2, HighestIsHigh
<1>4. Lab!BaselineOf(p, bt) = [of |-> p, tol |-> t]
  BY DEF Lab!BaselineOf
<1> HIDE DEF a, t
<1>5. t >= p.dd /\ t >= Floor
  BY <1>1, <1>2, <1>3
<1> QED BY <1>3, <1>4, <1>5

\* What the gates let through is an experiment, and earned if its row was.
LEMMA PatchesAreEarned ==
  ASSUME NEW r \in Experiments, NEW n, Passed(r, n)
  PROVE  n \in Experiments /\ (EarnedBy(r) => EarnedBy(n))
<1>1. PICK target \in Lab!Stages, bt \in Backtests \cup {None}, wf \in Walks \cup {None},
           p \in Perfs \cup {None} : n \in Lab!Patched(r, target, bt, wf, p)
  BY DEF Passed
<1> DEFINE w == Lab!Given(wf, r.walk)
           q == Lab!Given(p, r.perf)
           s == IF q = None THEN r.base ELSE Lab!BaselineOf(q, r.backtest)
<1>2. /\ r.stage \in Lab!Stages /\ r.backtest \in Backtests \cup {None}
      /\ r.walk \in Walks \cup {None} /\ r.perf \in Perfs \cup {None}
      /\ r.base \in [of : Perfs, tol : Nat] \cup {None}
      /\ r = [stage |-> r.stage, backtest |-> r.backtest, walk |-> r.walk, perf |-> r.perf,
              base |-> r.base]
  BY DEF Experiments
<1>3. w \in Walks \cup {None} /\ q \in Perfs \cup {None}
  BY <1>2 DEF Lab!Given
<1>4. s \in [of : Perfs, tol : Nat] \cup {None}
  <2> HIDE DEF q
  <2> QED BY <1>2, <1>3, BaselineIsNoTighter
<1>5. /\ target \in Lab!Allowed[r.stage]
      /\ target = "backtested" => bt # None
      /\ target = "paper" /\ r.stage = "walk_forward" => Lab!Clears(n.walk)
      /\ target = "promoted" => Lab!Clears(n.perf)
  BY <1>1 DEF Lab!Patched
<1>6. n = IF target = "backtested" THEN [r EXCEPT !.stage = target, !.backtest = bt]
          ELSE IF target \in {"walk_forward", "paper"}
                  /\ r.stage \in {"backtested", "walk_forward"}
            THEN [r EXCEPT !.stage = target, !.walk = w]
          ELSE IF target = "promoted"
            THEN [r EXCEPT !.stage = target, !.perf = q, !.base = s]
          ELSE [r EXCEPT !.stage = target]
  BY <1>1 DEF Lab!Patched
<1> HIDE DEF w, q, s
<1>7. n = IF target = "backtested"
          THEN [stage |-> target, backtest |-> bt, walk |-> r.walk, perf |-> r.perf,
                base |-> r.base]
          ELSE IF target \in {"walk_forward", "paper"}
                  /\ r.stage \in {"backtested", "walk_forward"}
            THEN [stage |-> target, backtest |-> r.backtest, walk |-> w, perf |-> r.perf,
                  base |-> r.base]
          ELSE IF target = "promoted"
            THEN [stage |-> target, backtest |-> r.backtest, walk |-> r.walk, perf |-> q,
                  base |-> s]
          ELSE [stage |-> target, backtest |-> r.backtest, walk |-> r.walk, perf |-> r.perf,
                base |-> r.base]
  <2>1. CASE target = "backtested"
    <3>1. n = [r EXCEPT !.stage = target, !.backtest = bt]
      BY <1>6, <2>1, Zenon
    <3>2. n = [stage |-> target, backtest |-> bt, walk |-> r.walk, perf |-> r.perf,
               base |-> r.base]
      BY <3>1 DEF Experiments
    <3> QED BY <2>1, <3>2, Zenon
  <2>2. CASE /\ target # "backtested" /\ target \in {"walk_forward", "paper"}
             /\ r.stage \in {"backtested", "walk_forward"}
    <3>1. n = [r EXCEPT !.stage = target, !.walk = w]
      BY <1>6, <2>2, Zenon
    <3>2. n = [stage |-> target, backtest |-> r.backtest, walk |-> w, perf |-> r.perf,
               base |-> r.base]
      BY <3>1 DEF Experiments
    <3> QED BY <2>2, <3>2, Zenon
  <2>3. CASE /\ target = "promoted"
             /\ ~(target \in {"walk_forward", "paper"}
                  /\ r.stage \in {"backtested", "walk_forward"})
    <3>1. n = [r EXCEPT !.stage = target, !.perf = q, !.base = s]
      BY <1>6, <2>3
    <3>2. n = [stage |-> target, backtest |-> r.backtest, walk |-> r.walk, perf |-> q,
               base |-> s]
      BY <3>1 DEF Experiments
    <3> QED BY <2>3, <3>2
  <2>4. CASE /\ target # "backtested" /\ target # "promoted"
             /\ ~(target \in {"walk_forward", "paper"}
                  /\ r.stage \in {"backtested", "walk_forward"})
    <3>1. n = [r EXCEPT !.stage = target]
      BY <1>6, <2>4, Zenon
    <3>2. n = [stage |-> target, backtest |-> r.backtest, walk |-> r.walk, perf |-> r.perf,
               base |-> r.base]
      BY <3>1 DEF Experiments
    <3> QED BY <2>4, <3>2, Zenon
  <2> QED BY <2>1, <2>2, <2>3, <2>4
<1>8. n \in Experiments
  BY <1>2, <1>3, <1>4, <1>7 DEF Experiments
<1>9. n.stage = target
  BY <1>7
<1>10. ASSUME EarnedBy(r) PROVE EarnedBy(n)
  <2>1. CASE target = "paper"
    <3>1. r.stage \in {"walk_forward", "promoted"}
      BY <1>2, <1>5, <2>1 DEF Lab!Allowed, Lab!Stages
    <3>2. CASE r.stage = "walk_forward"
      BY <1>5, <1>9, <2>1, <3>2 DEF EarnedBy
    <3>3. CASE r.stage = "promoted"
      <4>1. n.walk = r.walk
        BY <1>7, <2>1, <3>3
      <4> QED BY <1>9, <1>10, <2>1, <3>3, <4>1 DEF EarnedBy
    <3> QED BY <3>1, <3>2, <3>3
  <2>2. CASE target = "promoted"
    <3>1. r.stage = "paper"
      BY <1>2, <1>5, <2>2 DEF Lab!Allowed, Lab!Stages
    <3>2. n.walk = r.walk /\ n.perf = q /\ n.base = s /\ n.backtest = r.backtest
      BY <1>7, <2>2
    <3>3. Lab!Clears(n.perf) /\ q # None
      BY <1>5, <2>2, <3>2 DEF Lab!Clears
    <3>4. q \in Perfs /\ s = Lab!BaselineOf(q, r.backtest)
      BY <1>3, <3>3 DEF s
    <3>5. /\ s.of = q /\ s.tol >= q.dd /\ s.tol >= Floor
          /\ r.backtest # None => s.tol >= r.backtest.dd
      BY <1>2, <3>4, BaselineIsNoTighter
    <3> QED BY <1>9, <1>10, <2>2, <3>1, <3>2, <3>3, <3>5 DEF EarnedBy
  <2>3. CASE target \notin {"paper", "promoted"}
    BY <1>9, <2>3 DEF EarnedBy
  <2> QED BY <2>1, <2>2, <2>3
<1> QED BY <1>8, <1>10

LEMMA LabKept == LabInv /\ [Lab!Next]_labVars => LabInv'
<1> SUFFICES ASSUME LabInv, [Lab!Next]_labVars PROVE LabInv'
  OBVIOUS
<1> USE DEF LabInv
<1>1. ASSUME NEW q \in LabRequests, Lab!Read(q) PROVE LabInv'
  <2>1. /\ pending[q] = None /\ exp' = exp
        /\ atOnce' = (atOnce \/ \E o \in LabRequests \ {q} : pending[o] # None)
    BY <1>1 DEF Lab!Read
  <2>2. PICK n : /\ Passed(exp, n)
                 /\ pending' = [pending EXCEPT ![q] = [old |-> exp, new |-> n]]
    BY <1>1 DEF Lab!Read, Passed
  <2>3. /\ pending'[q] = [old |-> exp, new |-> n] /\ DOMAIN pending' = LabRequests
        /\ \A o \in LabRequests \ {q} : pending'[o] = pending[o]
    BY <2>2 DEF LabTyped
  <2>4. LabTyped'
    <3>1. atOnce' \in BOOLEAN
      BY <2>1
    <3>2. exp' \in Experiments
      BY <2>1 DEF LabTyped
    <3>3. \A o \in LabRequests : pending'[o] # None =>
            pending'[o].old \in Experiments /\ Passed(pending'[o].old, pending'[o].new)
      BY <2>2, <2>3 DEF LabTyped
    <3> QED BY <2>3, <3>1, <3>2, <3>3 DEF LabTyped, Passed, Experiments
  <2>5. AloneReadsTrue'
    <3> SUFFICES ASSUME ~atOnce', NEW o \in LabRequests, pending'[o] # None
                 PROVE  /\ pending'[o].old = exp'
                        /\ \A x \in LabRequests \ {o} : pending'[x] = None
      BY DEF AloneReadsTrue
    <3>1. ~atOnce /\ \A x \in LabRequests \ {q} : pending[x] = None
      BY <2>1
    <3>2. o = q
      BY <2>3, <3>1
    <3> QED BY <2>1, <2>3, <3>1, <3>2
  <2>6. ~atOnce' => EarnedBy(exp)'
    BY <2>1 DEF EarnedBy, Lab!Clears
  <2> QED BY <2>4, <2>5, <2>6
<1>2. ASSUME NEW q \in LabRequests, Lab!Commit(q) PROVE LabInv'
  <2>1. /\ pending[q] # None /\ atOnce' = atOnce
        /\ exp' = [c \in DOMAIN exp |-> IF pending[q].new[c] = pending[q].old[c] THEN exp[c]
                                        ELSE pending[q].new[c]]
        /\ pending' = [pending EXCEPT ![q] = None]
    BY <1>2 DEF Lab!Commit
  <2>2. /\ pending'[q] = None /\ DOMAIN pending' = LabRequests
        /\ \A o \in LabRequests \ {q} : pending'[o] = pending[o]
    BY <2>1 DEF LabTyped
  <2>3. PICK r : r = pending[q].old /\ r \in Experiments
    BY <2>1 DEF LabTyped
  <2>4. PICK n : n = pending[q].new /\ n \in Experiments /\ Passed(r, n)
    BY <2>1, <2>3, PatchesAreEarned DEF LabTyped
  <2>5. exp \in Experiments
    BY DEF LabTyped
  <2>6. exp' = [stage    |-> IF n.stage = r.stage THEN exp.stage ELSE n.stage,
                backtest |-> IF n.backtest = r.backtest THEN exp.backtest ELSE n.backtest,
                walk     |-> IF n.walk = r.walk THEN exp.walk ELSE n.walk,
                perf     |-> IF n.perf = r.perf THEN exp.perf ELSE n.perf,
                base     |-> IF n.base = r.base THEN exp.base ELSE n.base]
    BY <2>1, <2>3, <2>4, <2>5 DEF Experiments
  <2>7. exp' \in Experiments
    BY <2>3, <2>4, <2>5, <2>6 DEF Experiments
  <2>8. LabTyped'
    <3>1. atOnce' \in BOOLEAN
      BY <2>1 DEF LabTyped
    <3>2. \A o \in LabRequests : pending'[o] # None =>
            pending'[o].old \in Experiments /\ Passed(pending'[o].old, pending'[o].new)
      BY <2>2 DEF LabTyped
    <3> QED BY <2>2, <2>7, <3>1, <3>2 DEF LabTyped, Passed, Experiments
  <2>9. ASSUME ~atOnce
        PROVE  exp' = n /\ \A o \in LabRequests : pending'[o] = None
    <3>1. r = exp /\ \A o \in LabRequests \ {q} : pending[o] = None
      BY <2>1, <2>3, <2>9 DEF AloneReadsTrue
    <3>2. exp' = n
      BY <2>4, <2>6, <3>1 DEF Experiments
    <3> QED BY <2>2, <3>1, <3>2
  <2>10. AloneReadsTrue'
    BY <2>1, <2>9 DEF AloneReadsTrue
  <2>11. ~atOnce' => EarnedBy(exp)'
    <3> SUFFICES ASSUME ~atOnce PROVE EarnedBy(exp')
      BY <2>1 DEF EarnedBy, Lab!Clears
    <3>1. r = exp
      BY <2>1, <2>3 DEF AloneReadsTrue
    <3> QED BY <2>3, <2>4, <2>9, <3>1, PatchesAreEarned
  <2> QED BY <2>8, <2>10, <2>11
<1>3. ASSUME NEW q \in LabRequests, Lab!Fail(q) PROVE LabInv'
  <2>1. /\ pending' = [pending EXCEPT ![q] = None] /\ UNCHANGED <<exp, atOnce>>
    BY <1>3 DEF Lab!Fail
  <2>2. /\ pending'[q] = None /\ DOMAIN pending' = LabRequests
        /\ \A o \in LabRequests \ {q} : pending'[o] = pending[o]
    BY <2>1 DEF LabTyped
  <2>3. LabTyped'
    BY <2>1, <2>2 DEF LabTyped, Passed, Experiments
  <2>4. AloneReadsTrue'
    BY <2>1, <2>2 DEF AloneReadsTrue
  <2>5. ~atOnce' => EarnedBy(exp)'
    BY <2>1 DEF EarnedBy, Lab!Clears
  <2> QED BY <2>3, <2>4, <2>5
<1>4. CASE UNCHANGED labVars
  <2>1. UNCHANGED <<exp, pending, atOnce>>
    BY <1>4 DEF labVars
  <2>2. LabTyped'
    BY <2>1 DEF LabTyped, Passed, Experiments
  <2>3. AloneReadsTrue'
    BY <2>1 DEF AloneReadsTrue
  <2>4. ~atOnce' => EarnedBy(exp)'
    BY <2>1 DEF EarnedBy, Lab!Clears
  <2> QED BY <2>2, <2>3, <2>4
<1> QED BY <1>1, <1>2, <1>3, <1>4 DEF Lab!Next

LEMMA LabHolds == LabInv => Lab!UnearnedTakesARace
BY DEF LabInv, EarnedBy, Lab!UnearnedTakesARace, Lab!Earned

-----------------------------------------------------------------------------
(* StrategyHealth.  A trade that closes leaves the measured record as it   *)
(* is or adds to its end, so no losing streak in it is ever shortened.     *)

\* What Measured keeps of the first trades.
KeptRule(s, k, i) ==
  IF i = 0 THEN <<>> ELSE IF s[i] = None THEN k[i - 1] ELSE Append(k[i - 1], s[i])
Kept(s) == CHOOSE k : k = [i \in 0 .. Len(s) |-> KeptRule(s, k, i)]

LEMMA MeasuredIsKept == \A s : Health!Measured(s) = Kept(s)[Len(s)]
  BY DEF Health!Measured, Kept, KeptRule

LEMMA KeptExists ==
  ASSUME NEW s \in Seq(Pnls \cup {None})
  PROVE  /\ Kept(s)[0] = <<>>
         /\ \A i \in 1 .. Len(s) :
              Kept(s)[i] = IF s[i] = None THEN Kept(s)[i - 1] ELSE Append(Kept(s)[i - 1], s[i])
         /\ \A i \in 0 .. Len(s) : Kept(s)[i] \in Seq(Pnls)
<1> DEFINE n == Len(s)
           upTo(m) == {i \in Nat : i <= m /\ i <= n}
           Q == {m \in Nat : \E k \in [upTo(m) -> Seq(Pnls)] :
                               \A i \in upTo(m) : k[i] = KeptRule(s, k, i)}
<1>1. n \in Nat /\ \A i \in 1 .. n : s[i] \in Pnls \cup {None}
  OBVIOUS
<1>2. 0 \in Q
  <2> DEFINE h == [i \in {0} |-> <<>>]
  <2>1. upTo(0) = {0}
    BY <1>1
  <2>2. h \in [{0} -> Seq(Pnls)] /\ h[0] = KeptRule(s, h, 0)
    BY DEF KeptRule
  <2> HIDE DEF h
  <2>3. h \in [upTo(0) -> Seq(Pnls)] /\ \A i \in upTo(0) : h[i] = KeptRule(s, h, i)
    BY <2>1, <2>2
  <2> HIDE DEF upTo
  <2> QED BY <2>3
<1>3. \A m \in Q : m + 1 \in Q
  <2> SUFFICES ASSUME NEW m \in Q PROVE m + 1 \in Q
    OBVIOUS
  <2>1. PICK g \in [upTo(m) -> Seq(Pnls)] : \A i \in upTo(m) : g[i] = KeptRule(s, g, i)
    OBVIOUS
  <2> DEFINE h == [i \in upTo(m + 1) |-> IF i <= m THEN g[i] ELSE KeptRule(s, g, i)]
  <2>2. m \in Nat
    OBVIOUS
  <2>3. \A i \in upTo(m) : i \in upTo(m + 1) /\ h[i] = g[i]
    BY <2>2
  <2>4. ASSUME NEW i \in upTo(m + 1)
        PROVE  h[i] = KeptRule(s, h, i) /\ h[i] \in Seq(Pnls)
    <3>1. CASE i = 0
      <4>1. i \in upTo(m) /\ h[i] = g[i]
        BY <1>1, <2>2, <3>1
      <4> QED BY <2>1, <3>1, <4>1 DEF KeptRule
    <3>2. CASE i # 0
      <4>1. i - 1 \in upTo(m) /\ i \in 1 .. n
        BY <1>1, <2>2, <3>2
      <4>2. h[i - 1] = g[i - 1] /\ g[i - 1] \in Seq(Pnls)
        BY <2>1, <2>3, <4>1
      <4>3. KeptRule(s, h, i) = KeptRule(s, g, i)
        BY <3>2, <4>2 DEF KeptRule
      <4>4. h[i] = KeptRule(s, g, i)
        <5>1. CASE i <= m
          <6>1. i \in upTo(m)
            BY <5>1
          <6> QED BY <2>1, <2>3, <6>1
        <5>2. CASE ~(i <= m)
          BY <5>2
        <5> QED BY <5>1, <5>2
      <4>5. KeptRule(s, g, i) \in Seq(Pnls)
        <5>1. s[i] # None => s[i] \in Pnls
          BY <1>1, <4>1
        <5> QED BY <3>2, <4>2, <5>1 DEF KeptRule
      <4> QED BY <4>3, <4>4, <4>5
    <3> QED BY <3>1, <3>2
  <2>5. h \in [upTo(m + 1) -> Seq(Pnls)]
    <3>1. \A i \in upTo(m + 1) : h[i] \in Seq(Pnls)
      BY <2>4
    <3> QED BY <3>1
  <2> HIDE DEF h, upTo
  <2> QED BY <2>2, <2>4, <2>5
<1>4. n \in Q
  <2>1. Q \in SUBSET Nat
    OBVIOUS
  <2> HIDE DEF Q
  <2> QED BY <1>1, <1>2, <1>3, <2>1, NatBySet
<1>5. PICK k \in [upTo(n) -> Seq(Pnls)] : \A i \in upTo(n) : k[i] = KeptRule(s, k, i)
  BY <1>4
<1>6. upTo(n) = 0 .. n
  BY <1>1
<1>7. k = [i \in 0 .. n |-> KeptRule(s, k, i)]
  <2> HIDE DEF upTo, n
  <2> QED BY <1>5, <1>6
<1> DEFINE t == Kept(s)
<1>8. t = [i \in 0 .. n |-> KeptRule(s, t, i)]
  BY <1>7 DEF Kept
<1>9. \A i \in 0 .. n : t[i] = KeptRule(s, t, i)
  <2> HIDE DEF t, n
  <2> QED BY <1>8
<1> HIDE DEF t, upTo, Q
<1>10. t[0] = <<>> /\ \A i \in 1 .. n : t[i] = IF s[i] = None THEN t[i - 1] ELSE Append(t[i - 1], s[i])
  BY <1>1, <1>9 DEF KeptRule
<1> DEFINE good == {i \in Nat : i <= n => t[i] \in Seq(Pnls)}
<1>11. 0 \in good
  <2>1. <<>> \in Seq(Pnls)
    OBVIOUS
  <2>2. t[0] \in Seq(Pnls)
    BY <1>10, <2>1
  <2> QED BY <2>2
<1>12. \A i \in good : i + 1 \in good
  <2> SUFFICES ASSUME NEW i \in good, i + 1 <= n PROVE t[i + 1] \in Seq(Pnls)
    OBVIOUS
  <2>1. i + 1 \in 1 .. n /\ (i + 1) - 1 = i /\ t[i] \in Seq(Pnls)
    BY <1>1
  <2>2. t[i + 1] = IF s[i + 1] = None THEN t[i] ELSE Append(t[i], s[i + 1])
    BY <1>10, <2>1
  <2>3. s[i + 1] # None => s[i + 1] \in Pnls
    BY <1>1, <2>1
  <2> QED BY <2>1, <2>2, <2>3
<1>13. \A i \in Nat : i \in good
  <2>1. good \in SUBSET Nat
    OBVIOUS
  <2> HIDE DEF good
  <2> QED BY <1>11, <1>12, <2>1, NatBySet
<1> QED BY <1>1, <1>10, <1>13 DEF t

\* What is kept of the first trades depends on nothing else.
LEMMA KeptOfPrefix ==
  ASSUME NEW s \in Seq(Pnls \cup {None}), NEW t \in Seq(Pnls \cup {None}), NEW m \in Nat,
         m <= Len(s), m <= Len(t), \A i \in 1 .. m : s[i] = t[i]
  PROVE  \A i \in 0 .. m : Kept(s)[i] = Kept(t)[i]
<1> DEFINE good == {i \in Nat : i <= m => Kept(s)[i] = Kept(t)[i]}
<1>1. 0 \in good
  BY KeptExists
<1>2. \A i \in good : i + 1 \in good
  <2> SUFFICES ASSUME NEW i \in good, i + 1 <= m PROVE Kept(s)[i + 1] = Kept(t)[i + 1]
    OBVIOUS
  <2>1. /\ i + 1 \in 1 .. m /\ i + 1 \in 1 .. Len(s) /\ i + 1 \in 1 .. Len(t)
        /\ (i + 1) - 1 = i /\ Kept(s)[i] = Kept(t)[i]
    OBVIOUS
  <2>2. Kept(s)[i + 1] = IF s[i + 1] = None THEN Kept(s)[i] ELSE Append(Kept(s)[i], s[i + 1])
    BY <2>1, KeptExists
  <2>3. Kept(t)[i + 1] = IF t[i + 1] = None THEN Kept(t)[i] ELSE Append(Kept(t)[i], t[i + 1])
    BY <2>1, KeptExists
  <2> QED BY <2>1, <2>2, <2>3
<1>3. \A i \in Nat : i \in good
  <2>1. good \in SUBSET Nat
    OBVIOUS
  <2> HIDE DEF good
  <2> QED BY <1>1, <1>2, <2>1, NatBySet
<1> QED BY <1>3

LEMMA MeasuredOfAppend ==
  ASSUME NEW s \in Seq(Pnls \cup {None}), NEW x \in Pnls \cup {None}
  PROVE  /\ Health!Measured(s) \in Seq(Pnls)
         /\ Health!Measured(Append(s, x)) =
              IF x = None THEN Health!Measured(s) ELSE Append(Health!Measured(s), x)
<1> DEFINE t == Append(s, x)
           n == Len(s)
<1>1. /\ t \in Seq(Pnls \cup {None}) /\ Len(t) = n + 1 /\ n \in Nat
      /\ \A i \in 1 .. n : s[i] = t[i]
      /\ t[n + 1] = x
  OBVIOUS
<1>2. Kept(s)[n] = Kept(t)[n]
  <2> HIDE DEF t, n
  <2>1. \A i \in 0 .. n : Kept(s)[i] = Kept(t)[i]
    <3>1. n <= Len(s) /\ n <= Len(t)
      BY <1>1 DEF n
    <3> QED BY <1>1, <3>1, KeptOfPrefix
  <2> QED BY <1>1, <2>1
<1>3. Kept(t)[n + 1] = IF x = None THEN Kept(t)[n] ELSE Append(Kept(t)[n], x)
  <2>1. n + 1 \in 1 .. Len(t) /\ (n + 1) - 1 = n
    BY <1>1
  <2> HIDE DEF t, n
  <2> QED BY <1>1, <2>1, KeptExists
<1>4. Kept(s)[n] \in Seq(Pnls)
  BY <1>1, KeptExists
<1> QED BY <1>1, <1>2, <1>3, <1>4, MeasuredIsKept

LEMMA MeasuredWithoutUnmeasured ==
  ASSUME NEW s \in Seq(Pnls \cup {None}), NEW d \in 1 .. Len(s), s[d] = None
  PROVE  Health!Measured(Health!RemoveAt(s, d)) = Health!Measured(s)
<1> DEFINE t == Health!RemoveAt(s, d)
           n == Len(s)
<1>1. /\ t \in Seq(Pnls \cup {None}) /\ n \in Nat /\ d \in Nat /\ 1 <= d /\ d <= n
      /\ Len(t) = n - 1
      /\ \A i \in 1 .. n - 1 : t[i] = IF i < d THEN s[i] ELSE s[i + 1]
  <2> DEFINE a == SubSeq(s, 1, d - 1)
             b == SubSeq(s, d + 1, Len(s))
  <2>1. n \in Nat /\ d \in Nat /\ 1 <= d /\ d <= n
    OBVIOUS
  <2>2. /\ a \in Seq(Pnls \cup {None}) /\ Len(a) = d - 1
        /\ \A i \in 1 .. d - 1 : a[i] = s[i]
    BY <2>1
  <2>3. /\ b \in Seq(Pnls \cup {None}) /\ Len(b) = n - d
        /\ \A i \in 1 .. n - d : b[i] = s[d + i]
    BY <2>1
  <2>4. t = a \o b
    BY DEF Health!RemoveAt
  <2> HIDE DEF a, b, t
  <2>5. t \in Seq(Pnls \cup {None}) /\ Len(t) = n - 1
    BY <2>1, <2>2, <2>3, <2>4
  <2>6. ASSUME NEW i \in 1 .. n - 1 PROVE t[i] = IF i < d THEN s[i] ELSE s[i + 1]
    <3>1. CASE i < d
      BY <2>1, <2>2, <2>3, <2>4, <3>1
    <3>2. CASE ~(i < d)
      <4>1. i - (d - 1) \in 1 .. n - d /\ d + (i - (d - 1)) = i + 1
        BY <2>1, <3>2
      <4>2. t[i] = b[i - (d - 1)]
        BY <2>1, <2>2, <2>3, <2>4, <3>2
      <4> QED BY <2>3, <3>2, <4>1, <4>2
    <3> QED BY <3>1, <3>2
  <2> QED BY <2>1, <2>5, <2>6
<1> HIDE DEF t
<1> DEFINE good == {i \in Nat : d + i <= n => Kept(t)[d + i - 1] = Kept(s)[d + i]}
<1>2. 0 \in good
  <2>1. d - 1 \in Nat /\ d - 1 <= Len(s) /\ d - 1 <= Len(t)
    BY <1>1
  <2>2. \A i \in 1 .. d - 1 : s[i] = t[i]
    BY <1>1
  <2>3. \A i \in 0 .. d - 1 : Kept(s)[i] = Kept(t)[i]
    BY <1>1, <2>1, <2>2, KeptOfPrefix
  <2>4. Kept(s)[d - 1] = Kept(t)[d - 1]
    BY <2>1, <2>3
  <2>5. Kept(s)[d] = Kept(s)[d - 1]
    BY KeptExists
  <2> QED BY <1>1, <2>4, <2>5
<1>3. \A i \in good : i + 1 \in good
  <2> SUFFICES ASSUME NEW i \in good, d + (i + 1) <= n
               PROVE  Kept(t)[d + (i + 1) - 1] = Kept(s)[d + (i + 1)]
    OBVIOUS
  <2>1. PICK j \in Nat : j = d + i
    BY <1>1
  <2>2. Kept(t)[j - 1] = Kept(s)[j]
    BY <1>1, <2>1
  <2>3. j \in 1 .. Len(t) /\ j + 1 \in 1 .. Len(s) /\ (j + 1) - 1 = j /\ t[j] = s[j + 1]
    BY <1>1, <2>1
  <2>4. Kept(t)[j] = IF t[j] = None THEN Kept(t)[j - 1] ELSE Append(Kept(t)[j - 1], t[j])
    BY <1>1, <2>3, KeptExists
  <2>5. Kept(s)[j + 1] = IF s[j + 1] = None THEN Kept(s)[j] ELSE Append(Kept(s)[j], s[j + 1])
    BY <2>3, KeptExists
  <2>6. Kept(t)[j] = Kept(s)[j + 1]
    BY <2>2, <2>3, <2>4, <2>5
  <2>7. d + (i + 1) - 1 = j /\ d + (i + 1) = j + 1
    BY <1>1, <2>1
  <2> QED BY <2>6, <2>7
<1>4. \A i \in Nat : i \in good
  <2>1. good \in SUBSET Nat
    OBVIOUS
  <2> HIDE DEF good
  <2> QED BY <1>2, <1>3, <2>1, NatBySet
<1>5. Kept(t)[d + (n - d) - 1] = Kept(s)[d + (n - d)]
  <2>1. n - d \in Nat /\ d + (n - d) <= n
    BY <1>1
  <2>2. n - d \in good
    BY <1>4, <2>1
  <2> QED BY <2>1, <2>2
<1>6. Kept(t)[n - 1] = Kept(s)[n]
  <2>1. d + (n - d) - 1 = n - 1 /\ d + (n - d) = n
    BY <1>1
  <2> QED BY <1>5, <2>1
<1> QED BY <1>1, <1>6, MeasuredIsKept DEF t

\* A bounded set of numbers has a greatest one.
LEMMA MaxOfBounded ==
  ASSUME NEW H \in SUBSET Nat, H # {}, NEW b \in Nat, \A y \in H : y <= b
  PROVE  Health!Max(H) \in H /\ \A y \in H : y <= Health!Max(H)
<1> DEFINE bounds == {u \in Nat : \A y \in H : y <= u}
           least == CHOOSE x \in bounds : \A y \in bounds : x <= y
<1>1. bounds \in SUBSET Nat /\ b \in bounds
  OBVIOUS
<1>2. least \in bounds /\ \A y \in bounds : least <= y
  <2> HIDE DEF bounds
  <2> QED BY <1>1, LeastOfSet
<1> HIDE DEF least
<1>3. least \in H
  <2> SUFFICES ASSUME least \notin H PROVE FALSE
    OBVIOUS
  <2>1. PICK y \in H : TRUE
    OBVIOUS
  <2>2. \A z \in H : z < least
    BY <1>2
  <2>3. least - 1 \in bounds
    BY <1>2, <2>1, <2>2
  <2> QED BY <1>2, <2>3
<1>4. \E x \in H : \A y \in H : x >= y
  BY <1>2, <1>3
<1>5. Health!Max(H) \in H /\ \A y \in H : Health!Max(H) >= y
  BY <1>4, Zenon DEF Health!Max
<1> QED BY <1>5

Runs(p) ==
  {x \in (1 .. Len(p)) \X (1 .. Len(p)) : x[1] <= x[2] /\ \A k \in x[1] .. x[2] : p[k] < 0}
Streaks(p) == {0} \cup {run[2] - run[1] + 1 : run \in Runs(p)}

LEMMA StreaksAreBounded ==
  ASSUME NEW p \in Seq(Pnls)
  PROVE  /\ Health!LosingStreak(p) \in Streaks(p) /\ Health!LosingStreak(p) \in Nat
         /\ \A y \in Streaks(p) : y \in Nat /\ y <= Health!LosingStreak(p)
<1>1. Len(p) \in Nat
  OBVIOUS
<1>2. \A run \in Runs(p) : /\ run[1] \in 1 .. Len(p) /\ run[2] \in 1 .. Len(p)
                           /\ run[1] <= run[2]
  BY DEF Runs
<1>3. \A y \in Streaks(p) : y \in Nat /\ y <= Len(p)
  BY <1>1, <1>2 DEF Streaks
<1>4. Streaks(p) # {} /\ Streaks(p) \in SUBSET Nat
  BY <1>3 DEF Streaks
<1>5. Health!LosingStreak(p) = Health!Max(Streaks(p))
  BY DEF Health!LosingStreak, Streaks, Runs
<1> QED BY <1>1, <1>3, <1>4, <1>5, MaxOfBounded

\* A trade that is added leaves every losing streak where it was.
LEMMA StreaksStay ==
  ASSUME NEW p \in Seq(Pnls), NEW x \in Pnls
  PROVE  Health!LosingStreak(p) <= Health!LosingStreak(Append(p, x))
<1> DEFINE r == Append(p, x)
<1>1. /\ r \in Seq(Pnls) /\ Len(r) = Len(p) + 1 /\ Len(p) \in Nat
      /\ \A k \in 1 .. Len(p) : r[k] = p[k]
  OBVIOUS
<1> HIDE DEF r
<1>2. \A run \in Runs(p) : run \in Runs(r)
  <2> SUFFICES ASSUME NEW run \in Runs(p) PROVE run \in Runs(r)
    OBVIOUS
  <2>1. /\ run \in (1 .. Len(p)) \X (1 .. Len(p)) /\ run[1] <= run[2]
        /\ \A k \in run[1] .. run[2] : p[k] < 0
    BY DEF Runs
  <2>2. run \in (1 .. Len(r)) \X (1 .. Len(r))
    BY <1>1, <2>1
  <2>3. \A k \in run[1] .. run[2] : r[k] < 0
    BY <1>1, <2>1
  <2> QED BY <2>1, <2>2, <2>3 DEF Runs
<1>3. Streaks(p) \subseteq Streaks(r)
  BY <1>2 DEF Streaks
<1>4. Health!LosingStreak(p) \in Streaks(r)
  BY <1>3, StreaksAreBounded
<1> QED BY <1>1, <1>4, StreaksAreBounded DEF r

\* What the gate has refused for, the record shows for good.
HealthInv ==
  /\ closed \in Seq(Pnls \cup {None})
  /\ streakStop =>
       /\ Len(Health!Measured(closed)) >= MinSample
       /\ Health!LosingStreak(Health!Measured(closed)) >= Baseline.streak

LEMMA HealthStarts == Health!Init => HealthInv
<1> SUFFICES ASSUME Health!Init PROVE HealthInv
  OBVIOUS
<1>1. closed = <<>> /\ streakStop = FALSE
  BY DEF Health!Init
<1>2. <<>> \in Seq(Pnls \cup {None})
  OBVIOUS
<1> QED BY <1>1, <1>2 DEF HealthInv

\* A trade that closes takes nothing from what a refusal rests on.
LEMMA RefusalStands ==
  ASSUME NEW s \in Seq(Pnls \cup {None}), NEW x \in Pnls \cup {None},
         Len(Health!Measured(s)) >= MinSample,
         Health!LosingStreak(Health!Measured(s)) >= Baseline.streak
  PROVE  /\ Len(Health!Measured(Append(s, x))) >= MinSample
         /\ Health!LosingStreak(Health!Measured(Append(s, x))) >= Baseline.streak
<1> DEFINE p == Health!Measured(s)
           r == Health!Measured(Append(s, x))
<1>1. p \in Seq(Pnls) /\ r = IF x = None THEN p ELSE Append(p, x)
  BY MeasuredOfAppend
<1>2. MinSample \in Int /\ Baseline.streak \in Int
  BY HealthAssumption DEF Health!HealthConstants
<1>3. CASE x = None
  BY <1>1, <1>3
<1>4. CASE x # None
  <2>1. x \in Pnls /\ r = Append(p, x)
    BY <1>1, <1>4
  <2> HIDE DEF p, r
  <2>2. Len(r) = Len(p) + 1 /\ Len(p) \in Nat
    BY <1>1, <2>1
  <2>3. Health!LosingStreak(p) <= Health!LosingStreak(r)
    BY <1>1, <2>1, StreaksStay
  <2>4. r \in Seq(Pnls)
    BY <1>1, <2>1
  <2>5. Health!LosingStreak(p) \in Nat /\ Health!LosingStreak(r) \in Nat
    BY <1>1, <2>4, StreaksAreBounded
  <2>6. Len(p) >= MinSample /\ Health!LosingStreak(p) >= Baseline.streak
    BY DEF p
  <2>7. Len(r) >= MinSample
    BY <1>2, <2>2, <2>6
  <2>8. Health!LosingStreak(r) >= Baseline.streak
    BY <1>2, <2>3, <2>5, <2>6
  <2> QED BY <2>7, <2>8 DEF r
<1> QED BY <1>3, <1>4

LEMMA HealthKept == HealthInv /\ [Health!Next]_healthVars => HealthInv'
<1> SUFFICES ASSUME HealthInv, [Health!Next]_healthVars PROVE HealthInv'
  OBVIOUS
<1>1. /\ closed \in Seq(Pnls \cup {None})
      /\ streakStop => /\ Len(Health!Measured(closed)) >= MinSample
                       /\ Health!LosingStreak(Health!Measured(closed)) >= Baseline.streak
  BY DEF HealthInv
<1>2. CASE Health!Ask
  <2>1. /\ closed' = closed
        /\ Health!GateGrade = "degraded"
        /\ streakStop' = (streakStop \/ Health!LosingStreak(Health!Measured(closed)) >= Baseline.streak)
    BY <1>2 DEF Health!Ask
  <2>2. ~ (Len(Health!Measured(closed)) < MinSample)
    BY <2>1 DEF Health!GateGrade, Health!Grade
  <2>3. Len(Health!Measured(closed)) \in Int /\ MinSample \in Int
    <3>1. Health!Measured(closed) \in Seq(Pnls)
      BY <1>1, KeptExists, MeasuredIsKept
    <3> QED BY <3>1, HealthAssumption DEF Health!HealthConstants
  <2>4. Len(Health!Measured(closed)) >= MinSample
    BY <2>2, <2>3
  <2>5. streakStop' => Health!LosingStreak(Health!Measured(closed)) >= Baseline.streak
    BY <1>1, <2>1, Zenon
  <2> QED BY <1>1, <2>1, <2>4, <2>5, Zenon DEF HealthInv
<1>3. CASE Health!Close
  <2>1. PICK x \in Pnls \cup {None} : closed' = Append(closed, x)
    BY <1>3 DEF Health!Close
  <2>2. streakStop' = streakStop
    BY <1>3 DEF Health!Close
  <2>3. closed' \in Seq(Pnls \cup {None})
    BY <1>1, <2>1
  <2>4. streakStop => /\ Len(Health!Measured(Append(closed, x))) >= MinSample
                      /\ Health!LosingStreak(Health!Measured(Append(closed, x))) >= Baseline.streak
    BY <1>1, <2>1, RefusalStands, Zenon
  <2> QED BY <2>1, <2>2, <2>3, <2>4, Zenon DEF HealthInv
<1>4. CASE Health!Promote \/ Health!Turn \/ UNCHANGED healthVars
  <2>1. closed' = closed /\ streakStop' = streakStop
    BY <1>4 DEF Health!Promote, Health!Turn, healthVars
  <2> QED BY <1>1, <2>1, Zenon DEF HealthInv
<1> QED BY <1>2, <1>3, <1>4 DEF Health!Next

LEMMA HealthHolds == HealthInv => Health!HealthHolds
<1> SUFFICES ASSUME HealthInv PROVE Health!HealthHolds
  OBVIOUS
<1> DEFINE p == Health!Measured(closed)
<1>1. closed \in Seq(Pnls \cup {None})
  BY DEF HealthInv
<1>2. streakStop => Len(p) >= MinSample /\ Health!LosingStreak(p) >= Baseline.streak
  BY Zenon DEF HealthInv
<1>3. Len(p) \in Int /\ MinSample \in Int
  <2>1. p \in Seq(Pnls)
    BY <1>1, KeptExists, MeasuredIsKept
  <2> QED BY <2>1, HealthAssumption DEF Health!HealthConstants
<1>4. Health!StreakStopIsForGood
  <2> SUFFICES ASSUME streakStop PROVE Health!GateGrade = "degraded"
    BY Zenon DEF Health!StreakStopIsForGood
  <2>1. Len(p) >= MinSample
    BY <1>2, Zenon
  <2>2. ~ (Len(p) < MinSample)
    BY <1>3, <2>1
  <2>3. Health!Broken(p, Baseline)
    BY <1>2, Zenon DEF Health!Broken
  <2> QED BY <2>2, <2>3, Zenon DEF Health!GateGrade, Health!Grade
<1>5. Health!PageErrsByPromotion
  <2> SUFFICES ASSUME Health!Active(Health!PageGrade), Health!GateGrade = "degraded"
               PROVE  promoted # None /\ ~ Health!Broken(p, promoted)
    BY Zenon DEF Health!PageErrsByPromotion
  <2>1. Health!PageGrade # "degraded"
    BY DEF Health!Active
  <2>2. promoted # None
    BY <2>1 DEF Health!PageGrade, Health!GateGrade
  <2>3. Health!PageGrade = Health!Grade(closed, promoted)
    BY <2>2 DEF Health!PageGrade
  <2>4. ~ (Len(p) < MinSample)
    BY Zenon DEF Health!GateGrade, Health!Grade
  <2>5. ~ Health!Broken(p, promoted)
    BY <2>1, <2>3, <2>4, Zenon DEF Health!Grade
  <2> QED BY <2>2, <2>5
<1>6. Health!UnmeasuredIsNeutral
  <2> SUFFICES ASSUME NEW i \in 1 .. Len(closed), closed[i] = None
               PROVE  Health!Grade(Health!RemoveAt(closed, i), Baseline) = Health!GateGrade
    BY DEF Health!UnmeasuredIsNeutral
  <2>1. Health!Measured(Health!RemoveAt(closed, i)) = Health!Measured(closed)
    BY <1>1, MeasuredWithoutUnmeasured
  <2> QED BY <2>1, Zenon DEF Health!GateGrade, Health!Grade
<1> QED BY <1>4, <1>5, <1>6 DEF Health!HealthHolds

-----------------------------------------------------------------------------
(* Allocation.  A round takes from those over the cap what they have too   *)
(* much and hands all of it to those under it, and whoever was at the cap  *)
(* stays there: the rounds come to an end before they run out.             *)

LEMMA SharesAreSummed == \A f : Shares!Sum(f) = SumFunctionOnSet(f, DOMAIN f)
  BY DEF Shares!Sum, Shares!SumFunction, Shares!SumFunctionOnSet, Shares!FoldFunctionOnSet,
         Shares!MapThenFoldSet, SumFunctionOnSet, FoldFunctionOnSet, MapThenFoldSet

LEMMA SharesAreCounted ==
  /\ IsFiniteSet(Names) /\ Scores \subseteq Nat /\ CapNum \in Nat
  /\ CapDen \in Nat /\ CapDen > 0
  /\ \A D : Shares!Cardinality(D) = Cardinality(D)
<1>1. \A D : Shares!IsFiniteSet(D) <=> IsFiniteSet(D)
  BY DEF Shares!IsFiniteSet, IsFiniteSet
<1>2. \A D : Shares!Cardinality(D) = Cardinality(D)
  BY DEF Shares!Cardinality, Cardinality
<1> QED BY <1>1, <1>2, SharesAssumption DEF Shares!CapConstants

LEMMA SumsAreNat ==
  ASSUME NEW X, IsFiniteSet(X), NEW f, \A x \in X : f[x] \in Nat
  PROVE  SumFunctionOnSet(f, X) \in Nat
<1>1. SumFunctionOnSet(f, {}) = 0 /\ SumFunctionOnSet(f, X) \in Int
  BY SumsOfParts
<1>2. SumFunctionOnSet(f, {}) <= SumFunctionOnSet(f, X)
  BY PartsSumToLess
<1> QED BY <1>1, <1>2

\* Weights that add up, or fall short only with everybody at the cap.
Weighed(w) ==
  /\ DOMAIN w.num \in SUBSET Names /\ w.den \in Nat /\ w.den > 0
  /\ \A n \in DOMAIN w.num : w.num[n] \in Nat
  /\ Shares!Sum(w.num) <= w.den
  /\ Shares!Sum(w.num) < w.den =>
       /\ Shares!Over(w) = {}
       /\ \A n \in DOMAIN w.num : w.num[n] = 0 \/ n \notin Shares!Under(w)

\* Those at the cap or over it.
AtCap(w) == DOMAIN w.num \ Shares!Under(w)

LEMMA Products ==
  ASSUME NEW a \in Nat, NEW b \in Nat
  PROVE  a * b \in Nat /\ a * b = b * a
  OBVIOUS

LEMMA ProductsOrder ==
  ASSUME NEW a \in Nat, NEW b \in Nat, NEW c \in Nat, a > 0
  PROVE  /\ b < c => b * a < c * a
         /\ b <= c => b * a <= c * a
  OBVIOUS

LEMMA ProductsPositive ==
  ASSUME NEW a \in Nat, NEW b \in Nat, a > 0, b > 0
  PROVE  a * b > 0
  OBVIOUS

\* What a round cuts off, what it leaves and where it goes.
CutTo(w) ==
  [n \in DOMAIN w.num |-> IF n \in Shares!Over(w) THEN CapNum * w.den ELSE w.num[n] * CapDen]
Excess(w) ==
  Shares!Sum([n \in Shares!Over(w) |-> w.num[n] * CapDen - CapNum * w.den])
Room(w) == Shares!Sum([n \in Shares!Under(w) |-> CutTo(w)[n]])

LEMMA RefillIs ==
  \A w : Shares!Refill(w) =
    IF Room(w) = 0 THEN [num |-> CutTo(w), den |-> w.den * CapDen]
    ELSE [num |-> [n \in DOMAIN CutTo(w) |->
                     IF n \in Shares!Under(w) THEN CutTo(w)[n] * Room(w) + Excess(w) * CutTo(w)[n]
                     ELSE CutTo(w)[n] * Room(w)],
          den |-> w.den * CapDen * Room(w)]
  BY DEF Shares!Refill, CutTo, Excess, Room

LEMMA CutsAreExact ==
  ASSUME NEW w, Weighed(w)
  PROVE  /\ DOMAIN CutTo(w) = DOMAIN w.num /\ IsFiniteSet(DOMAIN w.num)
         /\ Shares!Over(w) \in SUBSET DOMAIN w.num /\ Shares!Under(w) \in SUBSET DOMAIN w.num
         /\ \A n \in DOMAIN w.num : CutTo(w)[n] \in Nat
         /\ \A n \in AtCap(w) : CutTo(w)[n] = CapNum * w.den
         /\ \A n \in Shares!Under(w) : CutTo(w)[n] < CapNum * w.den
         /\ Excess(w) \in Nat /\ Room(w) \in Nat
         /\ Room(w) = SumFunctionOnSet(CutTo(w), Shares!Under(w))
         /\ SumFunctionOnSet(CutTo(w), DOMAIN w.num) = CapDen * Shares!Sum(w.num) - Excess(w)
<1> DEFINE D == DOMAIN w.num
           o == Shares!Over(w)
           u == Shares!Under(w)
           cut == CutTo(w)
           top == CapNum * w.den
           more == [n \in o |-> w.num[n] * CapDen - top]
           off == [n \in D |-> IF n \in o THEN w.num[n] * CapDen - top ELSE 0]
           left == [n \in u |-> cut[n]]
<1>1. /\ D \in SUBSET Names /\ w.den \in Nat /\ \A n \in D : w.num[n] \in Nat
      /\ CapNum \in Nat /\ CapDen \in Nat /\ IsFiniteSet(D)
  <2>1. D \in SUBSET Names /\ w.den \in Nat /\ \A n \in D : w.num[n] \in Nat
    BY DEF Weighed
  <2> HIDE DEF D
  <2> QED BY <2>1, SharesAreCounted, FS_Subset
<1>2. /\ o \in SUBSET D /\ u \in SUBSET D
      /\ \A n \in D : n \in o <=> w.num[n] * CapDen > top
      /\ \A n \in D : n \in u <=> w.num[n] * CapDen < top
  BY DEF Shares!Over, Shares!Under
<1>3. DOMAIN cut = D /\ \A n \in D : cut[n] = IF n \in o THEN top ELSE w.num[n] * CapDen
  BY DEF CutTo
<1>4. /\ DOMAIN more = o /\ \A n \in o : more[n] = w.num[n] * CapDen - top
      /\ DOMAIN off = D /\ \A n \in D : off[n] = IF n \in o THEN w.num[n] * CapDen - top ELSE 0
      /\ DOMAIN left = u /\ \A n \in u : left[n] = cut[n]
  OBVIOUS
<1>5. Excess(w) = SumFunctionOnSet(more, o) /\ Room(w) = SumFunctionOnSet(left, u)
  <2>1. Excess(w) = Shares!Sum(more) /\ Room(w) = Shares!Sum(left)
    BY DEF Excess, Room
  <2> HIDE DEF more, left, o, u
  <2> QED BY <1>4, <2>1, SharesAreSummed
<1>6. Shares!Sum(w.num) = SumFunctionOnSet(w.num, D)
  BY SharesAreSummed
<1>7. top \in Nat /\ \A n \in D : w.num[n] * CapDen \in Nat
  BY <1>1, Products
<1> HIDE DEF D, o, u, cut, top, more, off, left
<1>8. IsFiniteSet(o) /\ IsFiniteSet(u)
  BY <1>1, <1>2, FS_Subset
<1>9. /\ \A n \in D : cut[n] \in Nat
      /\ \A n \in o : more[n] \in Nat
      /\ \A n \in D : off[n] \in Nat
      /\ \A n \in D \ u : cut[n] = top
      /\ \A n \in u : cut[n] < top
  <2>1. \A n \in D : cut[n] \in Nat
    BY <1>3, <1>7
  <2>2. \A n \in o : w.num[n] * CapDen - top \in Nat
    BY <1>2, <1>7
  <2>3. (\A n \in o : more[n] \in Nat) /\ \A n \in D : off[n] \in Nat
    BY <1>4, <2>2
  <2>4. ASSUME NEW n \in D \ u PROVE cut[n] = top
    <3>1. ~ (w.num[n] * CapDen < top) /\ n \in D
      BY <1>2
    <3>2. CASE n \in o
      BY <1>3, <3>1, <3>2
    <3>3. CASE n \notin o
      <4>1. ~ (w.num[n] * CapDen > top) /\ cut[n] = w.num[n] * CapDen
        BY <1>2, <1>3, <3>1, <3>3
      <4> QED BY <1>7, <3>1, <4>1
    <3> QED BY <3>2, <3>3
  <2>5. ASSUME NEW n \in u PROVE cut[n] < top
    <3>1. n \in D /\ w.num[n] * CapDen < top /\ w.num[n] * CapDen \in Nat
      BY <1>2, <1>7
    <3>2. n \notin o
      BY <1>2, <1>7, <3>1
    <3> QED BY <1>3, <3>1, <3>2
  <2> QED BY <2>1, <2>3, <2>4, <2>5
<1>10. SumFunctionOnSet(left, u) = SumFunctionOnSet(cut, u)
  <2>1. \A n \in u : cut[n] \in Int /\ left[n] = cut[n]
    BY <1>2, <1>4, <1>9
  <2> QED BY <1>8, <2>1, SumsAgree
<1>11. SumFunctionOnSet(left, u) \in Nat /\ SumFunctionOnSet(more, o) \in Nat
  <2>1. \A n \in u : left[n] \in Nat
    BY <1>2, <1>4, <1>9
  <2> QED BY <1>8, <1>9, <2>1, SumsAreNat
<1>12. SumFunctionOnSet(cut, D) = CapDen * SumFunctionOnSet(w.num, D) - SumFunctionOnSet(off, D)
  <2>1. \A n \in D : w.num[n] \in Int /\ off[n] \in Int /\ CapDen * w.num[n] = w.num[n] * CapDen
    BY <1>1, <1>9
  <2>2. \A n \in D : cut[n] = CapDen * w.num[n] - off[n]
    BY <1>3, <1>4, <1>7, <2>1
  <2>3. CapDen \in Int
    BY <1>1
  <2> QED BY <1>1, <2>1, <2>2, <2>3, SumsAreLinear
<1>13. SumFunctionOnSet(off, D) = SumFunctionOnSet(off, o)
  <2>1. (\A n \in D : off[n] \in Int) /\ \A n \in D \ o : off[n] = 0
    BY <1>4, <1>9
  <2> QED BY <1>1, <1>2, <2>1, SumsOfSupport
<1>14. SumFunctionOnSet(off, o) = SumFunctionOnSet(more, o)
  <2>1. \A n \in o : more[n] \in Int /\ off[n] = more[n]
    BY <1>2, <1>4, <1>9
  <2> QED BY <1>8, <2>1, SumsAgree
<1>15. AtCap(w) = D \ u
  BY DEF AtCap, D, u
<1> QED BY <1>1, <1>2, <1>3, <1>5, <1>6, <1>9, <1>10, <1>11, <1>12, <1>13, <1>14, <1>15
        DEF D, o, u, cut, top

\* A round leaves the weights weighed, and either nobody over the cap or one
\* more at it.
LEMMA RefillWithoutRoom ==
  ASSUME NEW w, Weighed(w), Room(w) = 0
  PROVE  /\ Weighed(Shares!Refill(w)) /\ DOMAIN Shares!Refill(w).num = DOMAIN w.num
         /\ Shares!Over(Shares!Refill(w)) = {}
<1> DEFINE D == DOMAIN w.num
           u == Shares!Under(w)
           cut == CutTo(w)
           top == CapNum * w.den
           r == Shares!Refill(w)
<1>1. /\ DOMAIN cut = D /\ IsFiniteSet(D) /\ u \in SUBSET D /\ D \in SUBSET Names
      /\ \A n \in D : cut[n] \in Nat
      /\ \A n \in D \ u : cut[n] = top
      /\ \A n \in u : cut[n] < top
  <2>1. D \in SUBSET Names
    BY DEF Weighed
  <2> QED BY <2>1, CutsAreExact DEF AtCap
<1>2. r = [num |-> cut, den |-> w.den * CapDen]
  BY RefillIs
<1>3. r.num = cut /\ r.den = w.den * CapDen
  BY <1>2
<1>4. /\ CapNum \in Nat /\ CapDen \in Nat /\ CapDen > 0 /\ w.den \in Nat /\ w.den > 0
      /\ Shares!Sum(w.num) <= w.den /\ Excess(w) \in Nat
      /\ SumFunctionOnSet(cut, D) = CapDen * Shares!Sum(w.num) - Excess(w)
      /\ SumFunctionOnSet(cut, u) = 0
  <2>1. w.den \in Nat /\ w.den > 0 /\ Shares!Sum(w.num) <= w.den
    BY DEF Weighed
  <2>2. /\ Excess(w) \in Nat /\ SumFunctionOnSet(cut, u) = 0
        /\ SumFunctionOnSet(cut, D) = CapDen * Shares!Sum(w.num) - Excess(w)
    BY CutsAreExact
  <2> QED BY <2>1, <2>2, SharesAreCounted
<1>5. Shares!Sum(w.num) \in Nat /\ Shares!Sum(cut) = SumFunctionOnSet(cut, D)
  <2>1. \A n \in D : w.num[n] \in Nat
    BY DEF Weighed
  <2>2. Shares!Sum(w.num) = SumFunctionOnSet(w.num, D)
    BY SharesAreSummed
  <2>3. Shares!Sum(cut) = SumFunctionOnSet(cut, D)
    BY <1>1, SharesAreSummed
  <2> HIDE DEF D, cut
  <2> QED BY <1>1, <2>1, <2>2, <2>3, SumsAreNat
<1>6. top \in Nat /\ w.den * CapDen \in Nat /\ w.den * CapDen > 0 /\ CapNum * (w.den * CapDen) = top * CapDen
  <2>1. top \in Nat /\ w.den * CapDen \in Nat /\ w.den * CapDen > 0
    BY <1>4, Products, ProductsPositive
  <2>2. CapNum * (w.den * CapDen) = top * CapDen
    BY <1>4
  <2> QED BY <2>1, <2>2
<1>7. \A n \in D : cut[n] = 0 \/ n \notin u
  <2> SUFFICES ASSUME NEW n \in u, cut[n] # 0 PROVE FALSE
    OBVIOUS
  <2>1. IsFiniteSet(u) /\ \A x \in u : cut[x] \in Nat
    BY <1>1, FS_Subset
  <2>2. SumFunctionOnSet(cut, u) = cut[n] + SumFunctionOnSet(cut, u \ {n})
    BY <2>1, SumsOfParts
  <2>3. SumFunctionOnSet(cut, u \ {n}) \in Nat
    <3>1. IsFiniteSet(u \ {n}) /\ \A x \in u \ {n} : cut[x] \in Nat
      BY <2>1, FS_Subset
    <3> QED BY <3>1, SumsAreNat
  <2> QED BY <1>4, <2>1, <2>2, <2>3
<1> HIDE DEF D, u, cut, top, r
<1>8. \A n \in D : cut[n] <= top
  BY <1>1, <1>6
<1>9. Shares!Over(r) = {}
  <2> SUFFICES ASSUME NEW n \in D, cut[n] * CapDen > CapNum * (w.den * CapDen) PROVE FALSE
    BY <1>1, <1>3 DEF Shares!Over
  <2>1. cut[n] * CapDen <= top * CapDen
    BY <1>1, <1>4, <1>6, <1>8, ProductsOrder
  <2>2. cut[n] * CapDen \in Nat /\ top * CapDen \in Nat
    BY <1>1, <1>4, <1>6, Products
  <2> QED BY <1>6, <2>1, <2>2
<1>10. \A n \in D : cut[n] = 0 \/ n \notin Shares!Under(r)
  <2> SUFFICES ASSUME NEW n \in D, cut[n] * CapDen < CapNum * (w.den * CapDen) PROVE cut[n] = 0
    BY <1>1, <1>3 DEF Shares!Under
  <2>1. cut[n] # top
    <3>1. top * CapDen \in Nat /\ cut[n] * CapDen < top * CapDen
      BY <1>4, <1>6, Products
    <3> QED BY <3>1
  <2>2. n \in u
    BY <1>1, <2>1
  <2> QED BY <1>7, <2>2
<1>11. Shares!Sum(r.num) <= r.den
  <2>1. Shares!Sum(w.num) * CapDen <= w.den * CapDen
    BY <1>4, <1>5, ProductsOrder
  <2>2. CapDen * Shares!Sum(w.num) = Shares!Sum(w.num) * CapDen /\ CapDen * Shares!Sum(w.num) \in Nat
    BY <1>4, <1>5, Products
  <2> QED BY <1>3, <1>4, <1>5, <1>6, <2>1, <2>2
<1> QED BY <1>1, <1>3, <1>6, <1>9, <1>10, <1>11 DEF Weighed, D, cut, r

LEMMA RefillWithRoom ==
  ASSUME NEW w, Weighed(w), Room(w) # 0, Shares!Over(w) # {}
  PROVE  /\ Weighed(Shares!Refill(w)) /\ DOMAIN Shares!Refill(w).num = DOMAIN w.num
         /\ AtCap(w) \in SUBSET AtCap(Shares!Refill(w))
         /\ AtCap(w) \cap Shares!Over(Shares!Refill(w)) = {}
<1> DEFINE D == DOMAIN w.num
           u == Shares!Under(w)
           cut == CutTo(w)
           top == CapNum * w.den
           rm == Room(w)
           e == Excess(w)
           r == Shares!Refill(w)
           new == [n \in DOMAIN cut |-> IF n \in u THEN cut[n] * rm + e * cut[n] ELSE cut[n] * rm]
           none == [n \in D |-> 0]
           less == [n \in D |-> IF n \in u THEN (-e) * cut[n] ELSE 0]
<1>1. /\ DOMAIN cut = D /\ IsFiniteSet(D) /\ u \in SUBSET D /\ D \in SUBSET Names
      /\ \A n \in D : cut[n] \in Nat
      /\ \A n \in D \ u : cut[n] = top
      /\ e \in Nat /\ rm \in Nat /\ rm > 0
      /\ rm = SumFunctionOnSet(cut, u)
      /\ SumFunctionOnSet(cut, D) = CapDen * Shares!Sum(w.num) - e
  <2>1. D \in SUBSET Names
    BY DEF Weighed
  <2> QED BY <2>1, CutsAreExact DEF AtCap
<1>2. r = [num |-> new, den |-> w.den * CapDen * rm]
  BY RefillIs
<1>3. r.num = new /\ r.den = w.den * CapDen * rm
  BY <1>2
<1>4. /\ CapNum \in Nat /\ CapDen \in Nat /\ CapDen > 0 /\ w.den \in Nat /\ w.den > 0
      /\ Shares!Sum(w.num) = w.den
  <2>1. /\ w.den \in Nat /\ w.den > 0 /\ Shares!Sum(w.num) <= w.den
        /\ ~ (Shares!Sum(w.num) < w.den)
        /\ \A n \in D : w.num[n] \in Nat
    BY DEF Weighed
  <2>2. Shares!Sum(w.num) \in Nat
    <3>1. Shares!Sum(w.num) = SumFunctionOnSet(w.num, D)
      BY SharesAreSummed
    <3> HIDE DEF D
    <3> QED BY <1>1, <2>1, <3>1, SumsAreNat
  <2> QED BY <2>1, <2>2, SharesAreCounted
<1>5. /\ DOMAIN new = D
      /\ \A n \in D : new[n] = IF n \in u THEN cut[n] * rm + e * cut[n] ELSE cut[n] * rm
      /\ \A n \in D : none[n] = 0
      /\ \A n \in D : less[n] = IF n \in u THEN (-e) * cut[n] ELSE 0
  BY <1>1
<1> HIDE DEF D, u, cut, top, rm, e, r, new, none, less
<1>6. \A n \in D : /\ cut[n] * rm \in Nat /\ e * cut[n] \in Nat /\ (-e) * cut[n] \in Int
                   /\ (-e) * cut[n] = - (e * cut[n]) /\ rm * cut[n] = cut[n] * rm
  BY <1>1
<1>7. \A n \in D : new[n] \in Nat
  BY <1>5, <1>6
<1>8. SumFunctionOnSet(new, D) = rm * SumFunctionOnSet(cut, D) - SumFunctionOnSet(less, D)
  <2>1. \A n \in D : cut[n] \in Int /\ less[n] \in Int /\ new[n] = rm * cut[n] - less[n]
    BY <1>1, <1>5, <1>6
  <2>2. rm \in Int
    BY <1>1
  <2> QED BY <1>1, <2>1, <2>2, SumsAreLinear
<1>9. SumFunctionOnSet(less, D) = SumFunctionOnSet(less, u)
  <2>1. (\A n \in D : less[n] \in Int) /\ \A n \in D \ u : less[n] = 0
    BY <1>5, <1>6
  <2> QED BY <1>1, <2>1, SumsOfSupport
<1>10. SumFunctionOnSet(less, u) = (-e) * SumFunctionOnSet(cut, u) - SumFunctionOnSet(none, u)
  <2>1. \A n \in u : cut[n] \in Int /\ none[n] \in Int /\ less[n] = (-e) * cut[n] - none[n]
    BY <1>1, <1>5, <1>6
  <2>2. -e \in Int /\ IsFiniteSet(u)
    BY <1>1, FS_Subset
  <2> QED BY <2>1, <2>2, SumsAreLinear
<1>11. SumFunctionOnSet(none, u) = 0
  <2>1. IsFiniteSet(u) /\ \A n \in u : none[n] = 0
    BY <1>1, <1>5, FS_Subset
  <2> QED BY <2>1, SumsOfZeros
<1>12. SumFunctionOnSet(new, D) = w.den * CapDen * rm
  <2>1. SumFunctionOnSet(less, D) = (-e) * rm
    BY <1>1, <1>9, <1>10, <1>11
  <2>2. SumFunctionOnSet(cut, D) = CapDen * w.den - e
    BY <1>1, <1>4
  <2>3. SumFunctionOnSet(new, D) = rm * (CapDen * w.den - e) - (-e) * rm
    BY <1>8, <2>1, <2>2
  <2>4. PICK k \in Nat : k = CapDen * w.den /\ w.den * CapDen = k
    BY <1>4
  <2>5. rm * (k - e) - (-e) * rm = k * rm
    BY <1>1
  <2> QED BY <2>3, <2>4, <2>5
<1>13. Shares!Sum(r.num) = r.den
  <2>1. Shares!Sum(new) = SumFunctionOnSet(new, D)
    BY <1>5, SharesAreSummed
  <2> QED BY <1>3, <1>12, <2>1
<1>14. w.den * CapDen \in Nat /\ w.den * CapDen > 0 /\ r.den \in Nat /\ r.den > 0
  <2>1. w.den * CapDen \in Nat /\ w.den * CapDen > 0
    BY <1>4, Products, ProductsPositive
  <2>2. w.den * CapDen * rm \in Nat /\ w.den * CapDen * rm > 0
    BY <1>1, <2>1, Products, ProductsPositive
  <2> QED BY <1>3, <2>1, <2>2
<1>15. Weighed(r)
  <2>1. ~ (r.den < r.den)
    BY <1>14
  <2> QED BY <1>1, <1>3, <1>5, <1>7, <1>13, <1>14, <2>1 DEF Weighed
<1>16. ASSUME NEW n \in AtCap(w)
       PROVE  n \in D /\ new[n] * CapDen = CapNum * r.den
  <2>1. n \in D /\ n \notin u
    BY DEF AtCap, D, u
  <2>2. new[n] = top * rm
    BY <1>1, <1>5, <2>1
  <2>3. (CapNum * w.den) * rm * CapDen = CapNum * (w.den * CapDen * rm)
    BY <1>1, <1>4
  <2> QED BY <1>3, <2>1, <2>2, <2>3 DEF top
<1>17. CapNum * r.den \in Nat
  BY <1>4, <1>14, Products
<1>18. \A n \in AtCap(w) : n \in D /\ n \notin Shares!Under(r) /\ n \notin Shares!Over(r)
  BY <1>3, <1>5, <1>16, <1>17 DEF Shares!Under, Shares!Over
<1>19. DOMAIN r.num = D
  BY <1>3, <1>5
<1> QED BY <1>15, <1>18, <1>19 DEF D, r, AtCap

\* The rounds, counted.
ShareRule(w, k, i) ==
  IF i = 0 THEN w
  ELSE IF Shares!Over(k[i - 1]) = {} THEN k[i - 1] ELSE Shares!Refill(k[i - 1])
Round(w) == CHOOSE k : k = [i \in 0 .. Shares!Rounds(w) |-> ShareRule(w, k, i)]

LEMMA CappedIsTheLastRound == \A w : Shares!Capped(w) = Round(w)[Shares!Rounds(w)]
  BY DEF Shares!Capped, Round, ShareRule

LEMMA RoundsExist ==
  ASSUME NEW w, Shares!Rounds(w) \in Nat
  PROVE  /\ Round(w)[0] = w
         /\ \A i \in 1 .. Shares!Rounds(w) :
              Round(w)[i] = IF Shares!Over(Round(w)[i - 1]) = {} THEN Round(w)[i - 1]
                            ELSE Shares!Refill(Round(w)[i - 1])
<1> DEFINE n == Shares!Rounds(w)
           upTo(m) == {i \in Nat : i <= m /\ i <= n}
           Q == {m \in Nat : \E k : k = [i \in upTo(m) |-> ShareRule(w, k, i)]}
<1>1. 0 \in Q
  <2> DEFINE h == [i \in {0} |-> w]
  <2>1. upTo(0) = {0}
    OBVIOUS
  <2>2. h = [i \in {0} |-> ShareRule(w, h, i)]
    BY DEF ShareRule
  <2> HIDE DEF h, upTo
  <2>3. h = [i \in upTo(0) |-> ShareRule(w, h, i)]
    BY <2>1, <2>2
  <2> QED BY <2>3
<1>2. \A m \in Q : m + 1 \in Q
  <2> SUFFICES ASSUME NEW m \in Q PROVE m + 1 \in Q
    OBVIOUS
  <2>1. PICK g : g = [i \in upTo(m) |-> ShareRule(w, g, i)]
    OBVIOUS
  <2> DEFINE h == [i \in upTo(m + 1) |-> IF i <= m THEN g[i] ELSE ShareRule(w, g, i)]
  <2>2. m \in Nat
    OBVIOUS
  <2>3. \A i \in upTo(m) : g[i] = ShareRule(w, g, i)
    <3> HIDE DEF upTo
    <3> QED BY <2>1
  <2>4. \A i \in upTo(m) : i \in upTo(m + 1) /\ h[i] = g[i]
    BY <2>2
  <2>5. ASSUME NEW i \in upTo(m + 1)
        PROVE  h[i] = ShareRule(w, h, i)
    <3>1. h[i] = ShareRule(w, g, i)
      <4>1. CASE i <= m
        <5>1. i \in upTo(m)
          BY <4>1
        <5> QED BY <2>3, <2>4, <5>1
      <4>2. CASE ~(i <= m)
        BY <4>2
      <4> QED BY <4>1, <4>2
    <3>2. CASE i = 0
      BY <3>1, <3>2 DEF ShareRule
    <3>3. CASE i # 0
      <4>1. i - 1 \in upTo(m)
        BY <2>2, <3>3
      <4>2. h[i - 1] = g[i - 1]
        BY <2>4, <4>1
      <4> HIDE DEF h
      <4> QED BY <3>1, <3>3, <4>2 DEF ShareRule
    <3> QED BY <3>2, <3>3
  <2>6. h = [i \in upTo(m + 1) |-> h[i]]
    OBVIOUS
  <2> HIDE DEF h, upTo
  <2>7. h = [i \in upTo(m + 1) |-> ShareRule(w, h, i)]
    BY <2>5, <2>6
  <2> QED BY <2>2, <2>7
<1>3. n \in Q
  <2>1. Q \in SUBSET Nat
    OBVIOUS
  <2> HIDE DEF Q
  <2> QED BY <1>1, <1>2, <2>1, NatBySet
<1>4. PICK k : k = [i \in upTo(n) |-> ShareRule(w, k, i)]
  BY <1>3
<1>5. upTo(n) = 0 .. n
  OBVIOUS
<1> HIDE DEF Q
<1>6. k = [i \in 0 .. n |-> ShareRule(w, k, i)]
  <2> HIDE DEF upTo, n
  <2> QED BY <1>4, <1>5
<1> DEFINE t == Round(w)
<1>7. t = [i \in 0 .. n |-> ShareRule(w, t, i)]
  BY <1>6 DEF Round
<1>8. \A i \in 0 .. n : t[i] = ShareRule(w, t, i)
  <2> HIDE DEF t, n
  <2> QED BY <1>7
<1> HIDE DEF t
<1>9. t[0] = w
  BY <1>8 DEF ShareRule
<1>10. \A i \in 1 .. n : t[i] = IF Shares!Over(t[i - 1]) = {} THEN t[i - 1] ELSE Shares!Refill(t[i - 1])
  BY <1>8 DEF ShareRule
<1> QED BY <1>9, <1>10 DEF t

\* As many at the cap as there were rounds, until nobody is over it.
LEMMA CappedIsWeighed ==
  ASSUME NEW w, Weighed(w)
  PROVE  /\ Weighed(Shares!Capped(w)) /\ DOMAIN Shares!Capped(w).num = DOMAIN w.num
         /\ Shares!Over(Shares!Capped(w)) = {}
<1> DEFINE D == DOMAIN w.num
           R == Shares!Rounds(w)
           t == Round(w)
           good == {i \in Nat : i <= R =>
                      /\ Weighed(t[i]) /\ DOMAIN t[i].num = D
                      /\ Shares!Over(t[i]) = {} \/ Cardinality(AtCap(t[i])) >= i}
<1>1. IsFiniteSet(D) /\ Cardinality(D) \in Nat /\ R = Cardinality(D) + 1
  <2>1. IsFiniteSet(D)
    BY CutsAreExact
  <2>2. R = Cardinality(D) + 1
    BY SharesAreCounted DEF Shares!Rounds
  <2> HIDE DEF D
  <2> QED BY <2>1, <2>2, FS_CardinalityType
<1>2. /\ t[0] = w
      /\ \A i \in 1 .. R : t[i] = IF Shares!Over(t[i - 1]) = {} THEN t[i - 1]
                                  ELSE Shares!Refill(t[i - 1])
  <2>1. R \in Nat
    BY <1>1
  <2> QED BY <2>1, RoundsExist
<1>3. \A x : DOMAIN x.num = D => AtCap(x) \in SUBSET D /\ Shares!Over(x) \in SUBSET D
  BY DEF AtCap, Shares!Over
<1> HIDE DEF D, R, t
<1>4. \A x \in SUBSET D : IsFiniteSet(x) /\ Cardinality(x) \in Nat /\ Cardinality(x) <= Cardinality(D)
  BY <1>1, FS_Subset, FS_CardinalityType
<1>5. 0 \in good
  <2>1. DOMAIN t[0].num = D
    BY <1>2 DEF D
  <2>2. Cardinality(AtCap(t[0])) >= 0
    BY <1>3, <1>4, <2>1
  <2> QED BY <1>2, <2>1, <2>2
<1>6. \A i \in good : i + 1 \in good
  <2> SUFFICES ASSUME NEW i \in good, i + 1 <= R
               PROVE  /\ Weighed(t[i + 1]) /\ DOMAIN t[i + 1].num = D
                      /\ Shares!Over(t[i + 1]) = {} \/ Cardinality(AtCap(t[i + 1])) >= i + 1
    OBVIOUS
  <2>1. i \in Nat /\ i <= R /\ i + 1 \in 1 .. R /\ (i + 1) - 1 = i
    BY <1>1
  <2>2. /\ Weighed(t[i]) /\ DOMAIN t[i].num = D
        /\ Shares!Over(t[i]) = {} \/ Cardinality(AtCap(t[i])) >= i
    BY <2>1
  <2>3. t[i + 1] = IF Shares!Over(t[i]) = {} THEN t[i] ELSE Shares!Refill(t[i])
    BY <1>2, <2>1
  <2>4. CASE Shares!Over(t[i]) = {}
    BY <2>2, <2>3, <2>4
  <2>5. CASE Shares!Over(t[i]) # {} /\ Room(t[i]) = 0
    <3>1. t[i + 1] = Shares!Refill(t[i])
      BY <2>3, <2>5
    <3> QED BY <2>2, <2>5, <3>1, RefillWithoutRoom
  <2>6. CASE Shares!Over(t[i]) # {} /\ Room(t[i]) # 0
    <3> DEFINE a == AtCap(t[i])
               b == AtCap(t[i + 1])
               o == Shares!Over(t[i + 1])
    <3>1. t[i + 1] = Shares!Refill(t[i])
      BY <2>3, <2>6
    <3>2. /\ Weighed(t[i + 1]) /\ DOMAIN t[i + 1].num = D
          /\ a \in SUBSET b /\ a \cap o = {}
      BY <2>2, <2>6, <3>1, RefillWithRoom
    <3>3. o \in SUBSET b
      <4> SUFFICES ASSUME NEW n \in o PROVE n \in b
        OBVIOUS
      <4>1. n \in D /\ t[i + 1].num[n] * CapDen > CapNum * t[i + 1].den
        BY <3>2 DEF Shares!Over
      <4>2. t[i + 1].num[n] * CapDen \in Nat /\ CapNum * t[i + 1].den \in Nat
        <5>1. t[i + 1].num[n] \in Nat /\ t[i + 1].den \in Nat
          BY <3>2, <4>1 DEF Weighed
        <5> QED BY <5>1, SharesAreCounted, Products
      <4>3. n \notin Shares!Under(t[i + 1])
        BY <4>1, <4>2 DEF Shares!Under
      <4> QED BY <3>2, <4>1, <4>3 DEF AtCap
    <3>4. ASSUME o # {} PROVE Cardinality(b) >= i + 1
      <4>1. a # b
        BY <3>2, <3>3, <3>4
      <4>2. b \in SUBSET D /\ IsFiniteSet(b)
        BY <1>3, <1>4, <3>2
      <4> HIDE DEF a, b, o
      <4>3. Cardinality(a) <= Cardinality(b) /\ Cardinality(a) # Cardinality(b)
        BY <3>2, <4>1, <4>2, FS_Subset
      <4>4. Cardinality(a) \in Nat /\ Cardinality(b) \in Nat
        BY <1>4, <3>2, <4>2
      <4>5. Cardinality(a) >= i
        BY <2>2, <2>6 DEF a
      <4> QED BY <2>1, <4>3, <4>4, <4>5
    <3> QED BY <3>2, <3>4
  <2> QED BY <2>4, <2>5, <2>6
<1>7. R \in good
  <2>1. good \in SUBSET Nat /\ R \in Nat
    BY <1>1
  <2> HIDE DEF good
  <2> QED BY <1>5, <1>6, <2>1, NatBySet
<1>8. Weighed(t[R]) /\ DOMAIN t[R].num = D /\ (Shares!Over(t[R]) = {} \/ Cardinality(AtCap(t[R])) >= R)
  BY <1>1, <1>7
<1>9. Shares!Over(t[R]) = {}
  <2>1. Cardinality(AtCap(t[R])) \in Nat /\ Cardinality(AtCap(t[R])) <= Cardinality(D)
    BY <1>3, <1>4, <1>8
  <2> QED BY <1>1, <1>8, <2>1
<1> QED BY <1>8, <1>9, CappedIsTheLastRound DEF D, R, t

\* Before the cap the weights add up to all of the capital.
LEMMA TiltedIsWeighed ==
  ASSUME NEW method, Shares!Eligible # {},
         \A n \in Shares!Eligible : card[n].score \in Nat
  PROVE  /\ Weighed(Shares!Tilted(method))
         /\ DOMAIN Shares!Tilted(method).num = Shares!Eligible
<1> DEFINE E == Shares!Eligible
           raw == [n \in E |-> IF method = "equal" THEN 1
                               ELSE IF card[n].gains THEN card[n].score ELSE 0]
           one == [n \in E |-> 1]
           r == Shares!Raw(method)
           t == [n \in E |-> r[n] * Shares!Tilt(n)]
           w == Shares!Tilted(method)
<1>1. /\ w.num = t /\ w.den = Shares!Sum(t)
      /\ r = IF Shares!Sum(raw) > 0 THEN raw ELSE one
  BY DEF Shares!Tilted, Shares!Raw
<1>2. E \in SUBSET Names /\ \A n \in E : Shares!Tilt(n) \in {1, 2}
  BY DEF Shares!Eligible, Shares!Tilt
<1>3. IsFiniteSet(E) /\ E # {}
  BY <1>2, SharesAreCounted, FS_Subset
<1>4. /\ DOMAIN raw = E /\ DOMAIN one = E /\ DOMAIN t = E
      /\ \A n \in E : raw[n] \in Nat /\ one[n] = 1 /\ t[n] = r[n] * Shares!Tilt(n)
  OBVIOUS
<1> HIDE DEF E, raw, one, r, t, w
<1>5. /\ Shares!Sum(raw) = SumFunctionOnSet(raw, E) /\ Shares!Sum(t) = SumFunctionOnSet(t, E)
  BY <1>4, SharesAreSummed
<1>6. SumFunctionOnSet(raw, E) \in Nat /\ SumFunctionOnSet(one, E) \in Nat
  BY <1>3, <1>4, SumsAreNat
<1>7. SumFunctionOnSet(one, E) > 0
  <2>1. PICK n \in E : TRUE
    BY <1>3
  <2>2. \A x \in E : one[x] \in Int
    BY <1>4
  <2>3. SumFunctionOnSet(one, E) = one[n] + SumFunctionOnSet(one, E \ {n})
    BY <1>3, <2>2, SumsOfParts
  <2>4. SumFunctionOnSet(one, E \ {n}) \in Nat
    <3>1. IsFiniteSet(E \ {n}) /\ \A x \in E \ {n} : one[x] \in Nat
      BY <1>3, <1>4, FS_Subset
    <3> QED BY <3>1, SumsAreNat
  <2> QED BY <1>4, <2>3, <2>4
<1>8. (\A n \in E : r[n] \in Nat) /\ SumFunctionOnSet(r, E) > 0
  <2>1. CASE Shares!Sum(raw) > 0
    BY <1>1, <1>4, <1>5, <2>1
  <2>2. CASE ~ (Shares!Sum(raw) > 0)
    BY <1>1, <1>4, <1>7, <2>2
  <2> QED BY <2>1, <2>2
<1>9. \A n \in E : t[n] \in Nat /\ r[n] <= t[n]
  <2> SUFFICES ASSUME NEW n \in E PROVE t[n] \in Nat /\ r[n] <= t[n]
    OBVIOUS
  <2>1. t[n] = r[n] * Shares!Tilt(n) /\ r[n] \in Nat /\ Shares!Tilt(n) \in {1, 2}
    BY <1>2, <1>4, <1>8
  <2> QED BY <2>1
<1>10. SumFunctionOnSet(t, E) \in Nat /\ SumFunctionOnSet(t, E) > 0
  <2>1. SumFunctionOnSet(t, E) \in Nat /\ SumFunctionOnSet(r, E) \in Nat
    BY <1>3, <1>8, <1>9, SumsAreNat
  <2>2. \A n \in E : r[n] \in Int /\ t[n] \in Int /\ r[n] <= t[n]
    BY <1>8, <1>9
  <2>3. SumFunctionOnSet(r, E) <= SumFunctionOnSet(t, E)
    BY <1>3, <2>2, SumsAreMonotone
  <2> QED BY <1>8, <2>1, <2>3
<1>11. Shares!Sum(w.num) = w.den /\ w.den \in Nat /\ w.den > 0
  BY <1>1, <1>5, <1>10
<1>12. Shares!Sum(w.num) <= w.den /\ ~ (Shares!Sum(w.num) < w.den)
  BY <1>11
<1>13. DOMAIN w.num = E /\ \A n \in DOMAIN w.num : w.num[n] \in Nat
  BY <1>1, <1>4, <1>9
<1> QED BY <1>2, <1>11, <1>12, <1>13 DEF Weighed, E, w

\* With nobody sanctioned nothing is asked of the card.
SharesInv ==
  /\ \/ sanctioned = {}
     \/ card \in [Names -> [status : Shares!Statuses, score : Nat, gains : BOOLEAN]]
  /\ weights # None =>
       /\ Weighed(weights) /\ Shares!Over(weights) = {}
       /\ \A n \in DOMAIN weights.num : card[n].status # "degraded"

LEMMA SharesStart ==
  (IF subject = "shares" THEN Shares!Init /\ Standing \subseteq sanctioned
   ELSE card = <<>> /\ sanctioned = {} /\ weights = None) => SharesInv
<1>1. ASSUME Shares!Init PROVE SharesInv
  <2>1. weights = None /\ card \in [Names -> [status : {"healthy"}, score : Scores, gains : BOOLEAN]]
    BY <1>1 DEF Shares!Init
  <2>2. [status : {"healthy"}, score : Scores, gains : BOOLEAN] \in
           SUBSET [status : Shares!Statuses, score : Nat, gains : BOOLEAN]
    BY SharesAreCounted DEF Shares!Statuses
  <2>3. card \in [Names -> [status : Shares!Statuses, score : Nat, gains : BOOLEAN]]
    BY <2>1, <2>2
  <2> QED BY <2>1, <2>3 DEF SharesInv
<1>2. sanctioned = {} /\ weights = None => SharesInv
  BY DEF SharesInv
<1> QED BY <1>1, <1>2, Zenon

LEMMA AllocateKept == SharesInv /\ Shares!Allocate => SharesInv'
<1> SUFFICES ASSUME SharesInv, Shares!Allocate PROVE SharesInv'
  OBVIOUS
<1>1. /\ sanctioned = {} \/ card \in [Names -> [status : Shares!Statuses, score : Nat, gains : BOOLEAN]]
      /\ card' = card /\ sanctioned' = sanctioned
  BY DEF SharesInv, Shares!Allocate
<1>2. PICK method \in {"equal", "performance"} :
        weights' = IF Shares!Eligible = {} THEN [num |-> <<>>, den |-> 1]
                   ELSE Shares!Capped(Shares!Tilted(method))
  BY DEF Shares!Allocate
<1>3. CASE Shares!Eligible = {}
  <2> DEFINE w == [num |-> <<>>, den |-> 1]
  <2>1. w.num = <<>> /\ w.den = 1 /\ DOMAIN <<>> = {}
    OBVIOUS
  <2>2. weights' = w
    BY <1>2, <1>3
  <2> HIDE DEF w
  <2>3. Shares!Sum(w.num) = 0
    <3>1. IsFiniteSet({}) /\ \A x \in {} : w.num[x] \in Int
      BY FS_EmptySet
    <3>2. SumFunctionOnSet(w.num, {}) = 0
      BY <3>1, SumsOfParts
    <3> QED BY <2>1, <3>2, SharesAreSummed
  <2>4. Shares!Over(w) = {}
    BY <2>1 DEF Shares!Over
  <2>5. Weighed(w)
    BY <2>1, <2>3, <2>4 DEF Weighed
  <2>6. Weighed(weights') /\ Shares!Over(weights') = {} /\ DOMAIN weights'.num = {}
    BY <2>1, <2>2, <2>4, <2>5
  <2>7. Weighed(weights)' /\ (Shares!Over(weights) = {})' /\ (DOMAIN weights.num = {})'
    BY <2>6 DEF Weighed, Shares!Over, Shares!Under
  <2> QED BY <1>1, <2>7 DEF SharesInv
<1>4. CASE Shares!Eligible # {}
  <2> DEFINE t == Shares!Tilted(method)
             w == Shares!Capped(t)
  <2>1. weights' = w
    BY <1>2, <1>4
  <2>2. \A n \in Shares!Eligible :
          n \in Names /\ sanctioned # {} /\ card[n].status # "degraded"
    BY DEF Shares!Eligible, Shares!Tilt
  <2>3. \A n \in Shares!Eligible : card[n].score \in Nat
    BY <1>1, <2>2
  <2>4. Weighed(t) /\ DOMAIN t.num = Shares!Eligible
    BY <1>4, <2>3, TiltedIsWeighed
  <2> HIDE DEF t
  <2>5. Weighed(w) /\ DOMAIN w.num = Shares!Eligible /\ Shares!Over(w) = {}
    BY <2>4, CappedIsWeighed
  <2> HIDE DEF w
  <2>6. /\ Weighed(weights') /\ Shares!Over(weights') = {}
        /\ \A n \in DOMAIN weights'.num : card[n].status # "degraded"
    BY <2>1, <2>2, <2>5
  <2>7. /\ Weighed(weights)' /\ (Shares!Over(weights) = {})'
        /\ (\A n \in DOMAIN weights.num : card[n].status # "degraded")'
    BY <1>1, <2>6 DEF Weighed, Shares!Over, Shares!Under
  <2> QED BY <1>1, <2>7 DEF SharesInv
<1> QED BY <1>3, <1>4

LEMMA SharesKept == SharesInv /\ [Shares!Next]_shareVars => SharesInv'
<1> SUFFICES ASSUME SharesInv, [Shares!Next]_shareVars PROVE SharesInv'
  OBVIOUS
<1>1. CASE Shares!Allocate
  BY <1>1, AllocateKept
<1>2. CASE Shares!Regrade
  <2> DEFINE Card == [status : Shares!Statuses, score : Nat, gains : BOOLEAN]
  <2>1. weights' = None /\ sanctioned' = sanctioned
    BY <1>2 DEF Shares!Regrade
  <2>2. PICK n \in Names, s \in Shares!Statuses : card' = [card EXCEPT ![n].status = s]
    BY <1>2 DEF Shares!Regrade
  <2>3. ASSUME card \in [Names -> Card] PROVE card' \in [Names -> Card]
    <3>1. PICK r : r = [card[n] EXCEPT !.status = s]
      OBVIOUS
    <3>2. card' = [card EXCEPT ![n] = r]
      BY <2>2, <3>1, Zenon
    <3>3. r \in Card
      <4>1. card[n] \in Card
        BY <2>3
      <4> QED BY <3>1, <4>1
    <3> HIDE DEF Card
    <3> QED BY <2>3, <3>2, <3>3
  <2> QED BY <2>1, <2>3 DEF SharesInv
<1>3. CASE UNCHANGED shareVars
  BY <1>3 DEF shareVars, SharesInv, Weighed, Shares!Over, Shares!Under
<1> QED BY <1>1, <1>2, <1>3 DEF Shares!Next

LEMMA SharesHold == SharesInv => Shares!WithinCaps
  BY DEF SharesInv, Weighed, Shares!WithinCaps

-----------------------------------------------------------------------------
(* TradingModes.  While nothing was lost and nothing overlapped, the mode  *)
(* set last is in the one request that has not logged it, or in the newest *)
(* row; a signal on its way through one preset has read the one in force.  *)

PresetTyped ==
  /\ preset \in Preset!Modes \cup {None} /\ latest \in Preset!Modes
  /\ logged \in Seq(Preset!Modes)
  /\ setting \in [Setters -> Preset!Modes \cup {None}]
  /\ confirmed \in BOOLEAN /\ unsure \in BOOLEAN /\ midway \in BOOLEAN
  /\ read \in Seq(Preset!Modes) /\ Len(read) <= 5 /\ today \in Nat

Unlogged == {s \in Setters : setting[s] # None}

NewestRow == IF logged = <<>> THEN "balanced" ELSE logged[Len(logged)]

LatestIsKept ==
  ~unsure =>
    /\ preset # None => preset = latest
    /\ \/ Unlogged = {} /\ NewestRow = latest
       \/ \E s \in Setters : Unlogged = {s} /\ setting[s] = latest

DownIsQuiet == preset = None => Unlogged = {} /\ read = <<>>

ScalperConfirmed ==
  confirmed \/
    /\ preset # "scalper"
    /\ \A s \in Setters : setting[s] # "scalper"
    /\ \A i \in 1 .. Len(logged) : logged[i] # "scalper"

ReadInForce ==
  ~midway /\ read # <<>> =>
    /\ \A i \in 1 .. Len(read) : read[i] = preset
    /\ Len(read) \in 3 .. 4 => today < DailyCap[preset]
    /\ Len(read) = 5 => today <= DailyCap[preset]

PresetInv ==
  PresetTyped /\ LatestIsKept /\ DownIsQuiet /\ ScalperConfirmed /\ ReadInForce

LEMMA PresetStarts == Preset!Init => PresetInv
<1> SUFFICES ASSUME Preset!Init PROVE PresetInv
  OBVIOUS
<1>1. /\ preset = "balanced" /\ latest = "balanced" /\ logged = <<>> /\ read = <<>>
      /\ setting = [s \in Setters |-> None] /\ today = 0
  BY DEF Preset!Init
<1>2. confirmed = FALSE /\ unsure = FALSE /\ midway = FALSE
  BY DEF Preset!Init
<1>3. PresetTyped
  <2>1. read \in Seq(Preset!Modes) /\ Len(read) = 0 /\ logged \in Seq(Preset!Modes)
    BY <1>1
  <2>2. preset \in Preset!Modes /\ latest \in Preset!Modes
    BY <1>1 DEF Preset!Modes
  <2>3. setting \in [Setters -> Preset!Modes \cup {None}]
    BY <1>1
  <2>4. confirmed \in BOOLEAN /\ unsure \in BOOLEAN /\ midway \in BOOLEAN
    BY <1>2, Zenon
  <2>5. today \in Nat /\ Len(read) <= 5
    BY <1>1, <2>1
  <2> QED BY <2>1, <2>2, <2>3, <2>4, <2>5 DEF PresetTyped
<1>4. Unlogged = {} /\ NewestRow = latest
  BY <1>1 DEF Unlogged, NewestRow
<1>5. preset # None /\ None # "scalper"
  BY <1>1, PresetAssumption DEF Preset!PresetConstants, Preset!Modes
<1>6. ScalperConfirmed
  BY <1>1, <1>5 DEF ScalperConfirmed
<1> QED BY <1>1, <1>2, <1>3, <1>4, <1>5, <1>6
        DEF PresetInv, LatestIsKept, DownIsQuiet, ReadInForce

\* set_mode: memory first.
LEMMA PresetSet ==
  ASSUME PresetInv, NEW s \in Setters, Preset!Set(s)
  PROVE  PresetInv'
<1> USE DEF PresetInv
<1>1. preset # None /\ setting[s] = None /\ UNCHANGED <<logged, read, today>>
  BY DEF Preset!Set
<1>2. PICK m \in Preset!Modes, sure \in BOOLEAN :
        /\ m = "scalper" => sure
        /\ preset' = m /\ latest' = m /\ setting' = [setting EXCEPT ![s] = m]
        /\ confirmed' = (confirmed \/ (m = "scalper" /\ sure))
        /\ midway' = (midway \/ (read # <<>> /\ m # preset))
  BY DEF Preset!Set
<1>3. unsure' = \E o \in Setters \ {s} : setting[o] # None
  BY DEF Preset!Set
<1>4. m # None
  BY PresetAssumption DEF Preset!PresetConstants
<1>5. setting'[s] = m /\ \A o \in Setters \ {s} : setting'[o] = setting[o]
  BY <1>2 DEF PresetTyped
<1>6. PresetTyped'
  <2>1. confirmed' \in BOOLEAN /\ unsure' \in BOOLEAN /\ midway' \in BOOLEAN
    BY <1>2, <1>3, Zenon
  <2>2. setting' \in [Setters -> Preset!Modes \cup {None}]
    BY <1>2 DEF PresetTyped
  <2> QED BY <1>1, <1>2, <2>1, <2>2 DEF PresetTyped, Preset!Modes
<1>7. LatestIsKept'
  <2> SUFFICES ASSUME ~unsure' PROVE Unlogged' = {s} /\ setting'[s] = latest' /\ preset' = latest'
    BY DEF LatestIsKept
  <2>1. \A o \in Setters \ {s} : setting'[o] = None
    BY <1>3, <1>5
  <2> QED BY <1>2, <1>4, <1>5, <2>1 DEF Unlogged
<1>8. DownIsQuiet'
  BY <1>2, <1>4 DEF DownIsQuiet
<1>9. ScalperConfirmed'
  <2>1. CASE m = "scalper"
    BY <1>2, <2>1 DEF ScalperConfirmed
  <2>2. CASE m # "scalper"
    <3>1. confirmed => confirmed'
      BY <1>2
    <3>2. (\A o \in Setters : setting[o] # "scalper") =>
            \A o \in Setters : setting'[o] # "scalper"
      BY <1>5, <2>2
    <3> QED BY <1>1, <1>2, <2>2, <3>1, <3>2 DEF ScalperConfirmed
  <2> QED BY <2>1, <2>2
<1>10. ReadInForce'
  BY <1>1, <1>2 DEF ReadInForce
<1> QED BY <1>6, <1>7, <1>8, <1>9, <1>10

\* ... then the row.
LEMMA PresetLog ==
  ASSUME PresetInv, NEW s \in Setters, Preset!Log(s)
  PROVE  PresetInv'
<1> USE DEF PresetInv
<1>1. /\ setting[s] # None /\ setting' = [setting EXCEPT ![s] = None]
      /\ UNCHANGED <<preset, latest, confirmed, read, midway, today>>
      /\ \/ logged' = Append(logged, setting[s]) /\ unsure' = unsure
         \/ logged' = logged /\ unsure' = TRUE
  BY DEF Preset!Log
<1>2. setting'[s] = None /\ \A o \in Setters \ {s} : setting'[o] = setting[o]
  BY <1>1 DEF PresetTyped
<1>3. setting[s] \in Preset!Modes
  BY <1>1 DEF PresetTyped
<1>4. /\ logged' \in Seq(Preset!Modes)
      /\ \/ logged' = logged
         \/ /\ Len(logged') = Len(logged) + 1 /\ logged'[Len(logged')] = setting[s]
            /\ logged' # <<>>
            /\ \A i \in 1 .. Len(logged) : logged'[i] = logged[i]
  <2> DEFINE M == Preset!Modes
  <2>1. logged \in Seq(M) /\ setting[s] \in M
    BY <1>3 DEF PresetTyped
  <2>2. CASE logged' = logged
    BY <2>1, <2>2
  <2>3. CASE logged' = Append(logged, setting[s])
    <3> HIDE DEF M, PresetInv
    <3>1. PICK x \in M : x = setting[s]
      BY <2>1
    <3>2. logged' = Append(logged, x)
      BY <2>3, <3>1
    <3>3. /\ logged' \in Seq(M) /\ Len(logged') = Len(logged) + 1
          /\ logged'[Len(logged) + 1] = x /\ Len(logged) \in Nat
          /\ \A i \in 1 .. Len(logged) : logged'[i] = logged[i]
      BY <2>1, <3>2
    <3>4. logged' # <<>>
      BY <3>3
    <3> QED BY <3>1, <3>3, <3>4 DEF M
  <2> QED BY <1>1, <2>2, <2>3
<1>5. PresetTyped'
  <2>1. logged' \in Seq(Preset!Modes)
    BY <1>4
  <2>2. setting' \in [Setters -> Preset!Modes \cup {None}]
    BY <1>1 DEF PresetTyped
  <2>3. unsure' \in BOOLEAN /\ confirmed' \in BOOLEAN /\ midway' \in BOOLEAN
    BY <1>1, Zenon DEF PresetTyped
  <2> QED BY <1>1, <2>1, <2>2, <2>3 DEF PresetTyped, Preset!Modes
<1>6. LatestIsKept'
  <2> SUFFICES ASSUME ~unsure'
               PROVE  /\ preset' # None => preset' = latest'
                      /\ Unlogged' = {} /\ NewestRow' = latest'
    BY DEF LatestIsKept
  <2>1. ~unsure /\ logged' = Append(logged, setting[s])
    BY <1>1
  <2>2. Unlogged = {s} /\ setting[s] = latest
    BY <1>1, <2>1 DEF LatestIsKept, Unlogged
  <2>3. Unlogged' = {}
    BY <1>2, <2>2 DEF Unlogged
  <2>4. logged' # <<>> /\ logged'[Len(logged')] = latest
    BY <1>3, <2>1, <2>2 DEF PresetTyped
  <2> QED BY <1>1, <2>1, <2>3, <2>4 DEF LatestIsKept, NewestRow
<1>7. DownIsQuiet'
  <2>1. s \in Unlogged
    BY <1>1 DEF Unlogged
  <2> QED BY <1>1, <2>1 DEF DownIsQuiet
<1>8. ScalperConfirmed'
  <2> SUFFICES ASSUME ~confirmed
               PROVE  /\ preset' # "scalper"
                      /\ \A o \in Setters : setting'[o] # "scalper"
                      /\ \A i \in 1 .. Len(logged') : logged'[i] # "scalper"
    BY <1>1 DEF ScalperConfirmed
  <2>1. /\ preset # "scalper"
        /\ \A o \in Setters : setting[o] # "scalper"
        /\ \A i \in 1 .. Len(logged) : logged[i] # "scalper"
    BY DEF ScalperConfirmed
  <2>2. None # "scalper"
    BY PresetAssumption DEF Preset!PresetConstants, Preset!Modes
  <2>3. \A o \in Setters : setting'[o] # "scalper"
    BY <1>2, <2>1, <2>2
  <2>4. Len(logged) \in Nat
    BY DEF PresetTyped
  <2>5. \A i \in 1 .. Len(logged') : logged'[i] # "scalper"
    BY <1>4, <2>1, <2>4
  <2> QED BY <1>1, <2>1, <2>3, <2>5
<1>9. ReadInForce'
  BY <1>1 DEF ReadInForce
<1> QED BY <1>5, <1>6, <1>7, <1>8, <1>9

LEMMA PresetCrash == PresetInv /\ Preset!Crash => PresetInv'
<1> SUFFICES ASSUME PresetInv, Preset!Crash PROVE PresetInv'
  OBVIOUS
<1> USE DEF PresetInv
<1>1. /\ preset' = None /\ setting' = [s \in Setters |-> None] /\ read' = <<>>
      /\ midway' = FALSE /\ unsure' = (unsure \/ \E s \in Setters : setting[s] # None)
      /\ UNCHANGED <<logged, latest, confirmed, today>>
  BY DEF Preset!Crash
<1>2. PresetTyped'
  <2>1. unsure' \in BOOLEAN /\ confirmed' \in BOOLEAN /\ midway' \in BOOLEAN
    BY <1>1, Zenon DEF PresetTyped
  <2>2. read' \in Seq(Preset!Modes) /\ Len(read') <= 5
    BY <1>1
  <2> QED BY <1>1, <2>1, <2>2 DEF PresetTyped, Preset!Modes
<1>3. Unlogged' = {}
  BY <1>1 DEF Unlogged
<1>4. LatestIsKept'
  <2> SUFFICES ASSUME ~unsure' PROVE NewestRow' = latest'
    BY <1>1, <1>3 DEF LatestIsKept
  <2>1. ~unsure /\ Unlogged = {}
    BY <1>1 DEF Unlogged
  <2> QED BY <1>1, <2>1 DEF LatestIsKept, NewestRow
<1>5. DownIsQuiet'
  BY <1>1, <1>3 DEF DownIsQuiet
<1>6. ScalperConfirmed'
  <2>1. None # "scalper"
    BY PresetAssumption DEF Preset!PresetConstants, Preset!Modes
  <2> QED BY <1>1, <2>1 DEF ScalperConfirmed
<1>7. ReadInForce'
  BY <1>1 DEF ReadInForce
<1> QED BY <1>2, <1>4, <1>5, <1>6, <1>7

LEMMA PresetRehydrate == PresetInv /\ Preset!Rehydrate => PresetInv'
<1> SUFFICES ASSUME PresetInv, Preset!Rehydrate PROVE PresetInv'
  OBVIOUS
<1> USE DEF PresetInv
<1>1. /\ preset = None
      /\ \/ preset' = NewestRow /\ unsure' = unsure
         \/ preset' = "balanced" /\ unsure' = TRUE
      /\ UNCHANGED <<logged, setting, latest, confirmed, read, midway, today>>
  BY DEF Preset!Rehydrate, NewestRow
<1>2. Unlogged = {} /\ read = <<>>
  BY <1>1 DEF DownIsQuiet
<1>3. /\ NewestRow \in Preset!Modes
      /\ NewestRow = "scalper" => \E i \in 1 .. Len(logged) : logged[i] = "scalper"
  <2>1. CASE logged = <<>>
    BY <2>1 DEF NewestRow, Preset!Modes
  <2>2. CASE logged # <<>>
    <3>1. Len(logged) \in 1 .. Len(logged)
      BY <2>2 DEF PresetTyped
    <3> QED BY <2>2, <3>1 DEF NewestRow, PresetTyped
  <2> QED BY <2>1, <2>2
<1>4. PresetTyped'
  <2>1. preset' \in Preset!Modes
    BY <1>1, <1>3 DEF Preset!Modes
  <2>2. unsure' \in BOOLEAN /\ confirmed' \in BOOLEAN /\ midway' \in BOOLEAN
    BY <1>1, Zenon DEF PresetTyped
  <2> QED BY <1>1, <2>1, <2>2 DEF PresetTyped, Preset!Modes
<1>5. LatestIsKept'
  <2> SUFFICES ASSUME ~unsure'
               PROVE  preset' = latest' /\ Unlogged' = {} /\ NewestRow' = latest'
    BY DEF LatestIsKept
  <2>1. ~unsure /\ preset' = NewestRow
    BY <1>1
  <2>2. NewestRow = latest
    BY <1>2, <2>1 DEF LatestIsKept
  <2> QED BY <1>1, <1>2, <2>1, <2>2 DEF Unlogged, NewestRow
<1>6. DownIsQuiet'
  BY <1>1, <1>2 DEF DownIsQuiet, Unlogged
<1>7. ScalperConfirmed'
  BY <1>1, <1>3 DEF ScalperConfirmed
<1>8. ReadInForce'
  BY <1>1, <1>2 DEF ReadInForce
<1> QED BY <1>4, <1>5, <1>6, <1>7, <1>8

\* The signal reads the preset at its next stage.
LEMMA PresetPass == PresetInv /\ Preset!Pass => PresetInv'
<1> SUFFICES ASSUME PresetInv, Preset!Pass PROVE PresetInv'
  OBVIOUS
<1> USE DEF PresetInv
<1>1. /\ preset # None /\ Len(read) < 5
      /\ Len(read) = 2 => today < DailyCap[preset]
      /\ read' = Append(read, preset)
      /\ today' = IF Len(read') = 5 THEN today + 1 ELSE today
      /\ UNCHANGED <<preset, logged, setting, latest, confirmed, unsure, midway>>
  <2>1. Len(read) \in Nat /\ Len(Preset!Stages) = 5 /\ Preset!Stages[3] = "frequency"
    BY DEF PresetTyped, Preset!Stages
  <2>2. Len(read) < 5
    BY <2>1 DEF Preset!Pass
  <2>3. today' = IF Len(read') = 5 THEN today + 1 ELSE today
    BY <2>1 DEF Preset!Pass
  <2>4. Len(read) = 2 => today < DailyCap[preset]
    BY <2>1 DEF Preset!Pass
  <2> QED BY <2>2, <2>3, <2>4 DEF Preset!Pass
<1>2. preset \in Preset!Modes /\ DailyCap[preset] \in Nat
  BY <1>1, PresetAssumption DEF PresetTyped, Preset!PresetConstants
<1>3. /\ Len(read') = Len(read) + 1 /\ Len(read) \in Nat /\ read' # <<>>
      /\ \A i \in 1 .. Len(read) : read'[i] = read[i]
      /\ read'[Len(read')] = preset
      /\ read' \in Seq(Preset!Modes)
  BY <1>1, <1>2 DEF PresetTyped
<1>4. PresetTyped'
  <2>1. unsure' \in BOOLEAN /\ confirmed' \in BOOLEAN /\ midway' \in BOOLEAN
    BY <1>1, Zenon DEF PresetTyped
  <2>2. today' \in Nat /\ Len(read') <= 5
    BY <1>1, <1>3 DEF PresetTyped
  <2> QED BY <1>1, <1>3, <2>1, <2>2 DEF PresetTyped, Preset!Modes
<1>5. LatestIsKept' /\ DownIsQuiet' /\ ScalperConfirmed'
  <2>1. LatestIsKept'
    BY <1>1 DEF LatestIsKept, Unlogged, NewestRow
  <2>2. DownIsQuiet' /\ ScalperConfirmed'
    BY <1>1 DEF DownIsQuiet, ScalperConfirmed
  <2> QED BY <2>1, <2>2
<1>6. ReadInForce'
  <2> SUFFICES ASSUME ~midway
               PROVE  /\ \A i \in 1 .. Len(read') : read'[i] = preset
                      /\ Len(read') \in 3 .. 4 => today' < DailyCap[preset]
                      /\ Len(read') = 5 => today' <= DailyCap[preset]
    BY <1>1 DEF ReadInForce
  <2>1. \A i \in 1 .. Len(read) : read[i] = preset
    BY DEF ReadInForce, PresetTyped
  <2>2. \A i \in 1 .. Len(read') : read'[i] = preset
    <3> SUFFICES ASSUME NEW i \in 1 .. Len(read') PROVE read'[i] = preset
      OBVIOUS
    <3>1. i \in 1 .. Len(read) \/ i = Len(read')
      BY <1>3
    <3> QED BY <1>3, <2>1, <3>1
  <2>3. Len(read) \in 2 .. 4 => today < DailyCap[preset]
    <3>1. CASE Len(read) = 2
      BY <1>1, <3>1
    <3>2. CASE Len(read) \in 3 .. 4
      <4>1. read # <<>>
        BY <3>2
      <4> QED BY <3>2, <4>1 DEF ReadInForce
    <3> QED BY <3>1, <3>2
  <2>4. today \in Nat
    BY DEF PresetTyped
  <2> DEFINE n == Len(read)
             m == Len(read')
  <2>5. m = n + 1 /\ n \in Nat /\ n < 5
    BY <1>1, <1>3, Zenon
  <2>6. today' = IF m = 5 THEN today + 1 ELSE today
    BY <1>1, Zenon
  <2> HIDE DEF n, m
  <2>7. n = 4 <=> m = 5
    BY <2>5
  <2>8. m \in 3 .. 4 => n \in 2 .. 3
    BY <2>5
  <2>9. CASE Len(read') = 5
    <3>1. today' = today + 1 /\ Len(read) = 4
      BY <2>6, <2>7, <2>9 DEF n, m
    <3> QED BY <1>2, <2>2, <2>3, <2>4, <2>9, <3>1
  <2>10. CASE Len(read') # 5
    <3>1. today' = today /\ (Len(read') \in 3 .. 4 => Len(read) \in 2 .. 3)
      BY <2>6, <2>8, <2>10 DEF n, m
    <3> QED BY <2>2, <2>3, <2>10, <3>1
  <2> QED BY <2>9, <2>10
<1> QED BY <1>4, <1>5, <1>6

LEMMA PresetKept == PresetInv /\ [Preset!Next]_modeVars => PresetInv'
<1> SUFFICES ASSUME PresetInv, [Preset!Next]_modeVars PROVE PresetInv'
  OBVIOUS
<1>1. CASE Preset!NextSignal \/ UNCHANGED modeVars
  <2>1. /\ UNCHANGED <<preset, logged, setting, latest, confirmed, unsure, today>>
        /\ (read' = <<>> /\ midway' = FALSE) \/ UNCHANGED <<read, midway>>
    BY <1>1 DEF Preset!NextSignal, modeVars
  <2>2. PresetTyped'
    <3>1. read' \in Seq(Preset!Modes) /\ Len(read') <= 5
      <4>1. read \in Seq(Preset!Modes) /\ Len(read) <= 5
        BY DEF PresetInv, PresetTyped
      <4>2. CASE read' = <<>>
        BY <4>2
      <4> QED BY <2>1, <4>1, <4>2
    <3>2. unsure' \in BOOLEAN /\ confirmed' \in BOOLEAN /\ midway' \in BOOLEAN
      BY <2>1, Zenon DEF PresetInv, PresetTyped
    <3> QED BY <2>1, <3>1, <3>2 DEF PresetInv, PresetTyped, Preset!Modes
  <2>3. LatestIsKept'
    BY <2>1 DEF PresetInv, LatestIsKept, Unlogged, NewestRow
  <2>4. DownIsQuiet' /\ ScalperConfirmed'
    BY <2>1 DEF PresetInv, DownIsQuiet, ScalperConfirmed, Unlogged
  <2>5. ReadInForce'
    BY <2>1 DEF PresetInv, ReadInForce
  <2> QED BY <2>2, <2>3, <2>4, <2>5 DEF PresetInv
<1> QED BY <1>1, PresetSet, PresetLog, PresetCrash, PresetRehydrate, PresetPass
        DEF Preset!Next

LEMMA PresetHolds == PresetInv => Preset!ModeSurvives /\ Preset!OnePresetOrMidway
<1> SUFFICES ASSUME PresetInv PROVE Preset!ModeSurvives /\ Preset!OnePresetOrMidway
  OBVIOUS
<1>1. Preset!ModeSurvives
  BY DEF PresetInv, LatestIsKept, ScalperConfirmed, Preset!ModeSurvives
<1>2. ASSUME Len(read) = 5, ~midway
      PROVE  /\ \A i \in DOMAIN read : read[i] = read[Len(read)]
             /\ today <= DailyCap[read[Len(read)]]
  <2>1. read # <<>> /\ DOMAIN read = 1 .. Len(read) /\ Len(read) \in 1 .. Len(read)
    BY <1>2 DEF PresetInv, PresetTyped
  <2>2. (\A i \in 1 .. Len(read) : read[i] = preset) /\ today <= DailyCap[preset]
    BY <1>2, <2>1 DEF PresetInv, ReadInForce
  <2> QED BY <2>1, <2>2
<1> QED BY <1>1, <1>2 DEF Preset!OnePresetOrMidway, Preset!Stages

-----------------------------------------------------------------------------
(* SignalScoring: the score of an equity.                                  *)

Indicators == {"rsi", "bands", "stoch", "macd", "cross", "trend", "vwap", "aligned", "volume"}
IsBallot(v) == DOMAIN v = Indicators /\ \A i \in Indicators : v[i] \in Scoring!Vote

LEMMA WeightsArePositive ==
  /\ DOMAIN Scoring!Weight = Indicators
  /\ \A i \in Indicators : Scoring!Weight[i] \in Nat
<1>1. DOMAIN Scoring!Weight = Indicators
  BY DEF Scoring!Weight, Indicators
<1>2. /\ Scoring!Weight["rsi"] = 15 /\ Scoring!Weight["bands"] = 15
      /\ Scoring!Weight["stoch"] = 10 /\ Scoring!Weight["macd"] = 8
      /\ Scoring!Weight["cross"] = 20 /\ Scoring!Weight["trend"] = 5
      /\ Scoring!Weight["vwap"] = 6 /\ Scoring!Weight["aligned"] = 8
      /\ Scoring!Weight["volume"] = 7
  BY DEF Scoring!Weight
<1> QED BY <1>1, <1>2 DEF Indicators

LEMMA VotesAreBallots ==
  ASSUME NEW r \in Readings
  PROVE  IsBallot(Scoring!Votes(r)) /\ r.flow \in Int
<1> DEFINE b == Scoring!Votes(r)
<1>1. {r.macd, r.trend, r.vwap, r.aligned} \subseteq Scoring!Vote /\ r.flow \in Int
  BY ScoringAssumption DEF Scoring!ScoringConstants
<1>2. \A x, low, high : Scoring!Oscillator(x, low, high) \in Scoring!Vote
  BY DEF Scoring!Oscillator, Scoring!Vote
<1>3. "none" \in Scoring!Vote
  BY DEF Scoring!Vote
<1>4. b = [rsi    |-> b.rsi, bands |-> b.bands, stoch |-> b.stoch, macd |-> b.macd,
           cross  |-> b.cross, trend |-> b.trend, vwap |-> b.vwap, aligned |-> b.aligned,
           volume |-> b.volume]
  BY DEF Scoring!Votes
<1>5. /\ b.rsi \in Scoring!Vote /\ b.bands \in Scoring!Vote /\ b.stoch \in Scoring!Vote
      /\ b.macd \in Scoring!Vote /\ b.cross \in Scoring!Vote /\ b.trend \in Scoring!Vote
      /\ b.vwap \in Scoring!Vote /\ b.aligned \in Scoring!Vote /\ b.volume \in Scoring!Vote
  BY <1>1, <1>2, <1>3 DEF Scoring!Votes
<1> HIDE DEF b
<1>6. DOMAIN b = Indicators
  BY <1>4 DEF Indicators
<1>7. \A i \in Indicators : b[i] \in Scoring!Vote
  BY <1>5 DEF Indicators
<1>8. IsBallot(b)
  BY <1>6, <1>7 DEF IsBallot
<1>9. IsBallot(Scoring!Votes(r))
  BY <1>8, Zenon DEF b
<1> QED BY <1>1, <1>9

LEMMA IndicatorsAreFinite == IsFiniteSet(Indicators)
<1>1. \A set, x : IsFiniteSet(set) => IsFiniteSet(set \cup {x})
  BY FS_AddElement
<1>2. IsFiniteSet({} \cup {"rsi"} \cup {"bands"} \cup {"stoch"} \cup {"macd"} \cup {"cross"}
                  \cup {"trend"} \cup {"vwap"} \cup {"aligned"} \cup {"volume"})
  BY <1>1, FS_EmptySet, Zenon
<1>3. Indicators = {} \cup {"rsi"} \cup {"bands"} \cup {"stoch"} \cup {"macd"} \cup {"cross"}
                   \cup {"trend"} \cup {"vwap"} \cup {"aligned"} \cup {"volume"}
  BY DEF Indicators
<1> QED BY <1>2, <1>3

Counted(v, d) == [i \in Indicators |-> IF v[i] = d THEN Scoring!Weight[i] ELSE 0]
Tally(v, d) == SumFunctionOnSet(Counted(v, d), Indicators)

LEMMA TalliesAreSums ==
  ASSUME NEW v, IsBallot(v), NEW d
  PROVE  /\ Tally(v, d) \in Nat
         /\ \A flow : Scoring!Points(v, flow, d) = Tally(v, d) + Scoring!FlowPoints(flow, d)
<1>1. \A f : Scoring!SumFunctionOnSet(f, Indicators) = SumFunctionOnSet(f, Indicators)
  BY DEF SumFunctionOnSet, FoldFunctionOnSet, MapThenFoldSet, Scoring!SumFunctionOnSet,
         Scoring!FoldFunctionOnSet, Scoring!MapThenFoldSet
<1>2. [i \in DOMAIN v |-> IF v[i] = d THEN Scoring!Weight[i] ELSE 0] = Counted(v, d)
  BY DEF IsBallot, Counted
<1>3. \A flow : Scoring!Points(v, flow, d) = Tally(v, d) + Scoring!FlowPoints(flow, d)
  BY <1>1, <1>2 DEF Scoring!Points, IsBallot, Tally
<1>4. \A i \in Indicators : Counted(v, d)[i] \in Nat
  BY WeightsArePositive DEF Counted
<1>5. Tally(v, d) \in Int /\ Tally(v, d) >= 0
  <2> DEFINE f == Counted(v, d)
             zero == [i \in Indicators |-> 0]
  <2>1. \A i \in Indicators : f[i] \in Int /\ zero[i] \in Int /\ zero[i] <= f[i]
    BY <1>4
  <2>2. SumFunctionOnSet(f, Indicators) \in Int
    <3> HIDE DEF f
    <3> QED BY <2>1, IndicatorsAreFinite, SumsOfParts
  <2>3. SumFunctionOnSet(zero, Indicators) <= SumFunctionOnSet(f, Indicators)
    <3> HIDE DEF f, zero
    <3> QED BY <2>1, IndicatorsAreFinite, SumsAreMonotone
  <2>4. SumFunctionOnSet(zero, Indicators) = 0
    <3>1. \A i \in Indicators : zero[i] = 0
      OBVIOUS
    <3> HIDE DEF zero
    <3> QED BY <3>1, IndicatorsAreFinite, SumsOfZeros
  <2> QED BY <2>2, <2>3, <2>4 DEF Tally
<1> QED BY <1>3, <1>5

LEMMA FlowCounts ==
  ASSUME NEW flow \in Int
  PROVE  /\ \A d : Scoring!FlowPoints(flow, d) \in Nat
         /\ Scoring!FlowPoints(-flow, "bull") = Scoring!FlowPoints(flow, "bear")
         /\ Scoring!FlowPoints(-flow, "bear") = Scoring!FlowPoints(flow, "bull")
<1>1. \A n \in Int : Scoring!Max({0, n}) = IF n >= 0 THEN n ELSE 0
  <2> SUFFICES ASSUME NEW n \in Int
               PROVE  Scoring!Max({0, n}) = IF n >= 0 THEN n ELSE 0
    OBVIOUS
  <2> DEFINE m == IF n >= 0 THEN n ELSE 0
  <2>1. m \in {0, n} /\ \A y \in {0, n} : m >= y
    OBVIOUS
  <2>2. Scoring!Max({0, n}) \in {0, n} /\ \A y \in {0, n} : Scoring!Max({0, n}) >= y
    BY <2>1 DEF Scoring!Max
  <2> QED BY <2>2
<1>2. 6 * flow \in Int /\ -6 * flow \in Int /\ 6 * (-flow) = -6 * flow /\ -6 * (-flow) = 6 * flow
  OBVIOUS
<1>3. \A d : Scoring!FlowPoints(flow, d)
              = IF d = "bull" THEN Scoring!Max({0, 6 * flow}) ELSE Scoring!Max({0, -6 * flow})
  BY DEF Scoring!FlowPoints
<1>4. \A d : Scoring!FlowPoints(-flow, d)
              = IF d = "bull" THEN Scoring!Max({0, -6 * flow}) ELSE Scoring!Max({0, 6 * flow})
  BY <1>2 DEF Scoring!FlowPoints
<1>5. Scoring!Max({0, 6 * flow}) \in Nat /\ Scoring!Max({0, -6 * flow}) \in Nat
  BY <1>1, <1>2
<1> QED BY <1>3, <1>4, <1>5

\* Points from a ballot are natural numbers.
LEMMA PointsAreCounts ==
  ASSUME NEW v, IsBallot(v), NEW flow \in Int, NEW d
  PROVE  Scoring!Points(v, flow, d) \in Nat
<1>1. Tally(v, d) \in Nat /\ Scoring!Points(v, flow, d) = Tally(v, d) + Scoring!FlowPoints(flow, d)
  BY TalliesAreSums
<1>2. Scoring!FlowPoints(flow, d) \in Nat
  BY FlowCounts
<1> QED BY <1>1, <1>2

LEMMA PointsTurnAbout ==
  ASSUME NEW v, IsBallot(v), NEW flow \in Int
  PROVE  LET w == [i \in DOMAIN v |-> Scoring!Opposite(v[i])]
         IN  /\ Scoring!Points(w, -flow, "bull") = Scoring!Points(v, flow, "bear")
             /\ Scoring!Points(w, -flow, "bear") = Scoring!Points(v, flow, "bull")
<1> DEFINE w == [i \in DOMAIN v |-> Scoring!Opposite(v[i])]
<1>1. \A x \in Scoring!Vote : /\ Scoring!Opposite(x) \in Scoring!Vote
                              /\ Scoring!Opposite(x) = "bull" <=> x = "bear"
                              /\ Scoring!Opposite(x) = "bear" <=> x = "bull"
  BY DEF Scoring!Opposite, Scoring!Vote
<1>2. IsBallot(w) /\ \A i \in Indicators : w[i] = Scoring!Opposite(v[i])
  BY <1>1 DEF IsBallot
<1>3. Counted(w, "bull") = Counted(v, "bear") /\ Counted(w, "bear") = Counted(v, "bull")
  <2> HIDE DEF w
  <2> QED BY <1>1, <1>2 DEF Counted, IsBallot
<1> HIDE DEF w
<1>4. Tally(w, "bull") = Tally(v, "bear") /\ Tally(w, "bear") = Tally(v, "bull")
  BY <1>3 DEF Tally
<1>5. -flow \in Int
  OBVIOUS
<1> QED BY <1>2, <1>4, <1>5, TalliesAreSums, FlowCounts DEF w

\* A vote that turns to one side adds to its points and takes none from it.
LEMMA PointsMove ==
  ASSUME NEW v, IsBallot(v), NEW flow \in Int, NEW i \in Indicators,
         NEW side \in {"bull", "bear"}, NEW other \in {"bull", "bear"}, side # other
  PROVE  LET w == [v EXCEPT ![i] = side]
         IN  /\ IsBallot(w)
             /\ Scoring!Points(w, flow, side) >= Scoring!Points(v, flow, side)
             /\ Scoring!Points(w, flow, other) <= Scoring!Points(v, flow, other)
<1> DEFINE w == [v EXCEPT ![i] = side]
<1>1. IsBallot(w) /\ w[i] = side /\ \A j \in Indicators \ {i} : w[j] = v[j]
  BY DEF IsBallot, Scoring!Vote
<1> HIDE DEF w
<1>2. \A j \in Indicators : /\ {Counted(v, side)[j], Counted(w, side)[j]} \subseteq Int
                            /\ {Counted(v, other)[j], Counted(w, other)[j]} \subseteq Int
                            /\ Counted(v, side)[j] <= Counted(w, side)[j]
                            /\ Counted(w, other)[j] <= Counted(v, other)[j]
  BY <1>1, WeightsArePositive DEF Counted
<1>3. Tally(v, side) <= Tally(w, side) /\ Tally(w, other) <= Tally(v, other)
  BY <1>2, IndicatorsAreFinite, SumsAreMonotone DEF Tally
<1>4. /\ Tally(v, side) \in Nat /\ Tally(w, side) \in Nat
      /\ Tally(v, other) \in Nat /\ Tally(w, other) \in Nat
  BY <1>1, TalliesAreSums
<1>5. Scoring!FlowPoints(flow, side) \in Nat /\ Scoring!FlowPoints(flow, other) \in Nat
  BY FlowCounts
<1>6. /\ Scoring!Points(v, flow, side) = Tally(v, side) + Scoring!FlowPoints(flow, side)
      /\ Scoring!Points(w, flow, side) = Tally(w, side) + Scoring!FlowPoints(flow, side)
      /\ Scoring!Points(v, flow, other) = Tally(v, other) + Scoring!FlowPoints(flow, other)
      /\ Scoring!Points(w, flow, other) = Tally(w, other) + Scoring!FlowPoints(flow, other)
  BY <1>1, TalliesAreSums
<1>7. /\ Scoring!Points(w, flow, side) >= Scoring!Points(v, flow, side)
      /\ Scoring!Points(w, flow, other) <= Scoring!Points(v, flow, other)
  BY <1>3, <1>4, <1>5, <1>6
<1> QED BY <1>1, <1>7 DEF w
Extra(hi) == IF hi <= 10 THEN 0 ELSE IF hi >= 90 THEN 80 ELSE hi - 10
Clears(hi, lo) == 100 * (hi - lo) >= 6 * (IF hi + lo >= 10 THEN hi + lo ELSE 10)
Sure(hi, lo) == (25 * hi * (1040 + 7 * Extra(hi))) \div (4 * (hi + lo))

LEMMA TwoOfThem ==
  ASSUME NEW a \in Int, NEW b \in Int
  PROVE  /\ Scoring!Max({a, b}) = (IF a >= b THEN a ELSE b)
         /\ Scoring!Min({a, b}) = (IF a <= b THEN a ELSE b)
<1> DEFINE hi == IF a >= b THEN a ELSE b
           lo == IF a <= b THEN a ELSE b
<1>1. /\ hi \in {a, b} /\ \A y \in {a, b} : hi >= y
      /\ lo \in {a, b} /\ \A y \in {a, b} : lo <= y
  OBVIOUS
<1>2. Scoring!Max({a, b}) \in {a, b} /\ \A y \in {a, b} : Scoring!Max({a, b}) >= y
  BY <1>1 DEF Scoring!Max
<1>3. Scoring!Min({a, b}) \in {a, b} /\ \A y \in {a, b} : Scoring!Min({a, b}) <= y
  BY <1>1 DEF Scoring!Min
<1> QED BY <1>2, <1>3

\* Judge, by the points of the stronger and of the weaker side.
LEMMA JudgeIs ==
  ASSUME NEW bull \in Nat, NEW bear \in Nat
  PROVE  LET hi == IF bull >= bear THEN bull ELSE bear
             lo == IF bull >= bear THEN bear ELSE bull
         IN  /\ Scoring!Judge(bull, bear).action
                  = IF ~Clears(hi, lo) THEN "HOLD" ELSE IF bull > bear THEN "BUY" ELSE "SELL"
             /\ Scoring!Judge(bull, bear).confidence = IF hi + lo = 0 THEN 0 ELSE Sure(hi, lo)
<1> DEFINE hi == IF bull >= bear THEN bull ELSE bear
           lo == IF bull >= bear THEN bear ELSE bull
           top == Scoring!Max({bull, bear})
           total == bull + bear
           rest == Scoring!Max({top - 10, 0})
           extra == Scoring!Min({rest, 80})
<1>1. hi \in Nat /\ lo \in Nat /\ hi + lo = total /\ hi >= lo
  OBVIOUS
<1>2. top = hi
  BY TwoOfThem
<1>3. extra = Extra(hi)
  <2>1. top - 10 \in Int
    BY <1>1, <1>2
  <2>2. rest = IF hi - 10 >= 0 THEN hi - 10 ELSE 0
    BY <1>2, <2>1, TwoOfThem
  <2>3. rest \in Int
    BY <1>1, <2>2
  <2> HIDE DEF hi, lo, rest
  <2>4. extra = IF rest <= 80 THEN rest ELSE 80
    BY <2>3, TwoOfThem
  <2> HIDE DEF extra
  <2> QED BY <1>1, <2>2, <2>4 DEF Extra
<1>4. Scoring!Max({total, 10}) = IF total >= 10 THEN total ELSE 10
  BY TwoOfThem
<1>5. Scoring!Judge(bull, bear)
        = [action     |-> IF total = 0
                             \/ 100 * (top - (total - top)) < 6 * Scoring!Max({total, 10})
                          THEN "HOLD" ELSE IF bull > bear THEN "BUY" ELSE "SELL",
           confidence |-> IF total = 0 THEN 0
                          ELSE (25 * top * (1040 + 7 * extra)) \div (4 * total)]
  BY DEF Scoring!Judge
<1>6. total = 0 \/ 100 * (top - (total - top)) < 6 * Scoring!Max({total, 10}) <=> ~Clears(hi, lo)
  <2> HIDE DEF hi, lo, top, total
  <2>1. total - hi = lo /\ total \in Nat
    BY <1>1
  <2> DEFINE margin == Scoring!Max({total, 10})
  <2>2. margin = (IF hi + lo >= 10 THEN hi + lo ELSE 10) /\ margin \in Int
    BY <1>1, <1>4
  <2> HIDE DEF margin
  <2>3. (total = 0 \/ 100 * (hi - lo) < 6 * margin) <=> ~(100 * (hi - lo) >= 6 * margin)
    BY <1>1, <2>1, <2>2
  <2>4. top - (total - top) = hi - lo
    BY <1>2, <2>1
  <2>5. Clears(hi, lo) <=> 100 * (hi - lo) >= 6 * margin
    BY <2>2, Zenon DEF Clears
  <2> QED BY <2>3, <2>4, <2>5, Zenon DEF margin
<1> HIDE DEF hi, lo, top, total, extra
<1>7. (IF total = 0 THEN 0 ELSE (25 * top * (1040 + 7 * extra)) \div (4 * total))
         = IF hi + lo = 0 THEN 0 ELSE Sure(hi, lo)
  BY <1>1, <1>2, <1>3 DEF Sure
<1> QED BY <1>5, <1>6, <1>7 DEF hi, lo

\* More points for the stronger side and fewer for the other: what clears the margin
\* still does, with no less confidence.
LEMMA MorePointsHelp ==
  ASSUME NEW hi \in Nat, NEW lo \in Nat, NEW hj \in Nat, NEW lj \in Nat,
         hi <= hj, lj <= lo, Clears(hi, lo)
  PROVE  Clears(hj, lj) /\ hi > lo /\ hj > lj /\ Sure(hi, lo) <= Sure(hj, lj)
<1>1. hi > lo /\ Clears(hj, lj)
  BY DEF Clears
<1>2. hi > 0 /\ hj > 0 /\ hj > lj
  BY <1>1
<1> DEFINE e == 1040 + 7 * Extra(hi)
           f == 1040 + 7 * Extra(hj)
<1>3. e \in Nat /\ f \in Nat /\ e <= f
  BY DEF Extra
<1> HIDE DEF e, f
<1>4. hi * (hj + lj) <= hj * (hi + lo)
  <2>1. hi * lj <= hj * lo
    <3>1. \A a \in Nat, b \in Nat, c \in Nat : b <= c => a * b <= a * c /\ b * a <= c * a
      OBVIOUS
    <3>2. hi * lj <= hi * lo /\ hi * lo <= hj * lo
      BY <3>1
    <3>3. hi * lj \in Nat /\ hi * lo \in Nat /\ hj * lo \in Nat
      OBVIOUS
    <3> QED BY <3>2, <3>3
  <2>2. hi * (hj + lj) = hi * hj + hi * lj /\ hj * (hi + lo) = hi * hj + hj * lo
    OBVIOUS
  <2>3. hi * hj \in Nat /\ hi * lj \in Nat /\ hj * lo \in Nat
    OBVIOUS
  <2> QED BY <2>1, <2>2, <2>3
<1> DEFINE a == 25 * hi * e
           b == 25 * hj * f
           c == 4 * (hi + lo)
           d == 4 * (hj + lj)
<1>5. a \in Nat /\ b \in Nat /\ c \in Nat /\ d \in Nat /\ c > 0 /\ d > 0
  BY <1>2, <1>3
<1>6. a * d <= b * c
  <2> DEFINE x == hi * (hj + lj)
             y == hj * (hi + lo)
  <2>1. x \in Nat /\ y \in Nat /\ x <= y
    BY <1>4
  <2>2. a * d = 100 * (x * e)
    BY <1>3
  <2>3. b * c = 100 * (y * f)
    BY <1>3
  <2> HIDE DEF a, b, c, d, x, y
  <2>4. x * e <= y * e /\ y * e <= y * f
    <3>1. \A p \in Nat, q \in Nat, r \in Nat : q <= r => p * q <= p * r /\ q * p <= r * p
      OBVIOUS
    <3> QED BY <1>3, <2>1, <3>1
  <2>5. x * e \in Nat /\ y * e \in Nat /\ y * f \in Nat
    BY <1>3, <2>1
  <2> QED BY <2>2, <2>3, <2>4, <2>5
<1> HIDE DEF a, b, c, d
<1>7. a \div c <= b \div d
  <2> DEFINE m == a \div c
  <2>1. \A p \in Nat : \A q \in Nat : q > 0 =>
          p \div q \in Nat /\ q * (p \div q) <= p /\ p < q * (p \div q) + q
    OBVIOUS
  <2>2. m \in Nat /\ c * m <= a
    BY <1>5, <2>1
  <2> HIDE DEF m
  <2>3. (c * m) * d <= a * d
    <3>1. \A p \in Nat, q \in Nat, r \in Nat : q <= r => q * p <= r * p
      OBVIOUS
    <3>2. c * m \in Nat
      BY <1>5, <2>2
    <3> QED BY <1>5, <2>2, <3>1, <3>2
  <2>4. (d * m) * c <= b * c
    <3>1. (c * m) * d = (d * m) * c
      BY <1>5, <2>2
    <3>2. (c * m) * d \in Nat /\ a * d \in Nat /\ b * c \in Nat
      BY <1>5, <2>2
    <3> QED BY <1>6, <2>3, <3>1, <3>2
  <2>5. d * m <= b
    <3> DEFINE n == d * m
    <3>1. n \in Nat
      BY <1>5, <2>2
    <3>2. n * c <= b * c
      BY <2>4
    <3> HIDE DEF n
    <3>3. ASSUME b < n PROVE FALSE
      <4>1. \A p \in Nat, q \in Nat, r \in Nat : q + 1 <= r => q * p + p <= r * p
        OBVIOUS
      <4>2. b * c + c <= n * c
        BY <1>5, <3>1, <3>3, <4>1
      <4>3. b * c \in Nat /\ n * c \in Nat
        BY <1>5, <3>1
      <4> QED BY <1>5, <3>2, <4>2, <4>3
    <3>4. n <= b
      BY <1>5, <3>1, <3>3
    <3> QED BY <3>4 DEF n
  <2>6. ASSUME b \div d < m PROVE FALSE
    <3> DEFINE k == b \div d
    <3>1. k \in Nat /\ b < d * k + d
      BY <1>5, <2>1
    <3> HIDE DEF k
    <3>2. k + 1 <= m
      BY <2>2, <2>6, <3>1 DEF k
    <3>3. d * k + d <= d * m
      <4>1. \A p \in Nat, q \in Nat, r \in Nat : q + 1 <= r => p * q + p <= p * r
        OBVIOUS
      <4> QED BY <1>5, <2>2, <3>1, <3>2, <4>1
    <3>4. d * k \in Nat /\ d * m \in Nat
      BY <1>5, <2>2, <3>1
    <3> QED BY <1>5, <2>5, <3>1, <3>3, <3>4
  <2>7. b \div d \in Nat
    BY <1>5, <2>1
  <2> QED BY <2>2, <2>6, <2>7 DEF m
<1> QED BY <1>1, <1>2, <1>7 DEF Sure, a, b, c, d, e, f
\* What the gate goes by, and what the score and its plan are made of.
Answer == [gated : BOOLEAN, known : BOOLEAN, moved : BOOLEAN]

AnswerFits ==
  earnings # None =>
    earnings \in Answer /\ (earnings.known /\ ~earnings.moved => earnings.gated = soon)

ClearedFits == cleared # None /\ cleared.soon => ~cleared.by.known \/ cleared.by.moved

ScoreFits ==
  \/ reading = None /\ signal = None
  \/ /\ reading \in Readings
     /\ signal.score = Scoring!Scored(Scoring!Votes(reading), reading.flow)
     /\ signal.plan # None => \E q \in Quotations : signal.plan = Scoring!Planned(q)

EquityInv == soon \in BOOLEAN /\ AnswerFits /\ ClearedFits /\ ScoreFits

LEMMA EquityStarts == Scoring!EquityInit => EquityInv
BY DEF Scoring!EquityInit, EquityInv, AnswerFits, ClearedFits, ScoreFits

LEMMA EquityKept ==
  ASSUME EquityInv, [Scoring!EquityNext]_equityVars
  PROVE  EquityInv'
<1>1. CASE Scoring!DateMoves
  <2>1. soon' = ~soon /\ UNCHANGED <<reading, signal, cleared>>
        /\ earnings' = IF earnings = None THEN None ELSE [earnings EXCEPT !.moved = TRUE]
    BY <1>1 DEF Scoring!DateMoves
  <2>2. soon' \in BOOLEAN /\ ClearedFits' /\ ScoreFits'
    BY <2>1 DEF EquityInv, ClearedFits, ScoreFits
  <2>3. AnswerFits'
    <3>1. CASE earnings = None
      BY <2>1, <3>1 DEF AnswerFits
    <3>2. CASE earnings # None
      <4>1. earnings' = [earnings EXCEPT !.moved = TRUE]
        BY <2>1, <3>2
      <4>2. earnings \in Answer
        BY <3>2 DEF EquityInv, AnswerFits
      <4>3. earnings' \in Answer /\ earnings'.moved
        BY <4>1, <4>2 DEF Answer
      <4> QED BY <4>3 DEF AnswerFits
    <3> QED BY <3>1, <3>2
  <2> QED BY <2>2, <2>3 DEF EquityInv
<1>2. CASE Scoring!Expire
  BY <1>2 DEF Scoring!Expire, EquityInv, AnswerFits, ClearedFits, ScoreFits
<1>3. ASSUME NEW a \in Scoring!Answers
      PROVE  a \in Answer /\ (a.known /\ ~a.moved => a.gated = soon)
  <2>1. CASE earnings # None
    BY <2>1 DEF Scoring!Answers, EquityInv, AnswerFits
  <2>2. CASE earnings = None
    <3>1. a = [gated |-> soon, known |-> TRUE, moved |-> FALSE]
          \/ a = [gated |-> FALSE, known |-> FALSE, moved |-> FALSE]
      BY <2>2 DEF Scoring!Answers
    <3>2. CASE a = [gated |-> soon, known |-> TRUE, moved |-> FALSE]
      <4>1. soon \in BOOLEAN
        BY DEF EquityInv
      <4>2. a \in Answer
        BY <3>2, <4>1, Zenon DEF Answer
      <4>3. a.gated = soon
        BY <3>2
      <4> QED BY <4>2, <4>3
    <3>3. CASE a = [gated |-> FALSE, known |-> FALSE, moved |-> FALSE]
      <4>1. a \in Answer
        BY <3>3, Zenon DEF Answer
      <4>2. ~a.known
        BY <3>3
      <4> QED BY <4>1, <4>2
    <3> QED BY <3>1, <3>2, <3>3
  <2> QED BY <2>1, <2>2
<1>4. CASE Scoring!Gated
  BY <1>3, <1>4 DEF Scoring!Gated, EquityInv, AnswerFits, ClearedFits, ScoreFits
<1>5. CASE Scoring!Scan
  BY <1>3, <1>5 DEF Scoring!Scan, EquityInv, AnswerFits, ClearedFits, ScoreFits
<1>6. CASE Scoring!Again
  BY <1>6 DEF Scoring!Again, EquityInv, AnswerFits, ClearedFits, ScoreFits
<1>7. CASE UNCHANGED equityVars
  BY <1>7 DEF equityVars, EquityInv, AnswerFits, ClearedFits, ScoreFits
<1> QED BY <1>1, <1>2, <1>4, <1>5, <1>6, <1>7 DEF Scoring!EquityNext

LEMMA PlansAreWithinRisk ==
  ASSUME NEW q \in Quotations
  PROVE  LET p == Scoring!Planned(q)
         IN  /\ 100 * p.shares * p.risk <= 2 * Worth
             /\ 100 * p.shares * p.price <= 8 * Worth
             /\ Scoring!Edge(p) = 0
<1> DEFINE p == Scoring!Planned(q)
           byRisk == (Worth * 2) \div (100 * q.atr * StopAtr)
           byCap == (Worth * 8) \div (100 * q.price)
           n == Scoring!Shares(q)
           risk == q.atr * StopAtr
           reward == q.atr * TargetAtr
<1>1. q.price \in Nat \ {0} /\ q.atr \in Nat \ {0} /\ Worth \in Nat /\ StopAtr \in Nat \ {0}
      /\ TargetAtr \in Nat
  BY ScoringAssumption DEF Scoring!ScoringConstants
<1>2. p.shares = n /\ p.risk = risk /\ p.reward = reward /\ p.price = q.price
  BY DEF Scoring!Planned
<1>3. risk \in Nat /\ risk > 0 /\ reward \in Nat /\ 100 * q.atr * StopAtr = 100 * risk
  BY <1>1
<1>4. \A a \in Nat : \A b \in Nat : b > 0 => a \div b \in Nat /\ b * (a \div b) <= a
  OBVIOUS
<1>5. byRisk \in Nat /\ (100 * risk) * byRisk <= Worth * 2
  <2>1. 100 * risk \in Nat /\ 100 * risk > 0 /\ Worth * 2 \in Nat
    BY <1>1, <1>3
  <2>2. byRisk = (Worth * 2) \div (100 * risk)
    BY <1>3
  <2> HIDE DEF byRisk, risk
  <2> QED BY <1>4, <2>1, <2>2
<1>6. byCap \in Nat /\ (100 * q.price) * byCap <= Worth * 8
  <2>1. 100 * q.price \in Nat /\ 100 * q.price > 0 /\ Worth * 8 \in Nat
    BY <1>1
  <2> QED BY <1>4, <2>1
<1>7. n \in Nat /\ n <= byRisk /\ n <= byCap
  <2>1. n = IF byRisk > 0 THEN Scoring!Min({byRisk, byCap}) ELSE 0
    BY DEF Scoring!Shares
  <2>2. Scoring!Min({byRisk, byCap}) = IF byRisk <= byCap THEN byRisk ELSE byCap
    <3> HIDE DEF byRisk, byCap
    <3> QED BY <1>5, <1>6, TwoOfThem
  <2> HIDE DEF n, byRisk, byCap
  <2> QED BY <1>5, <1>6, <2>1, <2>2
<1>8. \A a \in Nat, b \in Nat, c \in Nat : b <= c => a * b <= a * c
  OBVIOUS
<1>9. 100 * n * risk <= 2 * Worth
  <2> HIDE DEF n, byRisk, risk
  <2>1. (100 * risk) * n <= (100 * risk) * byRisk
    BY <1>3, <1>5, <1>7, <1>8
  <2>2. 100 * n * risk = (100 * risk) * n /\ (100 * risk) * n \in Nat
        /\ (100 * risk) * byRisk \in Nat
    BY <1>3, <1>5, <1>7
  <2> QED BY <1>1, <1>5, <2>1, <2>2
<1>10. 100 * n * q.price <= 8 * Worth
  <2> HIDE DEF n, byCap
  <2>1. (100 * q.price) * n <= (100 * q.price) * byCap
    BY <1>1, <1>6, <1>7, <1>8
  <2>2. 100 * n * q.price = (100 * q.price) * n /\ (100 * q.price) * n \in Nat
        /\ (100 * q.price) * byCap \in Nat
    BY <1>1, <1>6, <1>7
  <2> QED BY <1>1, <1>6, <2>1, <2>2
<1>11. Scoring!Edge(p) = 0
  <2>1. Scoring!Edge(p) = p.risk * p.reward - ((p.risk + p.reward) - p.risk) * p.risk
    BY DEF Scoring!Edge, Scoring!Pop
  <2> HIDE DEF p, risk, reward
  <2>2. (risk + reward) - risk = reward
    BY <1>3
  <2>3. risk * reward = reward * risk /\ risk * reward \in Int
    BY <1>3
  <2> QED BY <1>2, <2>1, <2>2, <2>3
<1> HIDE DEF p, n, risk
<1> QED BY <1>2, <1>9, <1>10, <1>11 DEF p

LEMMA ScoreKnowsNoSide ==
  ASSUME NEW r \in Readings
  PROVE  LET v == Scoring!Votes(r)
             s == Scoring!Scored(v, r.flow)
             t == Scoring!Scored([i \in DOMAIN v |-> Scoring!Opposite(v[i])], -r.flow)
         IN  /\ s.action \in {"BUY", "SELL", "HOLD"}
             /\ t.confidence = s.confidence
             /\ t.action = CASE s.action = "BUY" -> "SELL"
                             [] s.action = "SELL" -> "BUY"
                             [] OTHER -> "HOLD"
<1> DEFINE v == Scoring!Votes(r)
           w == [i \in DOMAIN v |-> Scoring!Opposite(v[i])]
           bull == Scoring!Points(v, r.flow, "bull")
           bear == Scoring!Points(v, r.flow, "bear")
           s == Scoring!Judge(bull, bear)
           t == Scoring!Judge(bear, bull)
           hi == IF bull >= bear THEN bull ELSE bear
           lo == IF bull >= bear THEN bear ELSE bull
<1>1. IsBallot(v) /\ r.flow \in Int
  BY VotesAreBallots
<1>2. bull \in Nat /\ bear \in Nat
  <2> HIDE DEF v
  <2> QED BY <1>1, PointsAreCounts
<1>3. Scoring!Points(w, -r.flow, "bull") = bear /\ Scoring!Points(w, -r.flow, "bear") = bull
  <2> HIDE DEF v
  <2> QED BY <1>1, PointsTurnAbout
<1>4. Scoring!Scored(v, r.flow) = s /\ Scoring!Scored(w, -r.flow) = t
  BY <1>3 DEF Scoring!Scored
<1> HIDE DEF v, w, bull, bear
<1>5. /\ s.action = IF ~Clears(hi, lo) THEN "HOLD" ELSE IF bull > bear THEN "BUY" ELSE "SELL"
      /\ s.confidence = IF hi + lo = 0 THEN 0 ELSE Sure(hi, lo)
  BY <1>2, JudgeIs
<1>6. /\ t.action = IF ~Clears(hi, lo) THEN "HOLD" ELSE IF bear > bull THEN "BUY" ELSE "SELL"
      /\ t.confidence = IF hi + lo = 0 THEN 0 ELSE Sure(hi, lo)
  <2> DEFINE hj == IF bear >= bull THEN bear ELSE bull
             lj == IF bear >= bull THEN bull ELSE bear
  <2>1. hj = hi /\ lj = lo
    BY <1>2
  <2>2. /\ t.action = IF ~Clears(hj, lj) THEN "HOLD" ELSE IF bear > bull THEN "BUY" ELSE "SELL"
        /\ t.confidence = IF hj + lj = 0 THEN 0 ELSE Sure(hj, lj)
    BY <1>2, JudgeIs
  <2> HIDE DEF hi, lo, hj, lj, t
  <2> QED BY <2>1, <2>2
<1>7. Clears(hi, lo) => bull > bear \/ bear > bull
  BY <1>2 DEF Clears
<1>8. ~(bull > bear /\ bear > bull)
  BY <1>2
<1> HIDE DEF s, t, hi, lo
<1>9. /\ s.action \in {"BUY", "SELL", "HOLD"} /\ t.confidence = s.confidence
      /\ t.action = CASE s.action = "BUY" -> "SELL" [] s.action = "SELL" -> "BUY"
                      [] OTHER -> "HOLD"
  BY <1>5, <1>6, <1>7, <1>8
<1> QED BY <1>4, <1>9 DEF v, w

LEMMA SupportNeverHurts ==
  ASSUME NEW r \in Readings, NEW i \in Indicators
  PROVE  LET v    == Scoring!Votes(r)
             s    == Scoring!Scored(v, r.flow)
             side == IF s.action = "BUY" THEN "bull" ELSE "bear"
             t    == Scoring!Scored([v EXCEPT ![i] = side], r.flow)
         IN  s.action # "HOLD" => t.action = s.action /\ t.confidence >= s.confidence
<1> DEFINE v == Scoring!Votes(r)
           bull == Scoring!Points(v, r.flow, "bull")
           bear == Scoring!Points(v, r.flow, "bear")
           s == Scoring!Judge(bull, bear)
           side == IF s.action = "BUY" THEN "bull" ELSE "bear"
           w == [v EXCEPT ![i] = side]
           bullish == Scoring!Points(w, r.flow, "bull")
           bearish == Scoring!Points(w, r.flow, "bear")
           t == Scoring!Judge(bullish, bearish)
<1>1. IsBallot(v) /\ r.flow \in Int
  BY VotesAreBallots
<1>2. Scoring!Scored(v, r.flow) = s /\ Scoring!Scored(w, r.flow) = t
  BY DEF Scoring!Scored
<1>3. bull \in Nat /\ bear \in Nat
  <2> HIDE DEF v
  <2> QED BY <1>1, PointsAreCounts
<1>4. SUFFICES ASSUME s.action # "HOLD"
               PROVE  t.action = s.action /\ t.confidence >= s.confidence
  BY <1>2
<1> HIDE DEF v
<1>5. CASE bull > bear
  <2>1. s.action = "BUY" /\ Clears(bull, bear) /\ s.confidence = Sure(bull, bear)
    <3> HIDE DEF bull, bear
    <3> QED BY <1>3, <1>4, <1>5, JudgeIs
  <2>2. w = [v EXCEPT ![i] = "bull"]
    BY <2>1
  <2>3. IsBallot(w) /\ bullish >= bull /\ bearish <= bear
    <3> HIDE DEF w
    <3> QED BY <1>1, <2>2, PointsMove
  <2>4. bullish \in Nat /\ bearish \in Nat
    <3> HIDE DEF w
    <3> QED BY <1>1, <2>3, PointsAreCounts
  <2> HIDE DEF bull, bear, s, bullish, bearish
  <2>5. Clears(bullish, bearish) /\ bullish > bearish
        /\ Sure(bull, bear) <= Sure(bullish, bearish)
    BY <1>3, <2>1, <2>3, <2>4, MorePointsHelp
  <2>6. t.action = "BUY" /\ t.confidence = Sure(bullish, bearish)
    BY <2>4, <2>5, JudgeIs
  <2> QED BY <2>1, <2>5, <2>6
<1>6. CASE ~(bull > bear)
  <2>1. s.action = "SELL" /\ Clears(bear, bull)
    <3> HIDE DEF bull, bear
    <3>1. CASE bull = bear
      BY <1>3, <1>4, <3>1, JudgeIs
    <3>2. CASE bull < bear
      BY <1>3, <1>4, <3>2, JudgeIs
    <3> QED BY <1>3, <1>6, <3>1, <3>2
  <2>2. bear > bull
    <3> HIDE DEF bull, bear
    <3> QED BY <1>3, <2>1 DEF Clears
  <2>3. s.confidence = Sure(bear, bull)
    <3> HIDE DEF bull, bear
    <3> QED BY <1>3, <2>2, JudgeIs
  <2>4. w = [v EXCEPT ![i] = "bear"]
    BY <2>1
  <2>5. IsBallot(w) /\ bearish >= bear /\ bullish <= bull
    <3> HIDE DEF w
    <3> QED BY <1>1, <2>4, PointsMove
  <2>6. bullish \in Nat /\ bearish \in Nat
    <3> HIDE DEF w
    <3> QED BY <1>1, <2>5, PointsAreCounts
  <2> HIDE DEF bull, bear, s, bullish, bearish
  <2>7. Clears(bearish, bullish) /\ bearish > bullish
        /\ Sure(bear, bull) <= Sure(bearish, bullish)
    BY <1>3, <2>1, <2>5, <2>6, MorePointsHelp
  <2>8. t.action = "SELL" /\ t.confidence = Sure(bearish, bullish)
    BY <2>6, <2>7, JudgeIs
  <2> QED BY <2>1, <2>3, <2>7, <2>8
<1> QED BY <1>5, <1>6

LEMMA EquityHolds == EquityInv => Scoring!EquityTypeOK /\ Scoring!EquityScoreHolds
<1> SUFFICES ASSUME EquityInv PROVE Scoring!EquityTypeOK /\ Scoring!EquityScoreHolds
  OBVIOUS
<1>1. Scoring!EarningsTakeAGap
  BY DEF EquityInv, ClearedFits, Scoring!EarningsTakeAGap
<1>2. CASE reading = None /\ signal = None
  BY <1>1, <1>2 DEF EquityInv, Scoring!EquityTypeOK, Scoring!EquityScoreHolds, Scoring!NoSide,
     Scoring!SupportHelps, Scoring!PlanWithinRisk, Scoring!ValueRanksNothing
<1>3. CASE ~(reading = None /\ signal = None)
  <2>1. /\ reading \in Readings
        /\ signal.score = Scoring!Scored(Scoring!Votes(reading), reading.flow)
        /\ signal.plan # None => \E q \in Quotations : signal.plan = Scoring!Planned(q)
    BY <1>3 DEF EquityInv, ScoreFits
  <2>2. signal.score.action \in {"BUY", "SELL", "HOLD"}
    BY <2>1, ScoreKnowsNoSide
  <2>3. Scoring!NoSide
    BY <2>1, ScoreKnowsNoSide DEF Scoring!NoSide
  <2>4. DOMAIN Scoring!Votes(reading) = Indicators
    BY <2>1, VotesAreBallots DEF IsBallot
  <2>5. Scoring!SupportHelps
    BY <2>1, <2>4, SupportNeverHurts DEF Scoring!SupportHelps
  <2>6. Scoring!PlanWithinRisk /\ Scoring!ValueRanksNothing
    BY <2>1, PlansAreWithinRisk DEF Scoring!PlanWithinRisk, Scoring!ValueRanksNothing
  <2> QED BY <1>1, <2>1, <2>2, <2>3, <2>5, <2>6
          DEF EquityInv, Scoring!EquityTypeOK, Scoring!EquityScoreHolds
<1> QED BY <1>2, <1>3

-----------------------------------------------------------------------------
(* SignalScoring: the score of a spread.                                   *)

\* A verdict was measured on the threshold of the scorer's kind, and what the page
\* showed is what scores or will be loaded.
VerdictFits ==
  score # None =>
    /\ score.score \in Int
    /\ score.approved => score.score >= Scoring!Threshold(score.kind) + Band

PageFits ==
  shown # None /\ ~doubt => shown = IF scorer # None THEN scorer ELSE Scoring!Loaded(artifact)

ScorerTyped ==
  /\ artifact \in Scoring!Artifacts
  /\ scorer \in {None, "rules", "regressor", "classifier"}

SpreadScoreInv == ScorerTyped /\ VerdictFits /\ PageFits

LEMMA SpreadScoreStarts == Scoring!OptionsInit => SpreadScoreInv
BY DEF Scoring!OptionsInit, SpreadScoreInv, ScorerTyped, VerdictFits, PageFits

LEMMA VerdictIsMeasured ==
  ASSUME NEW model \in {"rules", "regressor", "classifier"}, NEW fails \in BOOLEAN,
         NEW f \in Spreads, fails => model # "rules"
  PROVE  LET v == Scoring!Result(model, fails, f)
         IN  /\ v.score \in Int
             /\ v.approved => v.score >= Scoring!Threshold(v.kind) + Band
<1>1. {f.rank, f.edge, f.calm, f.credit} \subseteq Int
      /\ f.model["regressor"] \in Int /\ f.model["classifier"] \in Int
  BY ScoringAssumption DEF Scoring!ScoringConstants
<1>2. Scoring!Heuristic(f) \in Int
  BY <1>1 DEF Scoring!Heuristic
<1> QED BY <1>1, <1>2 DEF Scoring!Result

LEMMA SpreadScoreKept ==
  ASSUME SpreadScoreInv, [Scoring!OptionsNext]_spreadVars
  PROVE  SpreadScoreInv'
<1>1. CASE Scoring!Train
  BY <1>1 DEF Scoring!Train, SpreadScoreInv, ScorerTyped, VerdictFits, PageFits
<1>2. CASE Scoring!Restart
  BY <1>2 DEF Scoring!Restart, SpreadScoreInv, ScorerTyped, VerdictFits, PageFits
<1>3. CASE Scoring!Show
  BY <1>3 DEF Scoring!Show, SpreadScoreInv, ScorerTyped, VerdictFits, PageFits
<1>4. CASE Scoring!Score
  <2>1. PageFits'
    BY <1>4 DEF Scoring!Score, SpreadScoreInv, PageFits
  <2>2. PICK f \in Spreads, fails \in BOOLEAN :
          (fails => scorer' # "rules") /\ score' = Scoring!Result(scorer', fails, f)
    BY <1>4 DEF Scoring!Score
  <2>3. scorer' \in {"rules", "regressor", "classifier"}
    BY <1>4 DEF Scoring!Score, Scoring!Loaded, Scoring!Artifacts, SpreadScoreInv, ScorerTyped
  <2>4. VerdictFits'
    BY <2>2, <2>3, VerdictIsMeasured DEF VerdictFits
  <2>5. ScorerTyped'
    BY <1>4, <2>3 DEF Scoring!Score, SpreadScoreInv, ScorerTyped
  <2> QED BY <2>1, <2>4, <2>5 DEF SpreadScoreInv
<1>5. CASE UNCHANGED spreadVars
  BY <1>5 DEF spreadVars, SpreadScoreInv, ScorerTyped, VerdictFits, PageFits
<1> QED BY <1>1, <1>2, <1>3, <1>4, <1>5 DEF Scoring!OptionsNext

LEMMA SpreadScoreHolds == SpreadScoreInv => Scoring!OptionsScoreHolds
<1> SUFFICES ASSUME SpreadScoreInv PROVE Scoring!OptionsScoreHolds
  OBVIOUS
<1>1. Scoring!LowQualityTakesAFailure
  BY ScoringAssumption
  DEF Scoring!ScoringConstants, SpreadScoreInv, VerdictFits, Scoring!Threshold,
      Scoring!LowQualityTakesAFailure
<1>2. Scoring!ShownIsUsed
  BY DEF SpreadScoreInv, PageFits, Scoring!ShownIsUsed
<1> QED BY <1>1, <1>2 DEF Scoring!OptionsScoreHolds

-----------------------------------------------------------------------------
(* OutcomeStats.                                                           *)

\* What a day was for a signal.
Best(s, d)  == Outcomes!Favourable(s, path[d])
Worst(s, d) == Outcomes!Adverse(s, path[d])
Touches(s, t, d) == Worst(s, d) <= -2 \/ Best(s, d) >= t

\* How a signal with a target at t ends on day n, told without a first day.
Ends(s, t, status, exit, n) ==
  /\ n \in 1 .. Len(path)
  /\ \A d \in 1 .. n - 1 : ~Touches(s, t, d)
  /\ \/ status = "stop_hit" /\ exit = -2 /\ Worst(s, n) <= -2
     \/ status = "target_hit" /\ exit = t /\ Worst(s, n) > -2 /\ Best(s, n) >= t
     \/ /\ status = "expired" /\ n = HoldDays /\ n = Len(path)
        /\ exit = Outcomes!Closing(s, path[n]) /\ ~Touches(s, t, n)

Pending(s, t) == Len(path) < HoldDays /\ \A d \in 1 .. Len(path) : ~Touches(s, t, d)

OutcomeRow ==
  [status : {"target_hit", "stop_hit", "expired"}, exit : Int, mfe : Int, full : Int,
   window : Nat]

\* A row is how its signal ends, with the reach to that day and to its window.
RowEnds(s) ==
  LET r == outcome[s]
  IN  /\ r \in OutcomeRow /\ r.window <= Len(path) /\ r.full = Outcomes!Reach(s, r.window)
      /\ \E n \in 1 .. r.window :
           Ends(s, s.target, r.status, r.exit, n) /\ r.mfe = Outcomes!Reach(s, n)

OutcomeInv ==
  /\ path \in Seq(DayBars) /\ Len(path) <= HoldDays
  /\ DOMAIN outcome = Signals
  /\ \A s \in Signals : outcome[s] # None => RowEnds(s)

LEMMA DaysAreWhole ==
  ASSUME NEW s \in Signals, path \in Seq(DayBars), NEW d \in 1 .. Len(path)
  PROVE  /\ Best(s, d) \in Int /\ Worst(s, d) \in Int
         /\ Outcomes!Closing(s, path[d]) \in Int
         /\ Outcomes!Closing(s, path[d]) <= Best(s, d)
<1>1. path[d] \in DayBars /\ s.side \in {"BUY", "SELL"}
  BY OutcomesAssumption DEF Outcomes!OutcomeConstants
<1>2. LET b == path[d]
      IN  b.low \in Int /\ b.close \in Int /\ b.high \in Int /\ b.low <= b.close
          /\ b.close <= b.high
  BY <1>1, OutcomesAssumption DEF Outcomes!OutcomeConstants
<1> QED BY <1>1, <1>2 DEF Best, Worst, Outcomes!Favourable, Outcomes!Adverse, Outcomes!Closing

LEMMA ReachIsThere ==
  ASSUME NEW s \in Signals, path \in Seq(DayBars), NEW n \in 0 .. Len(path)
  PROVE  LET r == Outcomes!Reach(s, n)
         IN  /\ r \in Int /\ r >= 0
             /\ \A d \in 1 .. n : Best(s, d) <= r
             /\ r = 0 \/ \E d \in 1 .. n : r = Best(s, d)
<1> DEFINE all(k) == {0} \cup {Best(s, d) : d \in 1 .. k}
           good == {k \in Nat : k <= Len(path) => \E m \in all(k) : \A x \in all(k) : m >= x}
<1>1. 0 \in good
  <2>1. all(0) = {0}
    OBVIOUS
  <2> QED BY <2>1
<1>2. ASSUME NEW k \in good PROVE k + 1 \in good
  <2> SUFFICES ASSUME k + 1 <= Len(path)
               PROVE  \E m \in all(k + 1) : \A x \in all(k + 1) : m >= x
    OBVIOUS
  <2>1. k \in Nat /\ Len(path) \in Nat /\ k <= Len(path)
    OBVIOUS
  <2>2. PICK m \in all(k) : \A x \in all(k) : m >= x
    BY <2>1
  <2>3. all(k + 1) = all(k) \cup {Best(s, k + 1)}
    <3>1. 1 .. k + 1 = (1 .. k) \cup {k + 1}
      BY <2>1
    <3> QED BY <3>1
  <2>4. Best(s, k + 1) \in Int
    BY <2>1, DaysAreWhole
  <2>5. \A x \in all(k) : x \in Int
    <3>1. \A d \in 1 .. k : Best(s, d) \in Int
      BY <2>1, DaysAreWhole
    <3> QED BY <3>1
  <2>6. CASE Best(s, k + 1) >= m
    <3>1. \A x \in all(k + 1) : Best(s, k + 1) >= x
      <4> HIDE DEF all
      <4> QED BY <2>2, <2>3, <2>4, <2>5, <2>6
    <3> QED BY <2>3, <3>1
  <2>7. CASE ~(Best(s, k + 1) >= m)
    <3>1. \A x \in all(k + 1) : m >= x
      <4> HIDE DEF all
      <4> QED BY <2>2, <2>3, <2>4, <2>5, <2>7
    <3> QED BY <2>2, <2>3, <3>1
  <2> QED BY <2>6, <2>7
<1>3. n \in Nat /\ n <= Len(path)
  OBVIOUS
<1>4. n \in good
  <2> HIDE DEF good
  <2>1. \A k \in Nat : k \in good
    <3>1. good \in SUBSET Nat
      BY DEF good
    <3> QED BY <1>1, <1>2, <3>1, NatBySet
  <2> QED BY <1>3, <2>1
<1>5. LET r == Outcomes!Reach(s, n) IN r \in all(n) /\ \A x \in all(n) : r >= x
  <2>1. \E m \in all(n) : \A x \in all(n) : m >= x
    BY <1>3, <1>4
  <2>2. Outcomes!Reach(s, n) = CHOOSE m \in all(n) : \A x \in all(n) : m >= x
    BY DEF Outcomes!Reach, Outcomes!Max, Best
  <2> HIDE DEF all
  <2> QED BY <2>1, <2>2
<1>6. \A x \in all(n) : x \in Int
  <2>1. \A d \in 1 .. n : Best(s, d) \in Int
    BY <1>3, DaysAreWhole
  <2> QED BY <2>1
<1> QED BY <1>5, <1>6

\* The longer a signal is watched, the farther it is seen to go.
LEMMA ReachGrows ==
  ASSUME NEW s \in Signals, path \in Seq(DayBars), NEW n \in 0 .. Len(path), NEW k \in 0 .. n
  PROVE  Outcomes!Reach(s, k) <= Outcomes!Reach(s, n)
<1>1. k \in 0 .. Len(path) /\ n \in Nat /\ k \in Nat /\ k <= n
  OBVIOUS
<1> DEFINE a == Outcomes!Reach(s, k)
           z == Outcomes!Reach(s, n)
<1>2. a = 0 \/ \E d \in 1 .. k : a = Best(s, d)
  BY <1>1, ReachIsThere
<1>3. z \in Int /\ z >= 0 /\ \A d \in 1 .. n : Best(s, d) <= z
  BY ReachIsThere
<1> HIDE DEF a, z
<1>4. \A d \in 1 .. k : d \in 1 .. n
  BY <1>1
<1>5. a <= z
  BY <1>2, <1>3, <1>4
<1> QED BY <1>5 DEF a, z

\* What a target at t returns, by the day on which it ends.
LEMMA OutcomeEnds ==
  ASSUME NEW s \in Signals, NEW t \in Nat, path \in Seq(DayBars), Len(path) <= HoldDays
  PROVE  LET o == Outcomes!Outcome(s, t)
         IN  \/ Pending(s, t) /\ o = None
             \/ /\ o = [status |-> o.status, exit |-> o.exit, days |-> o.days]
                /\ o.status \in {"target_hit", "stop_hit", "expired"} /\ o.exit \in Int
                /\ Ends(s, t, o.status, o.exit, o.days)
<1> DEFINE o == Outcomes!Outcome(s, t)
           touched == {d \in DOMAIN path : Touches(s, t, d)}
           first == Outcomes!Min(touched)
<1>1. DOMAIN path = 1 .. Len(path) /\ Len(path) \in Nat /\ HoldDays \in Nat /\ HoldDays > 0
  BY OutcomesAssumption DEF Outcomes!OutcomeConstants
<1>2. o = IF touched = {}
          THEN IF Len(path) < HoldDays THEN None
               ELSE [status |-> "expired", exit |-> Outcomes!Closing(s, path[HoldDays]),
                     days |-> HoldDays]
          ELSE IF Worst(s, first) <= -2
               THEN [status |-> "stop_hit", exit |-> -2, days |-> first]
               ELSE [status |-> "target_hit", exit |-> t, days |-> first]
  BY DEF Outcomes!Outcome, Outcomes!Risk, Touches, Best, Worst
<1>3. CASE touched = {} /\ Len(path) < HoldDays
  BY <1>1, <1>2, <1>3 DEF Pending
<1>4. CASE touched = {} /\ ~(Len(path) < HoldDays)
  <2>1. o = [status |-> "expired", exit |-> Outcomes!Closing(s, path[HoldDays]),
             days |-> HoldDays]
    BY <1>2, <1>4
  <2>2. HoldDays = Len(path) /\ \A d \in 1 .. Len(path) : ~Touches(s, t, d)
    <3>1. \A d \in DOMAIN path : ~Touches(s, t, d)
      <4> SUFFICES ASSUME NEW d \in DOMAIN path, Touches(s, t, d) PROVE FALSE
        OBVIOUS
      <4>1. d \in touched
        OBVIOUS
      <4> HIDE DEF touched
      <4> QED BY <1>4, <4>1
    <3>2. HoldDays = Len(path)
      <4> HIDE DEF touched
      <4>1. ~(Len(path) < HoldDays)
        BY <1>4
      <4>2. Len(path) <= HoldDays
        OBVIOUS
      <4>3. \A a \in Nat, b \in Nat : a <= b /\ ~(a < b) => b = a
        OBVIOUS
      <4> QED BY <1>1, <4>1, <4>2, <4>3, Zenon
    <3> QED BY <1>1, <3>1, <3>2
  <2>3. Outcomes!Closing(s, path[HoldDays]) \in Int
    BY <1>1, <2>2, DaysAreWhole
  <2> HIDE DEF o
  <2>4. Ends(s, t, "expired", Outcomes!Closing(s, path[HoldDays]), HoldDays)
    BY <1>1, <2>2 DEF Ends
  <2>5. o.status = "expired" /\ o.exit = Outcomes!Closing(s, path[HoldDays])
        /\ o.days = HoldDays
    BY <2>1
  <2> QED BY <2>1, <2>3, <2>4, <2>5 DEF o
<1>5. CASE touched # {}
  <2>1. first \in touched /\ \A d \in touched : first <= d
    <3>1. touched \in SUBSET Nat
      BY <1>1
    <3>2. first = CHOOSE x \in touched : \A y \in touched : x <= y
      BY DEF Outcomes!Min
    <3> HIDE DEF touched
    <3> QED BY <1>5, <3>1, <3>2, LeastOfSet
  <2>2. first \in 1 .. Len(path) /\ Touches(s, t, first)
    BY <1>1, <2>1
  <2>3. \A d \in 1 .. first - 1 : ~Touches(s, t, d)
    <3> SUFFICES ASSUME NEW d \in 1 .. first - 1, Touches(s, t, d) PROVE FALSE
      OBVIOUS
    <3>1. d \in DOMAIN path /\ d < first
      BY <1>1, <2>2
    <3>2. first <= d
      BY <2>1, <3>1
    <3> QED BY <1>1, <2>2, <3>1, <3>2
  <2>4. Worst(s, first) \in Int /\ Best(s, first) \in Int
    BY <2>2, DaysAreWhole
  <2> HIDE DEF first, touched, o
  <2>5. CASE Worst(s, first) <= -2
    <3>1. o = [status |-> "stop_hit", exit |-> -2, days |-> first]
      BY <1>2, <1>5, <2>5
    <3>2. Ends(s, t, "stop_hit", -2, first)
      BY <2>2, <2>3, <2>5 DEF Ends
    <3>3. o.status = "stop_hit" /\ o.exit = -2 /\ o.days = first
      BY <3>1
    <3> QED BY <3>1, <3>2, <3>3 DEF o
  <2>6. CASE ~(Worst(s, first) <= -2)
    <3>1. o = [status |-> "target_hit", exit |-> t, days |-> first]
      BY <1>2, <1>5, <2>6
    <3>2. Ends(s, t, "target_hit", t, first)
      BY <2>2, <2>3, <2>4, <2>6 DEF Ends, Touches
    <3>3. o.status = "target_hit" /\ o.exit = t /\ o.days = first
      BY <3>1
    <3> QED BY <3>1, <3>2, <3>3 DEF o
  <2> QED BY <2>5, <2>6
<1> QED BY <1>3, <1>4, <1>5

LEMMA OutcomeStarts == Outcomes!Init => OutcomeInv
BY OutcomesAssumption DEF Outcomes!Init, OutcomeInv, Outcomes!OutcomeConstants

\* While no day is added, nothing that is said of the days changes.
LEMMA DaysStay ==
  ASSUME path' = path
  PROVE  /\ \A s, k : Outcomes!Reach(s, k)' = Outcomes!Reach(s, k)
         /\ \A s, t, status, exit, n :
              Ends(s, t, status, exit, n)' <=> Ends(s, t, status, exit, n)
<1>1. \A s, k : Outcomes!Reach(s, k)' = Outcomes!Reach(s, k)
  BY DEF Outcomes!Reach
<1>2. \A s, t, d : Touches(s, t, d)' <=> Touches(s, t, d)
  BY DEF Touches, Best, Worst
<1>3. \A s, d : Best(s, d)' = Best(s, d) /\ Worst(s, d)' = Worst(s, d)
  BY DEF Best, Worst
<1> QED BY <1>1, <1>2, <1>3 DEF Ends

\* A day more changes nothing of what has ended.
LEMMA EndsStay ==
  ASSUME OutcomeInv, Outcomes!NewDay
  PROVE  OutcomeInv'
<1>1. PICK b \in DayBars : path' = Append(path, b)
  BY DEF Outcomes!NewDay
<1>2. outcome' = outcome /\ path \in Seq(DayBars) /\ Len(path) < HoldDays
      /\ HoldDays \in Nat \ {0}
  BY OutcomesAssumption DEF Outcomes!NewDay, OutcomeInv, Outcomes!OutcomeConstants
<1>3. path' \in Seq(DayBars) /\ Len(path') = Len(path) + 1 /\ Len(path) \in Nat
      /\ \A d \in 1 .. Len(path) : path'[d] = path[d]
  BY <1>1, <1>2
<1>4. ASSUME NEW s \in Signals, outcome[s] # None
      PROVE  RowEnds(s)'
  <2> PICK r : r = outcome[s]
    OBVIOUS
  <2>1. RowEnds(s)
    BY <1>4 DEF OutcomeInv
  <2>2. r \in OutcomeRow /\ r.window <= Len(path) /\ r.full = Outcomes!Reach(s, r.window)
    BY <2>1 DEF RowEnds
  <2>3. PICK n \in 1 .. r.window :
          Ends(s, s.target, r.status, r.exit, n) /\ r.mfe = Outcomes!Reach(s, n)
    BY <2>1 DEF RowEnds
  <2>4. r.window \in Nat /\ n \in 1 .. Len(path) /\ n <= r.window
    BY <2>2, <2>3, <1>3 DEF OutcomeRow
  <2>5. \A d \in 1 .. Len(path) : Best(s, d)' = Best(s, d) /\ Worst(s, d)' = Worst(s, d)
    BY <1>3 DEF Best, Worst
  <2>6. ASSUME NEW k \in Nat, k <= Len(path)
        PROVE  Outcomes!Reach(s, k)' = Outcomes!Reach(s, k)
    <3>1. \A d \in 1 .. k : d \in 1 .. Len(path)
      BY <1>3, <2>6
    <3>2. {Best(s, d)' : d \in 1 .. k} = {Best(s, d) : d \in 1 .. k}
      BY <2>5, <3>1
    <3> QED BY <3>2 DEF Outcomes!Reach, Best
  <2>7. Ends(s, s.target, r.status, r.exit, n)'
    <3>1. ~(r.status = "expired" /\ n = HoldDays /\ n = Len(path))
      BY <1>2, <1>3
    <3>2. \A d \in 1 .. n : d \in 1 .. Len(path)
      BY <1>3, <2>4
    <3>3. \A d \in 1 .. n - 1 : d \in 1 .. Len(path)
      BY <1>3, <2>4
    <3>4. n \in 1 .. Len(path')
      BY <1>3, <2>4
    <3>5. \A d \in 1 .. n - 1 : ~Touches(s, s.target, d)'
      BY <2>3, <2>5, <3>3 DEF Ends, Touches
    <3> QED BY <1>2, <2>3, <2>4, <2>5, <3>1, <3>4, <3>5 DEF Ends
  <2>8. Outcomes!Reach(s, n)' = Outcomes!Reach(s, n)
        /\ Outcomes!Reach(s, r.window)' = Outcomes!Reach(s, r.window)
    BY <2>2, <2>4, <2>6
  <2>9. r.window <= Len(path')
    BY <1>3, <2>2, <2>4
  <2> QED BY <1>2, <2>2, <2>3, <2>7, <2>8, <2>9 DEF RowEnds
<1>5. Len(path') <= HoldDays
  BY <1>2, <1>3
<1> QED BY <1>2, <1>3, <1>4, <1>5 DEF OutcomeInv

LEMMA OutcomeChecked ==
  ASSUME OutcomeInv, Outcomes!Check
  PROVE  OutcomeInv'
<1>1. PICK s \in Signals :
        LET o == Outcomes!Outcome(s, s.target)
        IN  /\ o # None
            /\ outcome' = [outcome EXCEPT ![s] =
                 [status |-> o.status, exit |-> o.exit, mfe |-> Outcomes!Reach(s, o.days),
                  full |-> Outcomes!Reach(s, Len(path)), window |-> Len(path)]]
  BY DEF Outcomes!Check, Outcomes!Resolved
<1>2. path' = path /\ path \in Seq(DayBars) /\ Len(path) <= HoldDays /\ Len(path) \in Nat
      /\ DOMAIN outcome = Signals
  BY DEF Outcomes!Check, OutcomeInv
<1> PICK o : o = Outcomes!Outcome(s, s.target)
  OBVIOUS
<1> PICK n : n = o.days
  OBVIOUS
<1> PICK new : new = [status |-> o.status, exit |-> o.exit, mfe |-> Outcomes!Reach(s, n),
                      full |-> Outcomes!Reach(s, Len(path)), window |-> Len(path)]
  OBVIOUS
<1>3. s.target \in Nat
  BY OutcomesAssumption DEF Outcomes!OutcomeConstants
<1>4. /\ o.status \in {"target_hit", "stop_hit", "expired"} /\ o.exit \in Int
      /\ Ends(s, s.target, o.status, o.exit, n)
  BY <1>1, <1>2, <1>3, OutcomeEnds
<1>5. outcome' = [outcome EXCEPT ![s] = new]
  BY <1>1
<1>6. n \in 1 .. Len(path)
  BY <1>4 DEF Ends
<1>7. Outcomes!Reach(s, n) \in Int /\ Outcomes!Reach(s, Len(path)) \in Int
  <2>1. n \in 0 .. Len(path) /\ Len(path) \in 0 .. Len(path)
    BY <1>2, <1>6
  <2> QED BY <1>2, <2>1, ReachIsThere
<1>8. new \in OutcomeRow /\ new.window = Len(path) /\ new.full = Outcomes!Reach(s, Len(path))
      /\ new.status = o.status /\ new.exit = o.exit /\ new.mfe = Outcomes!Reach(s, n)
  BY <1>2, <1>4, <1>7 DEF OutcomeRow
<1>9. outcome'[s] = new /\ DOMAIN outcome' = Signals
      /\ \A t \in Signals : t # s => outcome'[t] = outcome[t]
  BY <1>2, <1>5
<1>10. RowEnds(s)'
  <2>1. Ends(s, s.target, o.status, o.exit, n)'
    BY <1>2, <1>4, DaysStay
  <2>2. n \in 1 .. new.window
    BY <1>6, <1>8
  <2>3. new.window <= Len(path)
    BY <1>2, <1>8
  <2>4. Outcomes!Reach(s, n)' = Outcomes!Reach(s, n)
        /\ Outcomes!Reach(s, new.window)' = Outcomes!Reach(s, new.window)
    BY <1>2, DaysStay
  <2> QED BY <1>2, <1>8, <1>9, <2>1, <2>2, <2>3, <2>4 DEF RowEnds
<1>11. ASSUME NEW t \in Signals, t # s, outcome'[t] # None
       PROVE  RowEnds(t)'
  <2>1. RowEnds(t) /\ outcome'[t] = outcome[t]
    BY <1>9, <1>11 DEF OutcomeInv
  <2> QED BY <1>2, <2>1, DaysStay DEF RowEnds
<1> QED BY <1>2, <1>9, <1>10, <1>11 DEF OutcomeInv

LEMMA OutcomeEnriched ==
  ASSUME OutcomeInv, Outcomes!Enrich
  PROVE  OutcomeInv'
<1>1. PICK s \in Signals :
        /\ outcome[s] # None
        /\ outcome' = [outcome EXCEPT ![s].full = Outcomes!Reach(s, Len(path)),
                                      ![s].window = Len(path)]
  BY DEF Outcomes!Enrich, Outcomes!Resolved
<1>2. path' = path /\ path \in Seq(DayBars) /\ Len(path) <= HoldDays /\ Len(path) \in Nat
      /\ DOMAIN outcome = Signals
  BY DEF Outcomes!Enrich, OutcomeInv
<1> PICK r : r = outcome[s]
  OBVIOUS
<1> PICK new : new = [status |-> r.status, exit |-> r.exit, mfe |-> r.mfe,
                      full |-> Outcomes!Reach(s, Len(path)), window |-> Len(path)]
  OBVIOUS
<1>3. RowEnds(s)
  BY <1>1 DEF OutcomeInv
<1>4. r \in OutcomeRow /\ r.window <= Len(path)
  BY <1>3 DEF RowEnds
<1>5. PICK n \in 1 .. r.window :
        Ends(s, s.target, r.status, r.exit, n) /\ r.mfe = Outcomes!Reach(s, n)
  BY <1>3 DEF RowEnds
<1>6. outcome'[s] = new /\ DOMAIN outcome' = Signals
      /\ \A t \in Signals : t # s => outcome'[t] = outcome[t]
  <2> DEFINE reach == Outcomes!Reach(s, Len(path))
  <2>1. outcome' = [outcome EXCEPT ![s].full = reach, ![s].window = Len(path)]
    BY <1>1
  <2> HIDE DEF reach
  <2>2. outcome'[s] = [[r EXCEPT !.full = reach] EXCEPT !.window = Len(path)]
    BY <1>2, <2>1
  <2>3. outcome'[s] = [status |-> r.status, exit |-> r.exit, mfe |-> r.mfe,
                       full |-> reach, window |-> Len(path)]
    BY <1>4, <2>2 DEF OutcomeRow
  <2>4. DOMAIN outcome' = Signals /\ \A t \in Signals : t # s => outcome'[t] = outcome[t]
    BY <1>2, <2>1
  <2> QED BY <2>3, <2>4 DEF reach
<1>7. Outcomes!Reach(s, Len(path)) \in Int
  BY <1>2, ReachIsThere
<1>8. new \in OutcomeRow /\ new.window = Len(path) /\ new.full = Outcomes!Reach(s, Len(path))
      /\ new.status = r.status /\ new.exit = r.exit /\ new.mfe = r.mfe
  BY <1>2, <1>4, <1>7 DEF OutcomeRow
<1>9. n \in 1 .. Len(path)
  BY <1>5 DEF Ends
<1>10. RowEnds(s)'
  <2>1. Ends(s, s.target, r.status, r.exit, n)'
    BY <1>2, <1>5, DaysStay
  <2>2. n \in 1 .. new.window
    BY <1>8, <1>9
  <2>3. new.window <= Len(path)
    BY <1>2, <1>8
  <2>4. Outcomes!Reach(s, n)' = Outcomes!Reach(s, n)
        /\ Outcomes!Reach(s, new.window)' = Outcomes!Reach(s, new.window)
    BY <1>2, DaysStay
  <2> QED BY <1>2, <1>5, <1>6, <1>8, <2>1, <2>2, <2>3, <2>4 DEF RowEnds
<1>11. ASSUME NEW t \in Signals, t # s, outcome'[t] # None
       PROVE  RowEnds(t)'
  <2>1. RowEnds(t) /\ outcome'[t] = outcome[t]
    BY <1>6, <1>11 DEF OutcomeInv
  <2> QED BY <1>2, <2>1, DaysStay DEF RowEnds
<1> QED BY <1>2, <1>6, <1>10, <1>11 DEF OutcomeInv

LEMMA OutcomeKept ==
  ASSUME OutcomeInv, [Outcomes!Next]_outcomeVars
  PROVE  OutcomeInv'
<1>1. CASE UNCHANGED outcomeVars
  <2>1. path' = path /\ outcome' = outcome
    BY <1>1 DEF outcomeVars
  <2>2. \A s \in Signals : RowEnds(s) => RowEnds(s)'
    BY <2>1, DaysStay DEF RowEnds
  <2> QED BY <2>1, <2>2 DEF OutcomeInv
<1> QED BY <1>1, EndsStay, OutcomeChecked, OutcomeEnriched DEF Outcomes!Next

\* What a row says bounds from above what any target that is answered would have returned.
LEMMA AnswersAreBounds ==
  ASSUME OutcomeInv, NEW s \in Signals, outcome[s] # None, NEW t \in Nat \ {0},
         t <= Outcomes!Ceiling
  PROVE  \/ Outcomes!Share(s, t) >= Outcomes!Outcome(s, t).exit
         \/ outcome[s].status = "target_hit" /\ s.target < t /\ Outcomes!Reach(s, Len(path)) < t
<1> DEFINE r == outcome[s]
           o == Outcomes!Outcome(s, t)
           e == Outcomes!Excursion(r)
           far(k) == Outcomes!Reach(s, k)
<1>1. path \in Seq(DayBars) /\ Len(path) <= HoldDays /\ Len(path) \in Nat
      /\ HoldDays \in Nat \ {0} /\ s.target \in Nat \ {0}
  BY OutcomesAssumption DEF OutcomeInv, Outcomes!OutcomeConstants
<1>2. RowEnds(s)
  BY DEF OutcomeInv
<1>3. r \in OutcomeRow /\ r.window \in Nat /\ r.window <= Len(path) /\ r.full = far(r.window)
  BY <1>2 DEF RowEnds, OutcomeRow
<1>4. PICK n \in 1 .. r.window : Ends(s, s.target, r.status, r.exit, n) /\ r.mfe = far(n)
  BY <1>2 DEF RowEnds
<1>5. n \in 1 .. Len(path) /\ n \in 1 .. r.window /\ n \in 0 .. r.window
      /\ n \in 0 .. Len(path) /\ r.window \in 0 .. Len(path)
  BY <1>1, <1>3
<1>6. /\ far(n) <= far(r.window) /\ far(n) \in Int /\ far(r.window) \in Int
      /\ \A d \in 1 .. n : Best(s, d) <= far(n)
      /\ \A d \in 1 .. r.window : Best(s, d) <= far(r.window)
  <2> HIDE DEF r
  <2> QED BY <1>1, <1>5, ReachGrows, ReachIsThere
<1>7. e = IF r.window >= HoldDays THEN far(r.window) ELSE far(n)
  BY <1>3, <1>4 DEF Outcomes!Excursion, Outcomes!Uncensored
<1>8. Outcomes!Share(s, t) = IF e >= t THEN t ELSE r.exit
  BY DEF Outcomes!Share
<1>9. \A d \in 1 .. Len(path) : /\ Best(s, d) \in Int /\ Worst(s, d) \in Int
                                /\ Outcomes!Closing(s, path[d]) \in Int
                                /\ Outcomes!Closing(s, path[d]) <= Best(s, d)
  BY <1>1, DaysAreWhole
<1>10. \/ Pending(s, t) /\ o = None
       \/ o.exit \in Int /\ Ends(s, t, o.status, o.exit, o.days)
  BY <1>1, OutcomeEnds
<1> DEFINE k == o.days
<1>11. r.exit \in Int
  BY <1>3 DEF OutcomeRow
<1> HIDE DEF r, o, e, far, k
<1>12. e \in Int /\ far(n) <= e
  BY <1>6, <1>7
<1>13. ASSUME e >= t
       PROVE  Outcomes!Share(s, t) >= o.exit
  <2>1. ~Pending(s, t)
    <3>1. CASE r.window >= HoldDays
      BY <1>1, <1>3, <3>1 DEF Pending
    <3>2. CASE ~(r.window >= HoldDays)
      <4>1. far(n) >= t
        BY <1>7, <1>13, <3>2
      <4>2. PICK d \in 1 .. n : far(n) = Best(s, d)
        <5>1. far(n) = 0 \/ \E x \in 1 .. n : far(n) = Best(s, x)
          BY <1>1, <1>5, ReachIsThere DEF far
        <5> QED BY <1>6, <4>1, <5>1
      <4>3. d \in 1 .. Len(path) /\ Best(s, d) >= t
        BY <1>1, <1>5, <4>1, <4>2
      <4> QED BY <4>3 DEF Pending, Touches
    <3> QED BY <3>1, <3>2
  <2>2. o.exit \in Int /\ Ends(s, t, o.status, o.exit, k)
    BY <1>10, <2>1 DEF k
  <2>3. o.exit <= t
    <3>1. k \in 1 .. Len(path)
      BY <2>2 DEF Ends
    <3> QED BY <1>9, <2>2, <3>1 DEF Ends, Touches
  <2> QED BY <1>8, <1>13, <2>2, <2>3
<1>14. CASE e >= t
  BY <1>13, <1>14 DEF o
<1>15. CASE ~(e >= t)
  <2>1. \A d \in 1 .. n : Best(s, d) < t
    <3> SUFFICES ASSUME NEW d \in 1 .. n PROVE Best(s, d) < t
      OBVIOUS
    <3>1. Best(s, d) \in Int /\ Best(s, d) <= far(n)
      BY <1>1, <1>5, <1>6, <1>9
    <3> QED BY <1>6, <1>12, <1>15, <3>1
  <2>2. Outcomes!Share(s, t) = r.exit
    BY <1>8, <1>15
  <2>3. CASE r.status = "stop_hit"
    <3>1. r.exit = -2 /\ Worst(s, n) <= -2
      BY <1>4, <2>3 DEF Ends
    <3>2. \A d \in 1 .. n - 1 : d \in 1 .. Len(path) /\ ~Touches(s, s.target, d) /\ Best(s, d) < t
      <4>1. \A d \in 1 .. n - 1 : d \in 1 .. n
        BY <1>1, <1>5
      <4>2. \A d \in 1 .. n : d \in 1 .. Len(path)
        BY <1>1, <1>5
      <4> QED BY <1>4, <2>1, <4>1, <4>2 DEF Ends
    <3>3. ~Pending(s, t)
      BY <1>5, <3>1 DEF Pending, Touches
    <3>4. o.exit \in Int /\ Ends(s, t, o.status, o.exit, k)
      BY <1>10, <3>3 DEF k
    <3>5. k \in 1 .. Len(path) /\ \A d \in 1 .. k - 1 : ~Touches(s, t, d)
      BY <3>4 DEF Ends
    <3>6. ~(n < k)
      <4> SUFFICES ASSUME n < k PROVE FALSE
        OBVIOUS
      <4>1. n \in 1 .. k - 1
        BY <1>5, <3>5
      <4> QED BY <3>1, <3>5, <4>1 DEF Touches
    <3>7. k \in 1 .. n
      BY <1>1, <1>5, <3>5, <3>6
    <3>8. Best(s, k) < t /\ Best(s, k) \in Int
      BY <1>9, <2>1, <3>5, <3>7
    <3>9. o.status # "target_hit"
      BY <3>4, <3>8 DEF Ends
    <3>10. o.status # "expired"
      <4> SUFFICES ASSUME o.status = "expired" PROVE FALSE
        OBVIOUS
      <4>1. k = Len(path) /\ ~Touches(s, t, k)
        BY <3>4 DEF Ends
      <4>2. n = k
        BY <1>1, <1>5, <3>7, <4>1
      <4> QED BY <3>1, <4>1, <4>2 DEF Touches
    <3>11. o.exit = -2
      BY <3>4, <3>9, <3>10 DEF Ends
    <3> QED BY <2>2, <3>1, <3>11 DEF o
  <2>4. CASE r.status = "target_hit"
    <3>1. Best(s, n) >= s.target
      BY <1>4, <2>4 DEF Ends
    <3>2. s.target < t
      BY <1>1, <1>5, <1>9, <2>1, <3>1
    <3>3. r.window >= HoldDays
      <4> SUFFICES ASSUME ~(r.window >= HoldDays) PROVE FALSE
        OBVIOUS
      <4> DEFINE hit == {x \in Outcomes!Resolved :
                            outcome[x].status = "target_hit" /\ ~Outcomes!Uncensored(outcome[x])}
                 targets == {x.target : x \in hit}
      <4>1. s \in hit
        BY <2>4 DEF r, Outcomes!Resolved, Outcomes!Uncensored
      <4>2. Outcomes!Ceiling = CHOOSE x \in targets : \A y \in targets : x <= y
        BY <4>1 DEF Outcomes!Ceiling, Outcomes!Min
      <4>3. targets \in SUBSET Nat /\ s.target \in targets
        BY <4>1, OutcomesAssumption DEF Outcomes!Resolved, Outcomes!OutcomeConstants
      <4> HIDE DEF targets
      <4>4. Outcomes!Ceiling \in Nat /\ Outcomes!Ceiling <= s.target
        BY <4>2, <4>3, LeastOfSet
      <4> QED BY <1>1, <3>2, <4>4
    <3>4. r.window = Len(path)
      BY <1>1, <1>3, <3>3
    <3>5. far(Len(path)) < t
      BY <1>6, <1>7, <1>15, <3>3, <3>4
    <3> QED BY <2>4, <3>2, <3>5 DEF r, far
  <2>5. CASE r.status = "expired"
    <3>1. n = HoldDays /\ n = Len(path) /\ r.exit = Outcomes!Closing(s, path[n])
          /\ ~Touches(s, s.target, n) /\ \A d \in 1 .. n - 1 : ~Touches(s, s.target, d)
      BY <1>4, <2>5 DEF Ends
    <3>2. \A d \in 1 .. n : ~Touches(s, s.target, d)
      BY <1>1, <1>5, <3>1
    <3>3. \A d \in 1 .. n : ~Touches(s, t, d)
      BY <1>1, <1>9, <2>1, <3>1, <3>2 DEF Touches
    <3>4. ~Pending(s, t)
      BY <1>1, <3>1 DEF Pending
    <3>5. o.exit \in Int /\ Ends(s, t, o.status, o.exit, k)
      BY <1>10, <3>4 DEF k
    <3>6. k \in 1 .. n /\ ~Touches(s, t, k) /\ Best(s, k) \in Int
      BY <1>9, <3>1, <3>3, <3>5 DEF Ends
    <3>7. o.exit = r.exit
      BY <3>1, <3>5, <3>6 DEF Ends, Touches
    <3> QED BY <1>11, <2>2, <3>7 DEF o
  <2>6. r.status \in {"target_hit", "stop_hit", "expired"}
    BY <1>3 DEF OutcomeRow
  <2> QED BY <2>3, <2>4, <2>5, <2>6
<1> QED BY <1>14, <1>15

\* No row returns more than its signal was seen to reach, or than its target.
LEMMA ReturnsAreReached ==
  ASSUME OutcomeInv, NEW s \in Signals, outcome[s] # None
  PROVE  LET r == outcome[s]
         IN  r.exit \in Int /\ r.exit <= Outcomes!Excursion(r) /\ r.exit <= s.target
<1> DEFINE r == outcome[s]
           far(k) == Outcomes!Reach(s, k)
<1>1. path \in Seq(DayBars) /\ Len(path) \in Nat /\ s.target \in Nat \ {0}
  BY OutcomesAssumption DEF OutcomeInv, Outcomes!OutcomeConstants
<1>2. RowEnds(s)
  BY DEF OutcomeInv
<1>3. r \in OutcomeRow /\ r.window \in Nat /\ r.window <= Len(path) /\ r.full = far(r.window)
      /\ r.exit \in Int
  BY <1>2 DEF RowEnds, OutcomeRow
<1>4. PICK n \in 1 .. r.window : Ends(s, s.target, r.status, r.exit, n) /\ r.mfe = far(n)
  BY <1>2 DEF RowEnds
<1>5. n \in 1 .. Len(path) /\ n \in 1 .. r.window /\ n \in 0 .. r.window
      /\ n \in 0 .. Len(path) /\ r.window \in 0 .. Len(path) /\ n \in 1 .. n
  BY <1>1, <1>3
<1> DEFINE e == Outcomes!Excursion(r)
<1>6. e = far(r.window) \/ e = far(n)
  BY <1>3, <1>4 DEF Outcomes!Excursion
<1> HIDE DEF r, e
<1>7. far(n) <= far(r.window) /\ far(n) \in Int /\ far(r.window) \in Int /\ far(n) >= 0
      /\ Best(s, n) <= far(n)
  BY <1>1, <1>5, ReachGrows, ReachIsThere
<1> HIDE DEF far
<1>8. e \in Int /\ far(n) <= e
  BY <1>6, <1>7
<1>9. Best(s, n) \in Int /\ Outcomes!Closing(s, path[n]) \in Int
      /\ Outcomes!Closing(s, path[n]) <= Best(s, n)
  BY <1>1, <1>5, DaysAreWhole
<1>10. r.exit <= far(n) /\ r.exit <= s.target
  <2>1. \/ r.exit = -2
        \/ r.exit = s.target /\ Best(s, n) >= s.target
        \/ r.exit = Outcomes!Closing(s, path[n]) /\ ~(Best(s, n) >= s.target)
    BY <1>4 DEF Ends, Touches
  <2> QED BY <1>1, <1>7, <1>9, <2>1
<1> QED BY <1>3, <1>7, <1>8, <1>10 DEF r, e

LEMMA OutcomeHolds == OutcomeInv => Outcomes!OutcomeStatsHold
<1> SUFFICES ASSUME OutcomeInv PROVE Outcomes!OutcomeStatsHold
  OBVIOUS
<1>1. Targets \subseteq Nat \ {0}
  BY OutcomesAssumption DEF Outcomes!OutcomeConstants
<1>2. Outcomes!OptimisticToTheTarget
  <2> SUFFICES ASSUME NEW s \in Outcomes!Resolved, NEW t \in Outcomes!Answered
               PROVE  \/ Outcomes!Share(s, t) >= Outcomes!Outcome(s, t).exit
                      \/ outcome[s].status = "target_hit" /\ s.target < t
                         /\ Outcomes!Reach(s, Len(path)) < t
    BY DEF Outcomes!OptimisticToTheTarget
  <2>1. s \in Signals /\ outcome[s] # None /\ t \in Nat \ {0} /\ t <= Outcomes!Ceiling
    BY <1>1 DEF Outcomes!Resolved, Outcomes!Answered
  <2> QED BY <2>1, AnswersAreBounds
<1>3. ASSUME NEW s \in Outcomes!Resolved
      PROVE  s \in Signals /\ outcome[s] # None
  BY DEF Outcomes!Resolved
<1>4. Outcomes!ReturnIsReached
  BY <1>3, ReturnsAreReached DEF Outcomes!ReturnIsReached
<1>5. Outcomes!OwnTargetIsNotUndersold
  <2> SUFFICES ASSUME NEW s \in Outcomes!Resolved
               PROVE  Outcomes!Share(s, s.target) >= outcome[s].exit
    BY DEF Outcomes!OwnTargetIsNotUndersold
  <2>1. outcome[s].exit \in Int /\ outcome[s].exit <= s.target
    BY <1>3, ReturnsAreReached
  <2>2. s.target \in Nat
    BY <1>3, OutcomesAssumption DEF Outcomes!OutcomeConstants
  <2> QED BY <2>1, <2>2 DEF Outcomes!Share
<1> QED BY <1>2, <1>4, <1>5 DEF Outcomes!OutcomeStatsHold

-----------------------------------------------------------------------------
(* The services side by side.                                              *)

\* A step of the run is a step of one of the services; the others stay.
LEMMA ServiceSteps ==
  [SumNext]_sumVars =>
    /\ [C!Next]_(C!vars) /\ [O!Next]_orderVars /\ [F!Next]_feedVars /\ [T!Next]_taskVars
    /\ [B!Next]_stopVars /\ [S!Next]_sessionVars
    /\ [Account!Next]_accountVars /\ [Cancels!Next]_cancelVars /\ [Booking!Next]_ledgerVars
    /\ [Lab!Next]_labVars /\ [Health!Next]_healthVars /\ [Shares!Next]_shareVars
    /\ [Preset!Next]_modeVars /\ [Scoring!EquityNext]_equityVars
    /\ [Scoring!OptionsNext]_spreadVars /\ [Outcomes!Next]_outcomeVars
<1> SUFFICES ASSUME [SumNext]_sumVars
             PROVE  /\ C!Next \/ UNCHANGED poolVars
                    /\ O!Next \/ UNCHANGED orderVars
                    /\ F!Next \/ UNCHANGED feedVars
                    /\ T!Next \/ UNCHANGED taskVars
                    /\ B!Next \/ UNCHANGED stopVars
                    /\ S!Next \/ UNCHANGED sessionVars
                    /\ Account!Next \/ UNCHANGED accountVars
                    /\ Cancels!Next \/ UNCHANGED cancelVars
                    /\ Booking!Next \/ UNCHANGED ledgerVars
                    /\ Lab!Next \/ UNCHANGED labVars
                    /\ Health!Next \/ UNCHANGED healthVars
                    /\ Shares!Next \/ UNCHANGED shareVars
                    /\ Preset!Next \/ UNCHANGED modeVars
                    /\ Scoring!EquityNext \/ UNCHANGED equityVars
                    /\ Scoring!OptionsNext \/ UNCHANGED spreadVars
                    /\ Outcomes!Next \/ UNCHANGED outcomeVars
  BY DEF C!vars, poolVars
<1>1. CASE UNCHANGED sumVars
  BY <1>1 DEF sumVars, deskVars
<1>2. CASE SumNext
  <2>1. CASE /\ UNCHANGED <<vars, orderVars, poolVars, feedVars, sessionVars, stopVars, taskVars>>
             /\ DeskNext
    BY <2>1 DEF DeskNext
  <2>2. CASE UNCHANGED deskVars
    BY <1>2, <2>2 DEF SumNext, deskVars
  <2> QED BY <1>2, <2>1, <2>2 DEF SumNext
<1> QED BY <1>1, <1>2

ServicesInv == PoolInv /\ OrderInv /\ FeedInv /\ LoopInv

LEMMA ServicesKept == ServicesInv /\ [SumNext]_sumVars => ServicesInv'
BY ServiceSteps, CoordinatorAssumption, PoolKept, OrderKept, FeedKept, LoopKept DEF ServicesInv

\* Side by side nothing is lost: the order call leaves nothing working but what it
\* reports, and buys too much only through a fill that went unseen; no key, job or wait
\* of the coordinator is lost; only a changing subscription or an unreadable key ends
\* the update loop; and however its tasks hang, the background loop starts none later
\* than two passes after its time.
THEOREM NothingIsLost == SumSpec => []NothingLost
<1>1. SumInit => ServicesInv
  BY CoordinatorAssumption, PoolStarts, OrderStarts, FeedStarts, LoopStarts
  DEF SumInit, ServicesInv
<1>2. ServicesInv /\ [SumNext]_sumVars => ServicesInv'
  BY ServicesKept
<1>3. ServicesInv => NothingLost
  BY OrderHolds, LoopHolds DEF ServicesInv, NothingLost, PoolInv, FeedInv
<1> QED BY <1>1, <1>2, <1>3, PTL DEF SumSpec

\* However logins, logouts, requests and failures interleave, no request that came after
\* its session's logout was answered, or after the account was disabled, is let in; and
\* no window of time holds more attempts to log in than the limit.
THEOREM NobodySlips == SumSpec => []NobodySlipsIn
<1>1. SumInit => SessionsInv
  BY SessionsStart DEF SumInit
<1>2. SessionsInv /\ [SumNext]_sumVars => SessionsInv'
  BY ServiceSteps, SessionsKept
<1>3. SessionsInv => NobodySlipsIn
  BY SessionsHold DEF NobodySlipsIn
<1> QED BY <1>1, <1>2, <1>3, PTL DEF SumSpec

\* The backfill: unless the broker moved between the reads, the stop that a step records
\* on a row loses what the orders that rest lose one by one, and covers the position.
THEOREM BackfillIsExact == SumSpec => BlendIsExact
<1>1. SumInit => StopsInv
  BY StopsStarts
<1>2. StopsInv /\ [SumNext]_sumVars => StopsInv'
  BY ServiceSteps, StopsKept
<1>3. StopsInv /\ [SumNext]_sumVars =>
        [\A r \in Rows : stops'[r].stop # stops[r].stop /\ ~moved =>
           LET t == stops'[r]
           IN  /\ B!Size(t.entry * t.stop.over - t.stop.sum) = B!LossAtLegs(t)
               /\ B!SumFunction([l \in B!Resting |-> leg[l].qty]) = B!Size(position)]_stopVars
  BY ServiceSteps, BlendIsExactStep
<1> QED BY <1>1, <1>2, <1>3, PTL DEF SumSpec, BlendIsExact, B!BlendIsExact, B!vars, stopVars

BrokerInv == AccountInv /\ CancelInv /\ BookInv

\* What is answered from the account values, cancelled by a request and booked for a
\* spread rests on what was true at the broker: values called current were pushed within
\* the age limit, no position in shares loses its stop to a cancel but through a race, and
\* the P&L booked for a spread is the cash it brought, to half a cent per contract, unless
\* one of the named gaps is in play.
THEOREM BrokerRead == SumSpec => []BrokerIsReadTrue
<1>1. SumInit => BrokerInv
  <2>1. SumInit => Account!Init /\ Booking!Init
    BY DEF SumInit
  <2> QED BY <2>1, AccountStarts, CancelStarts, BookStarts DEF BrokerInv
<1>2. BrokerInv /\ [SumNext]_sumVars => BrokerInv'
  BY ServiceSteps, AccountKept, CancelKept, BookKept DEF BrokerInv
<1>3. BrokerInv => BrokerIsReadTrue
  BY BookHolds DEF BrokerInv, BrokerIsReadTrue, AccountInv, CancelInv
<1> QED BY <1>1, <1>2, <1>3, PTL DEF SumSpec

DeskInv == LabInv /\ HealthInv /\ SharesInv /\ PresetInv

\* A strategy earns its place: it is on paper or promoted on evidence that clears the
\* gates, unless two requests worked on its row at once; a suspension for a losing streak
\* is for good; no share exceeds the cap, the shares never add up to more than the capital,
\* and to less only when everybody with a share is at the cap; a preset survives restarts
\* unless its row was lost or two requests overlapped; and a trade is made under one
\* preset unless it changed on the way.
THEOREM PlacesAreEarned == SumSpec => []StrategiesEarnTheirPlace
<1>1. SumInit => DeskInv
  <2>1. SumInit => /\ Lab!Init /\ Health!Init /\ Preset!Init
                   /\ IF subject = "shares" THEN Shares!Init /\ Standing \subseteq sanctioned
                      ELSE card = <<>> /\ sanctioned = {} /\ weights = None
    BY DEF SumInit
  <2> QED BY <2>1, LabStarts, HealthStarts, SharesStart, PresetStarts DEF DeskInv
<1>2. DeskInv /\ [SumNext]_sumVars => DeskInv'
  BY ServiceSteps, LabKept, HealthKept, SharesKept, PresetKept DEF DeskInv
<1>3. DeskInv => StrategiesEarnTheirPlace
  BY LabHolds, HealthHolds, SharesHold, PresetHolds DEF DeskInv, StrategiesEarnTheirPlace
<1> QED BY <1>1, <1>2, <1>3, PTL DEF SumSpec

ScoresInv == EquityInv /\ SpreadScoreInv /\ OutcomeInv

\* Scores and outcomes, for all readings, quotes, accounts, thresholds, spreads, days and
\* targets: a score knows no side, no vote turned towards a signal weakens it, a plan keeps
\* to its risk, earnings are overlooked only through the gate's gaps; a spread below the
\* threshold takes a failing regressor, the page shows the scorer in use; and what the
\* outcomes say of another target bounds what it would have returned, but in one way.
THEOREM ScoresAreFair == SumSpec => []SignalsAreScoredRight
<1>1. SumInit => ScoresInv
  <2>1. SumInit => Scoring!EquityInit /\ Scoring!OptionsInit /\ Outcomes!Init
    BY DEF SumInit
  <2> QED BY <2>1, EquityStarts, SpreadScoreStarts, OutcomeStarts DEF ScoresInv
<1>2. ScoresInv /\ [SumNext]_sumVars => ScoresInv'
  BY ServiceSteps, EquityKept, SpreadScoreKept, OutcomeKept DEF ScoresInv
<1>3. ScoresInv => SignalsAreScoredRight
  BY EquityHolds, SpreadScoreHolds, OutcomeHolds DEF ScoresInv, SignalsAreScoredRight
<1> QED BY <1>1, <1>2, <1>3, PTL DEF SumSpec
=============================================================================
