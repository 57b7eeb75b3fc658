------------------------------ MODULE Scheduler ------------------------------
(***************************************************************************)
(* The background loop: one coroutine that starts, one after the other,    *)
(* the tasks that are due, each cut off at its guard, then sleeps.  A mark *)
(* of a task is the reading of the clock at the top of the pass that ran   *)
(* it.  The loop's heartbeat is what the health panel calls the agent      *)
(* alive by.  Time is counted in steps of the sleep between two passes.    *)
(***************************************************************************)
EXTENDS Integers, SequencesExt, FiniteSetsExt, Functions

CONSTANTS
  Tasks,      \* the tasks that are watched; the others take no time
  Interval,   \* of each task, the time from one mark to the next start
  Guard,      \* of each task, the time it is cut off at
  Limit,      \* of the health panel, on the age of the heartbeat
  None

VARIABLES
  running,    \* the task that runs, None between tasks
  length,     \* the time it takes
  age,        \* of each task, the time since its mark
  spent,      \* the time since the top of the pass
  beat,       \* the time since the heartbeat
  crisis      \* the regime forbids equities in this pass

vars == <<running, length, age, spent, beat, crisis>>

\* The order of the loop.
Order == <<"reconnect", "regime", "equity", "options", "fills", "greeks", "reconciliation",
           "backfill", "correlation", "sector", "snapshot", "outcomes">>

\* The tasks are some of the loop's, the reconnect among them, which the panel has the
\* patience for; the backfill comes with the reconciliation that it follows.
TasksAreScheduled ==
  /\ Tasks \subseteq {Order[i] : i \in DOMAIN Order} /\ None \notin Tasks
  /\ "reconnect" \in Tasks /\ ("backfill" \in Tasks => "reconciliation" \in Tasks)
  /\ Guard \in [Tasks -> Nat] /\ Interval \in [Tasks -> Nat \ {0}]
  /\ Limit \in Nat /\ Guard["reconnect"] < Limit

\* The marks that start at the start of the process; the others start at zero, which
\* is the boot of the machine.
AtStart == {"regime", "equity", "options", "outcomes"}

\* The wait between two passes.
Pause == 1

\* A task is over at once, or takes all the time its guard leaves it: one that hangs
\* is cut off there.
Lengths(t) == {0, Guard[t]}

Later(ages, d) == [t \in Tasks |-> ages[t] + d]

\* What is due is told by the clock at the top of the pass; the backfill of stops has
\* no clock, it follows the reconciliation of the same pass.
Due(t) ==
  IF t = "backfill" THEN age["reconciliation"] = spent /\ age[t] # spent
  ELSE age[t] - spent >= Interval[t]

FirstDue == SelectInSeq(Order, LAMBDA t : t \in Tasks /\ Due(t))

-----------------------------------------------------------------------------

\* A machine that has been up for longer than the interval of a task has it due.
Init ==
  /\ running = None /\ length = 0 /\ spent = 0 /\ beat = 0
  /\ \E uptime \in UNION {0 .. Interval[t] : t \in Tasks} :
       age = [t \in Tasks |-> IF t \in AtStart THEN 0 ELSE Min({uptime, Interval[t]})]
  /\ crisis \in BOOLEAN

\* The next task that is due starts.
Begin ==
  /\ running = None /\ FirstDue # 0
  /\ LET t == Order[FirstDue] IN
       /\ ~(t = "equity" /\ crisis)
       /\ running' = t
       /\ length' \in Lengths(t)
  /\ UNCHANGED <<age, spent, beat, crisis>>

\* In a crisis the equity scan is marked as if it had run.
SkipEquities ==
  /\ running = None /\ FirstDue # 0 /\ Order[FirstDue] = "equity" /\ crisis
  /\ age' = [age EXCEPT !["equity"] = spent]
  /\ UNCHANGED <<running, length, spent, beat, crisis>>

\* The heartbeat after a task: of all that the loop awaits, the reconnect alone has a
\* time limit of its own and leaves the heartbeat as it was.
Refreshed(t, gap) == IF t = "reconnect" THEN gap ELSE 0

\* The task returns, fails or is cut off.
Finish ==
  /\ running # None
  /\ spent' = spent + length
  /\ age' = [Later(age, length) EXCEPT ![running] = spent']
  /\ beat' = Refreshed(running, beat + length)
  /\ running' = None /\ length' = 0
  /\ UNCHANGED crisis

\* Nothing is due: the loop sleeps and begins the next pass with a heartbeat.
Sleep ==
  /\ running = None /\ FirstDue = 0
  /\ age' = Later(age, Pause)
  /\ spent' = 0 /\ beat' = 0
  /\ crisis' \in BOOLEAN
  /\ UNCHANGED <<running, length>>

Next == Begin \/ SkipEquities \/ Finish \/ Sleep

Spec == Init /\ [][Next]_vars /\ WF_vars(Next)

-----------------------------------------------------------------------------

TypeOK ==
  /\ running \in Tasks \cup {None} /\ length \in Nat
  /\ age \in [Tasks -> Nat] /\ spent \in Nat /\ beat \in Nat
  /\ crisis \in BOOLEAN

\* The longest a pass can take.
LongestPass == SumFunctionOnSet(Guard, Tasks)

\* However the tasks hang, a task starts at the latest two passes after its interval:
\* the one that was under way when it came due and the one that it waits in.
OnTime ==
  \A t \in Tasks \ {"backfill"} :
    age[t] + length <= Interval[t] + Pause + 2 * LongestPass

\* The panel calls the agent stalled only while a task runs whose guard, with that of
\* a reconnect before it, is above the panel's limit.
StalledTakesALongTask ==
  beat + length >= Limit => running # None /\ Guard[running] + Guard["reconnect"] >= Limit

SchedulerHolds == OnTime /\ StalledTakesALongTask

\* The end of a pass.
Asleep == running = None /\ FirstDue = 0

=============================================================================
