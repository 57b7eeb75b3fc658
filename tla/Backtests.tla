----------------------------- MODULE Backtests -----------------------------
(***************************************************************************)
(* A backtest, from the request to its row: the walk forward over the bars *)
(* under the guardrails that the live executions ask, and the life of the  *)
(* run in memory and in the table.                                         *)
(*                                                                         *)
(* Prices are abstracted to what they decide: which position a bar closes, *)
(* with what profit, and whether a signal passes its threshold, finds its  *)
(* strikes and is worth its commission.                                    *)
(***************************************************************************)
EXTENDS Guardrails, FiniteSetsExt, SequencesExt

CONSTANTS
  BacktestKinds,  \* of the strategy names and "equity"
  Capital, Pnls,  \* starting capital; what a closed position may bring
  Gaps,           \* days from one bar to the next
  Life,           \* days a spread is held at the longest
  LastDay, DaysPerWeek, DaysPerMonth,
  MaxHeld,        \* bound on open spreads, for TLC
  MaxBreaks       \* database errors and restarts

VARIABLES
  kind,     \* what is tested
  task,     \* the background task of the run
  run,      \* its status in _runs
  saved,    \* its status in its row
  walk,     \* the bar's day, the open positions' expiries, the account
  breaks

vars == <<kind, task, run, saved, walk, breaks>>

\* Time goes on from bar to bar, and one loss is not a streak of none.
BacktestConstants ==
  /\ Gaps \subseteq Nat \ {0} /\ {Life, MaxStreak} \subseteq Nat \ {0}
  /\ {LastDay, MaxHeld, MaxBreaks} \subseteq Nat

Statuses == {"none", "queued", "running", "completed", "failed"}

Rest == 2  \* 48 hours

Fresh ==
  [day |-> 0, open |-> {}, value |-> Capital, daily |-> 0, weekly |-> 0,
   monthly |-> 0, streak |-> 0, until |-> 0, trades |-> 0]

TypeOK ==
  /\ kind \in BacktestKinds /\ task \in {"none", "queued", "walking"}
  /\ run \in Statuses /\ saved \in Statuses \ {"running"}
  /\ walk.day \in 0 .. LastDay /\ walk.open \subseteq 1 .. LastDay + Life
  /\ Cardinality(walk.open) <= (IF kind = "equity" THEN 1 ELSE MaxHeld)
  /\ {walk.streak, walk.until, walk.trades} \subseteq Nat
  /\ breaks \in 0 .. MaxBreaks

Init ==
  /\ kind \in BacktestKinds /\ task = "none" /\ run = "none" /\ saved = "none"
  /\ walk = Fresh /\ breaks = 0

-----------------------------------------------------------------------------
(* One bar.                                                                *)

\* The windows restart at their boundaries, and the pause after a losing
\* streak ends, and the streak with it.
Turned(w, today) ==
  LET rested == w.until # 0 /\ today >= w.until
  IN  [w EXCEPT
         !.day = today, !.trades = 0, !.daily = 0,
         !.weekly  = IF today \div DaysPerWeek # w.day \div DaysPerWeek THEN 0 ELSE @,
         !.monthly = IF today \div DaysPerMonth # w.day \div DaysPerMonth THEN 0 ELSE @,
         !.streak  = IF rested THEN 0 ELSE @,
         !.until   = IF rested THEN 0 ELSE @]

\* A position is closed with profit pnl.
Booked(w, pnl) ==
  LET streak == IF pnl < 0 THEN w.streak + 1 ELSE 0
  IN  [w EXCEPT
         !.value = @ + pnl, !.daily = @ + pnl, !.weekly = @ + pnl, !.monthly = @ + pnl,
         !.streak = streak,
         !.until = IF streak >= MaxStreak THEN w.day + Rest ELSE 0]

\* The open positions are repriced in turn.  Some reach a target, a stop or a
\* time limit; an expired spread is closed whatever its price.
Closed(w) ==
  UNION {LET gone == Cardinality(w.open \ kept)
         IN  {[w |-> [FoldLeft(Booked, w, results) EXCEPT !.open = kept], gone |-> gone] :
                results \in [1 .. gone -> Pnls]} :
           kept \in SUBSET {e \in w.open : e > w.day}}

Portfolio(w) ==
  [start |-> Capital, value |-> w.value, daily |-> w.daily, weekly |-> w.weekly,
   monthly |-> w.monthly, peak |-> 0, streak |-> w.streak, trades |-> w.trades,
   cooling |-> FALSE]

\* The guardrails of the live desk; the list of strategies only for options.
Guarded(w) ==
  LET status == CheckAll(Portfolio(w))
  IN  status.allowed /\ (kind = "equity" \/ StrategyAllowed(kind, status))

\* An equity is bought only when none is held and none was sold in this bar.
MayEnter(w, gone) ==
  /\ Guarded(w) /\ Cardinality(w.open) < MaxHeld
  /\ kind = "equity" => w.open = {} /\ gone = 0

\* An equity has no expiry: one after the last bar.
Entered(w) ==
  [w EXCEPT !.open = @ \cup {IF kind = "equity" THEN LastDay + Life ELSE w.day + Life},
            !.trades = @ + 1]

\* Whether a signal passes its threshold and is worth its price is left open.
Bar(gap) ==
  /\ task = "walking" /\ walk.day + gap <= LastDay
  /\ \E c \in Closed(Turned(walk, walk.day + gap)) :
       \/ walk' = c.w
       \/ MayEnter(c.w, c.gone) /\ walk' = Entered(c.w)
  /\ UNCHANGED <<kind, task, run, saved, breaks>>

-----------------------------------------------------------------------------
(* The run.                                                                *)

\* _persist_run: an error is logged and the caller goes on.
Persist(status) ==
  \/ saved' = status /\ UNCHANGED breaks
  \/ breaks < MaxBreaks /\ breaks' = breaks + 1 /\ UNCHANGED saved

Request ==
  /\ task = "none" /\ run = "none" /\ saved = "none"
  /\ task' = "queued" /\ run' = "queued" /\ Persist("queued")
  /\ UNCHANGED <<kind, walk>>

Begin ==
  /\ task = "queued" /\ task' = "walking" /\ run' = "running" /\ walk' = Fresh
  /\ UNCHANGED <<kind, saved, breaks>>

\* Positions still open at the end count nothing.
Finish ==
  /\ task = "walking" /\ task' = "none" /\ run' = "completed" /\ Persist("completed")
  /\ walk' = Fresh /\ UNCHANGED kind

\* No data, or an error anywhere in the walk.
Fail ==
  /\ task = "walking" /\ task' = "none" /\ run' = "failed" /\ Persist("failed")
  /\ walk' = Fresh /\ UNCHANGED kind

\* The results of a run that _runs does not know are cached from its row.
Results ==
  /\ run = "none" /\ saved # "none" /\ run' = saved
  /\ UNCHANGED <<kind, task, saved, walk, breaks>>

Restart ==
  /\ breaks < MaxBreaks /\ breaks' = breaks + 1
  /\ task' = "none" /\ run' = "none" /\ walk' = Fresh
  /\ UNCHANGED <<kind, saved>>

Next ==
  \/ \E gap \in Gaps : Bar(gap)
  \/ Request \/ Begin \/ Finish \/ Fail \/ Results \/ Restart

Spec == Init /\ [][Next]_vars

-----------------------------------------------------------------------------

(***************************************************************************)
(* A losing streak never blocks the rest of the walk: while it is long     *)
(* enough to suspend entries the end of the pause is set, at most Rest     *)
(* days ahead (consecutive_loss_lockout_until).                            *)
(***************************************************************************)
PauseEnds ==
  walk.streak >= MaxStreak => walk.until \in walk.day + 1 .. walk.day + Rest

(***************************************************************************)
(* When no task works on a run any more its row says how it ended; that it *)
(* does not, and shows a run that is queued for ever, takes a failed write *)
(* or a restart (_execute_backtest, _persist_run).                         *)
(***************************************************************************)
StaleRowTakesABreak ==
  task = "none" /\ (run # "none" \/ saved # "none") =>
    breaks > 0 \/ (saved = run /\ run \in {"completed", "failed"})
=============================================================================
