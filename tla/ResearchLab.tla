----------------------------- MODULE ResearchLab -----------------------------
(***************************************************************************)
(* The research funnel (services/research_lab.py, api/routes/research.py): *)
(* an experiment of one strategy moves from draft to promoted through      *)
(* gates.  A request reads the row, computes a patch from what it read and *)
(* commits it; nothing locks the row in between, and the commit writes the *)
(* columns that the patch changed.  A promoted row carries the baseline    *)
(* that the health page grades the strategy by.                            *)
(*                                                                         *)
(* Metrics are graded, not computed: "ok" says that they clear their gate, *)
(* dd is their drawdown.                                                   *)
(***************************************************************************)
EXTENDS Naturals

CONSTANTS
  None,
  Requests,     \* transition requests that may be under way at once
  Backtests,    \* backtest metrics a caller may send
  Walks,        \* walk-forward metrics
  Perfs,        \* paper performance
  Floor,        \* the smallest drawdown tolerance of a baseline
  MaxMoves      \* bound: transition requests let through

VARIABLES
  exp,          \* the experiment's row
  pending,      \* per request: the row it read and the row it will write
  moves,        \* transition requests let through
  crossed       \* two requests have held a reading of the row at once

vars == <<exp, pending, moves, crossed>>

\* Drawdowns and their floor are numbers.
DrawdownsAreNumbers ==
  Floor \in Nat /\ \A m \in Backtests \cup Perfs : m.dd \in Nat

Stages == {"draft", "backtested", "walk_forward", "paper", "promoted", "archived"}

\* Where a stage may go next.
Allowed ==
  [draft        |-> {"backtested", "archived"},
   backtested   |-> {"walk_forward", "draft", "archived"},
   walk_forward |-> {"paper", "backtested", "archived"},
   paper        |-> {"promoted", "walk_forward", "archived"},
   promoted     |-> {"paper", "archived"},
   archived     |-> {"draft"}]

\* A gate needs metrics, and metrics that clear it.
Clears(m) == m # None /\ m.ok

Highest(a, b) == IF a < b THEN b ELSE a

\* mutant of BaselineOf: the tolerance of the paper record alone.
BaselineOfPaper(perf, backtest) == [of |-> perf, tol |-> Highest(perf.dd, Floor)]

\* The drawdown tolerance is the worst of paper, backtest and the floor.
BaselineOf(perf, backtest) ==
  [of  |-> perf,
   tol |-> Highest(Highest(perf.dd, Floor),
                   IF backtest = None THEN 0 ELSE backtest.dd)]

\* What the caller sent, or else what the row holds.
Given(sent, stored) == IF sent = None THEN stored ELSE sent

\* The rows a transition of row r to a target may leave behind; empty when it
\* is refused.  bt, wf and p are the metrics that came with the request.
Patched(r, target, bt, wf, p) ==
  { n \in
    {IF target = "backtested" THEN [r EXCEPT !.stage = target, !.backtest = bt]
     ELSE IF target \in {"walk_forward", "paper"} /\ r.stage \in {"backtested", "walk_forward"}
       THEN [r EXCEPT !.stage = target, !.walk = Given(wf, @)]
     ELSE IF target = "promoted"
       THEN LET q == Given(p, r.perf)
            IN [r EXCEPT !.stage = target, !.perf = q,
                         !.base = IF q = None THEN @ ELSE BaselineOf(q, r.backtest)]
     ELSE [r EXCEPT !.stage = target]} :
    /\ target \in Allowed[r.stage]
    /\ target = "backtested" => bt # None
    /\ target = "walk_forward" /\ r.stage = "backtested" => Clears(Given(bt, r.backtest))
    /\ target = "paper" /\ r.stage = "walk_forward" => Clears(n.walk)
    /\ target = "promoted" => Clears(n.perf) }

Fresh == [stage |-> "draft", backtest |-> None, walk |-> None, perf |-> None,
          base |-> None]

Init ==
  /\ exp = Fresh
  /\ pending = [q \in Requests |-> None]
  /\ moves = 0 /\ crossed = FALSE

\* transition_experiment reads the row and decides.
Read(q) ==
  /\ pending[q] = None
  /\ moves < MaxMoves
  /\ \E target \in Stages, bt \in Backtests \cup {None}, wf \in Walks \cup {None},
        p \in Perfs \cup {None} :
       \E n \in Patched(exp, target, bt, wf, p) :
         pending' = [pending EXCEPT ![q] = [old |-> exp, new |-> n]]
  /\ crossed' = (crossed \/ \E o \in Requests \ {q} : pending[o] # None)
  /\ moves' = moves + 1
  /\ UNCHANGED exp

\* ... and commits the columns that the patch changed.
Commit(q) ==
  /\ pending[q] # None
  /\ exp' = [c \in DOMAIN exp |->
               IF pending[q].new[c] = pending[q].old[c] THEN exp[c]
               ELSE pending[q].new[c]]
  /\ pending' = [pending EXCEPT ![q] = None]
  /\ UNCHANGED <<moves, crossed>>

\* The request fails at the database: nothing is written.
Fail(q) ==
  /\ pending[q] # None
  /\ pending' = [pending EXCEPT ![q] = None]
  /\ UNCHANGED <<exp, moves, crossed>>

Next ==
  \/ \E q \in Requests : Read(q)
  \/ \E q \in Requests : Commit(q)
  \/ \E q \in Requests : Fail(q)

-----------------------------------------------------------------------------
TypeOK ==
  /\ exp.stage \in Stages
  /\ exp.backtest \in Backtests \cup {None} /\ exp.walk \in Walks \cup {None}
  /\ exp.perf \in Perfs \cup {None}
  /\ exp.base # None => exp.base.of \in Perfs /\ exp.base.tol \in Nat
  /\ \A q \in Requests : pending[q] # None =>
       pending[q].old.stage \in Stages /\ pending[q].new.stage \in Stages

\* What a promoted strategy rests on: walk-forward metrics and a paper record
\* that clear their gates, and a baseline drawn from that record which is no
\* tighter than it.
Earned ==
  /\ exp.stage \in {"paper", "promoted"} => Clears(exp.walk)
  /\ exp.stage = "promoted" =>
       /\ Clears(exp.perf) /\ exp.base.of = exp.perf
       /\ exp.base.tol >= exp.perf.dd /\ exp.base.tol >= Floor
       /\ exp.backtest # None => exp.base.tol >= exp.backtest.dd

\* A strategy is on paper or promoted without the evidence for it only after
\* two requests worked on the row at once.
UnearnedTakesARace == ~crossed => Earned
=============================================================================
