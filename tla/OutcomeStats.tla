---------------------------- MODULE OutcomeStats ----------------------------
(***************************************************************************)
(* What the outcomes of signals say about where their targets belong       *)
(* (services/signal_outcome_tracker.py): the walk over the days after a    *)
(* signal, its outcome and excursions, the later measurement over the      *)
(* whole window, and the counterfactual: what the same signals would have  *)
(* returned with their targets somewhere else.                             *)
(*                                                                         *)
(* Prices are distances from the entry in halves of the risk: the stop is  *)
(* at -2, a target of 1.5R at 3.                                           *)
(***************************************************************************)
EXTENDS Integers, Sequences, FiniteSetsExt

CONSTANTS
  None,
  Signals,      \* side and target
  Bars,         \* high, low and close of a day
  Candidates,   \* targets to ask about
  Hold          \* days a signal is given

\* A bar has its close between its ends; a target lies beyond the entry.
OutcomeConstants ==
  /\ Hold \in Nat \ {0} /\ Candidates \subseteq Nat \ {0}
  /\ \A s \in Signals : s.side \in {"BUY", "SELL"} /\ s.target \in Nat \ {0}
  /\ \A b \in Bars : {b.low, b.close, b.high} \subseteq Int /\ b.low <= b.close
                      /\ b.close <= b.high

VARIABLES
  bars,         \* the days since the signals
  row           \* the outcome of each signal, or None while it is pending

vars == <<bars, row>>

Risk == 2

Favourable(s, b) == IF s.side = "BUY" THEN b.high ELSE -b.low
Adverse(s, b)    == IF s.side = "BUY" THEN b.low ELSE -b.high
Closing(s, b)    == IF s.side = "BUY" THEN b.close ELSE -b.close

\* What a signal returns with a target at t: the first day that touches either
\* barrier decides, for the stop where it touches both.
Outcome(s, t) ==
  LET touched == {d \in DOMAIN bars : Adverse(s, bars[d]) <= -Risk \/ Favourable(s, bars[d]) >= t}
      first   == Min(touched)
  IN IF touched = {}
     THEN IF Len(bars) < Hold THEN None
          ELSE [status |-> "expired", exit |-> Closing(s, bars[Hold]), days |-> Hold]
     ELSE IF Adverse(s, bars[first]) <= -Risk
          THEN [status |-> "stop_hit", exit |-> -Risk, days |-> first]
          ELSE [status |-> "target_hit", exit |-> t, days |-> first]

\* How far the signal went within n days; the day of the touch counts in full.
Reach(s, n) == Max({0} \cup {Favourable(s, bars[d]) : d \in 1..n})

-----------------------------------------------------------------------------
(* The statistics, in units of risk.                                       *)

Resolved == {s \in Signals : row[s] # None}

\* Only a window of full length is free of censoring.
Uncensored(r) == r.window >= Hold

Excursion(r) == IF Uncensored(r) THEN r.full ELSE r.mfe

\* No answer beyond the nearest target that was hit and not looked past.
Ceiling ==
  LET hit == {s \in Resolved : row[s].status = "target_hit" /\ ~Uncensored(row[s])}
  IN IF hit = {} THEN Max(Candidates) ELSE Min({s.target : s \in hit})

Answered == {t \in Candidates : t <= Ceiling}

\* What a signal adds to the counterfactual of a target at t.
Share(s, t) == IF Excursion(row[s]) >= t THEN t ELSE row[s].exit

-----------------------------------------------------------------------------
Init == bars = <<>> /\ row = [s \in Signals |-> None]

NewDay ==
  /\ Len(bars) < Hold
  /\ \E b \in Bars : bars' = Append(bars, b)
  /\ UNCHANGED row

\* check_pending_outcomes, for one signal.
Check ==
  /\ \E s \in Signals \ Resolved :
       LET o == Outcome(s, s.target)
       IN /\ o # None
          /\ row' = [row EXCEPT ![s] = [status |-> o.status, exit |-> o.exit,
                                        mfe |-> Reach(s, o.days), full |-> Reach(s, Len(bars)),
                                        window |-> Len(bars)]]
  /\ UNCHANGED bars

\* enrich_incomplete_excursions, for one signal: the outcome stays.
Enrich ==
  /\ \E s \in Resolved :
       /\ row[s].window < Len(bars)
       /\ row' = [row EXCEPT ![s].full = Reach(s, Len(bars)), ![s].window = Len(bars)]
  /\ UNCHANGED bars

Next == NewDay \/ Check \/ Enrich

-----------------------------------------------------------------------------
TypeOK ==
  \A s \in Resolved :
    /\ row[s].status \in {"target_hit", "stop_hit", "expired"}
    /\ row[s].window \in 1..Hold

\* An answer is an upper bound on what the target would have returned, signal by
\* signal, but for one kind: where the signal hit a nearer target of its own and
\* never came as far, its own return stands in for one that might be larger.
OptimisticToTheTarget ==
  \A s \in Resolved, t \in Answered :
    \/ Share(s, t) >= Outcome(s, t).exit
    \/ row[s].status = "target_hit" /\ s.target < t /\ Reach(s, Len(bars)) < t

\* No signal returned more than it was seen to reach.
ReturnIsReached == \A s \in Resolved : row[s].exit <= Excursion(row[s])

\* Where a target stands now, the answer is no worse than the expectancy.
OwnTargetIsNotUndersold ==
  \A s \in Resolved : s.target \in Answered => Share(s, s.target) >= row[s].exit

OutcomeStatsHold == OptimisticToTheTarget /\ ReturnIsReached /\ OwnTargetIsNotUndersold
=============================================================================
