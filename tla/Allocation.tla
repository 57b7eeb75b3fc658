----------------------------- MODULE Allocation -----------------------------
(***************************************************************************)
(* Target weights per strategy (services/allocation_engine.py, tilted by   *)
(* services/meta_strategy.py), asked for over /api/portfolio/allocation.   *)
(* Weights are fractions with a common denominator; the cap is CapNum of   *)
(* CapDen; tilts are in halves: none, cautious or watched, and full.       *)
(***************************************************************************)
EXTENDS Naturals, FiniteSets, Functions

CONSTANTS
  None,
  Names,            \* the strategies
  Scores,           \* their health scores
  CapNum, CapDen    \* max_per_strategy

VARIABLES
  card,             \* per strategy: status, score, whether its expectancy is positive
  sanctioned,       \* strategies the regime endorses
  weights           \* the last allocation: numerators and denominator, or None

vars == <<card, sanctioned, weights>>

\* Scores are whole, and the cap is a fraction.
CapConstants ==
  IsFiniteSet(Names) /\ Scores \subseteq Nat /\ CapNum \in Nat /\ CapDen \in Nat \ {0}

Statuses == {"degraded", "insufficient_data", "watch", "healthy"}

\* meta_strategy.decide: nothing for the unsanctioned and the degraded, half
\* for the new and the watched, at least a floor for the healthy.
Tilt(n) ==
  IF n \notin sanctioned \/ card[n].status = "degraded" THEN 0
  ELSE IF card[n].status = "healthy" THEN 2 ELSE 1

Eligible == {n \in Names : Tilt(n) > 0}

Sum(f) == SumFunction(f)

\* The raw weight of a method; one that gives nobody anything gives all the same.
Raw(method) ==
  LET r == [n \in Eligible |->
              IF method = "equal" THEN 1
              ELSE IF card[n].gains THEN card[n].score ELSE 0]
  IN IF Sum(r) > 0 THEN r ELSE [n \in Eligible |-> 1]

\* Tilted and normalised: the denominator is the sum.
Tilted(method) ==
  LET t == [n \in Eligible |-> Raw(method)[n] * Tilt(n)]
  IN [num |-> t, den |-> Sum(t)]

Over(w)  == {n \in DOMAIN w.num : w.num[n] * CapDen > CapNum * w.den}
Under(w) == {n \in DOMAIN w.num : w.num[n] * CapDen < CapNum * w.den}

\* One round: those over the cap are cut to it, and what they lose goes to
\* those under it in proportion.
Refill(w) ==
  LET den    == w.den * CapDen
      cut    == [n \in DOMAIN w.num |-> IF n \in Over(w) THEN CapNum * w.den
                                        ELSE w.num[n] * CapDen]
      excess == Sum([n \in Over(w) |-> w.num[n] * CapDen - CapNum * w.den])
      room   == Sum([n \in Under(w) |-> cut[n]])
  IN IF room = 0 THEN [num |-> cut, den |-> den]
     ELSE [num |-> [n \in DOMAIN cut |->
                      IF n \in Under(w) THEN cut[n] * room + excess * cut[n]
                      ELSE cut[n] * room],
           den |-> den * room]

\* Rounds until nobody is over the cap, at most one more than there are names.
Rounds(w) == Cardinality(DOMAIN w.num) + 1

Capped(w0) ==
  LET step[i \in 0 .. Rounds(w0)] ==
        IF i = 0 THEN w0
        ELSE LET w == step[i - 1] IN IF Over(w) = {} THEN w ELSE Refill(w)
  IN step[Rounds(w0)]

-----------------------------------------------------------------------------
Init ==
  /\ card \in [Names -> [status : {"healthy"}, score : Scores, gains : BOOLEAN]]
  /\ sanctioned \in SUBSET Names
  /\ weights = None

\* The page asks for an allocation; with nobody eligible all stays cash.
Allocate ==
  /\ weights = None
  /\ \E method \in {"equal", "performance"} :
       weights' = IF Eligible = {} THEN [num |-> <<>>, den |-> 1] ELSE Capped(Tilted(method))
  /\ UNCHANGED <<card, sanctioned>>

\* A grade changes and the page is drawn again.
Regrade ==
  /\ weights # None
  /\ weights' = None
  /\ \E n \in Names, s \in Statuses : card' = [card EXCEPT ![n].status = s]
  /\ UNCHANGED sanctioned

Next == Allocate \/ Regrade

-----------------------------------------------------------------------------
TypeOK ==
  /\ DOMAIN card = Names /\ sanctioned \subseteq Names
  /\ weights # None => DOMAIN weights.num \subseteq Names /\ weights.den \in Nat \ {0}

\* No strategy gets more than the cap, nobody suspended gets anything, the
\* weights never add up to more than the capital, and they add up to less
\* only when everybody with a weight is at the cap.
WithinCaps ==
  weights # None =>
    /\ Over(weights) = {}
    /\ DOMAIN weights.num \cap {n \in Names : card[n].status = "degraded"} = {}
    /\ Sum(weights.num) <= weights.den
    /\ Sum(weights.num) < weights.den =>
         \A n \in DOMAIN weights.num : weights.num[n] = 0 \/ n \notin Under(weights)
=============================================================================
