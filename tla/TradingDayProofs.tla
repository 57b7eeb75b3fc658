-------------------------- MODULE TradingDayProofs --------------------------
(***************************************************************************)
(* Theorems about the trading day: about Scans, for every watchlist, every *)
(* market, every number of readings required and every age; about the      *)
(* closes of a spread, for every number of requests and contracts; about   *)
(* the rehearsals of Rotation and the backtests, for every book, price and *)
(* trade; and, with those about the trade table, about the run that puts   *)
(* them side by side, its types included.                                  *)
(***************************************************************************)
EXTENDS MCTradingDay, TradeLedgerProofs, Sums

\* What the proofs below need of the types.
Entry == [action : S!Actions, age : Nat]
Forces == [regime : S!Regimes, age : Nat]
Tapes == [crisis : BOOLEAN, last : S!Regimes \cup {None}, agree : Nat, quiet : Nat,
          before : BOOLEAN]
Steadies == [regime : S!Regimes \cup {None}, pending : S!Regimes \cup {None}, count : Nat]

RegimeTyped ==
  /\ force \in Forces \cup {None}
  /\ steady \in Steadies
  /\ tape \in Tapes

EntriesTyped ==
  /\ view \in [S!Scanners -> [Tickers -> Entry \cup {None}]]
  /\ equity \in [Tickers -> Entry \cup {None}]
  /\ newest \in [Tickers -> Entry \cup {None}]

PassTyped ==
  /\ at \in {"rest", "equity", "route", "options"}
  /\ boot \in {"reading", "scan", "gather", "route", "done"}
  /\ stage = [t \in Tickers |-> stage[t]]
  /\ found = [t \in Tickers |-> found[t]]
  /\ routed \in [S!Tasks -> SUBSET Tickers]

-----------------------------------------------------------------------------
(* The regime and what it allows.                                          *)

LEMMA MinOfTwo ==
  ASSUME NEW a \in Nat, NEW b \in Nat
  PROVE  S!Min({a, b}) = IF a <= b THEN a ELSE b
<1>1. S!Min({a, b}) \in {a, b} /\ \A y \in {a, b} : S!Min({a, b}) <= y
  <2> DEFINE m == IF a <= b THEN a ELSE b
  <2>1. m \in {a, b} /\ \A y \in {a, b} : m <= y
    OBVIOUS
  <2> QED BY <2>1 DEF S!Min
<1> QED BY <1>1

\* Whatever the indicators read, there is a regime for it.
LEMMA EveryReadingHasARegime ==
  ASSUME S!ScansConstants, NEW f \in Features
  PROVE  S!Classify(f) \in S!Regimes
<1>1. f.rank \in Int
  BY DEF S!ScansConstants
<1>2. CASE S!InCrisis(f)
  BY <1>2 DEF S!Classify, S!Regimes
<1>3. CASE ~S!InCrisis(f)
  <2>1. f.rank < 85
    BY <1>1, <1>3 DEF S!InCrisis
  <2>2. CASE f.rank < 25
    BY <1>1, <1>3, <2>2 DEF S!Classify, S!Regimes
  <2>3. CASE f.rank \in 25 .. 59
    BY <1>1, <1>3, <2>3 DEF S!Classify, S!Regimes
  <2>4. CASE f.rank \in 60 .. 84
    BY <1>1, <1>3, <2>4 DEF S!Classify, S!Regimes
  <2> QED BY <1>1, <2>1, <2>2, <2>3, <2>4
<1> QED BY <1>2, <1>3

LEMMA CrisisAllowsNothing == ~S!EquityAllowed("crisis") /\ ~S!OptionsAllowed("crisis")
BY DEF S!EquityAllowed, S!OptionsAllowed, S!Config

-----------------------------------------------------------------------------
(***************************************************************************)
(* The invariant of the regime.                                            *)
(***************************************************************************)

\* A crisis that has not been contradicted often enough is the stabilizer's
\* regime, and what it waits for is the last contradiction.
CrisisIsSteady ==
  tape.crisis =>
    /\ steady.regime = "crisis"
    /\ tape.last = "crisis" => steady.pending = None
    /\ tape.last # "crisis" =>
         /\ steady.pending = tape.last /\ steady.count = tape.agree
         /\ tape.agree < Required

\* While a reading is young enough, such a crisis is the regime in force.
CrisisIsInForce ==
  tape.crisis /\ tape.quiet <= RegimeMaxAge =>
    force # None /\ force.regime = "crisis" /\ force.age = tape.quiet

(***************************************************************************)
(* The invariant of the passes.                                            *)
(***************************************************************************)

\* What belongs to a pass is empty outside of it.
PassesEndClean ==
  /\ at \notin {"equity", "route"} => routed["scheduler"] = {}
  /\ at # "options" => routed["options"] = {} /\ found = S!Nothing

\* No equity pass begins in a crisis; while an options pass that began in one
\* runs, only the start-up task may read the market, once.
PassesKnow ==
  /\ at \in {"equity", "route"} => ~tape.before
  /\ at = "options" /\ tape.before =>
       /\ boot = "reading" => tape.crisis
       /\ tape.crisis => tape.quiet <= RegimeMaxAge

\* In such a pass no symbol gets past the gate.
GateStands ==
  at = "options" /\ tape.before /\ tape.crisis =>
    /\ routed["options"] = {}
    /\ \A t \in Tickers : stage[t].at \in {"waiting", "done"} /\ found[t] = None

CrisisInv ==
  /\ RegimeTyped /\ PassTyped
  /\ CrisisIsSteady /\ CrisisIsInForce
  /\ PassesEndClean /\ PassesKnow /\ GateStands

(***************************************************************************)
(* The invariant of the equity signals.                                    *)
(***************************************************************************)

\* The scanner has signals that are not in the list yet.
Pending(s) == IF s = "boot" THEN boot = "gather" ELSE at = "equity"

\* Unless scans overlapped, the first entry of a ticker is its newest.
FirstIsNewest ==
  ~overlapped =>
    /\ equity = newest
    /\ ~(at = "equity" /\ boot = "gather")
    /\ \A s \in S!Scanners, t \in Tickers :
         Pending(s) /\ view[s][t] # None /\ newest[t] # None =>
           view[s][t].age <= newest[t].age

\* What an options pass has chosen or found agrees with it.
PassAgrees ==
  at = "options" /\ ~overlapped =>
    \A t \in Tickers :
      /\ stage[t].at = "chosen" => ~S!Conflicts(stage[t].strategy, equity[t], SignalMaxAge)
      /\ found[t] # None => ~S!Conflicts(found[t].strategy, equity[t], SignalMaxAge)

SignalInv == EntriesTyped /\ PassTyped /\ PassesEndClean /\ FirstIsNewest /\ PassAgrees

-----------------------------------------------------------------------------
(* A reading of the market.                                                *)

\* What a reading does to the history.
LEMMA HeardSays ==
  ASSUME S!ScansConstants, RegimeTyped, NEW r \in S!Regimes, S!Heard(r)
  PROVE  /\ tape' \in Tapes
         /\ tape'.last = r /\ tape'.quiet = 0 /\ tape'.before = tape.before
         /\ tape'.agree = IF r = tape.last
                          THEN (IF tape.agree + 1 <= Required THEN tape.agree + 1 ELSE Required)
                          ELSE 1
         /\ tape'.crisis <=> r = "crisis" \/ (tape.crisis /\ tape'.agree < Required)
<1> DEFINE agree == IF r = tape.last THEN S!Min({tape.agree + 1, Required}) ELSE 1
<1>1. /\ tape \in Tapes /\ Required \in Nat \ {0}
  BY DEF RegimeTyped, S!ScansConstants
<1>2. tape.agree + 1 \in Nat /\ Required \in Nat
  BY <1>1 DEF Tapes
<1>3. agree = IF r = tape.last
              THEN (IF tape.agree + 1 <= Required THEN tape.agree + 1 ELSE Required)
              ELSE 1
  BY <1>2, MinOfTwo
<1>4. agree \in Nat
  BY <1>2, <1>3
<1>5. tape' = [tape EXCEPT !.crisis = r = "crisis" \/ (tape.crisis /\ agree < Required),
                           !.last = r, !.agree = agree, !.quiet = 0]
  BY DEF S!Heard
<1> HIDE DEF agree
<1> DEFINE stands == r = "crisis" \/ (tape.crisis /\ agree < Required)
<1>6. stands \in BOOLEAN
  OBVIOUS
<1>7. tape' = [tape EXCEPT !.crisis = stands, !.last = r, !.agree = agree, !.quiet = 0]
  BY <1>5
<1> HIDE DEF stands
<1>8. /\ tape' \in Tapes /\ tape'.last = r /\ tape'.quiet = 0
      /\ tape'.before = tape.before /\ tape'.agree = agree /\ tape'.crisis = stands
  BY <1>1, <1>4, <1>6, <1>7 DEF Tapes
<1>9. tape'.crisis <=> r = "crisis" \/ (tape.crisis /\ tape'.agree < Required)
  BY <1>8 DEF stands
<1> QED BY <1>3, <1>8, <1>9

\* What a reading does to the stabilizer and to the regime in force.
LEMMA ObserveSays ==
  ASSUME S!ScansConstants, RegimeTyped, NEW r \in S!Regimes, S!Observe(r)
  PROVE  /\ steady' \in Steadies
         /\ force' = [regime |-> steady'.regime, age |-> 0]
         /\ \/ steady'.regime = r /\ steady'.pending = None
            \/ /\ r # "crisis" /\ steady.regime \notin {None, r}
               /\ steady'.regime = steady.regime /\ steady'.pending = r
               /\ steady'.count < Required
               /\ steady'.count = IF r = steady.pending THEN steady.count + 1 ELSE 1
         /\ r = "crisis" => steady'.regime = r
         /\ (IF r = steady.pending THEN steady.count + 1 ELSE 1) >= Required =>
              steady'.regime = r
<1> DEFINE count == IF r = steady.pending THEN steady.count + 1 ELSE 1
<1>1. steady \in Steadies /\ Required \in Nat
  BY DEF RegimeTyped, S!ScansConstants
<1>2. count \in Nat
  BY <1>1 DEF Steadies
<1>3. CASE steady.regime \in {None, r} \/ r = "crisis" \/ count >= Required
  <2>1. S!Adopted(r)
    BY <1>3 DEF S!Observe
  <2> QED BY <2>1 DEF S!Adopted, Steadies
<1>4. CASE ~(steady.regime \in {None, r} \/ r = "crisis" \/ count >= Required)
  <2>1. /\ steady' = [steady EXCEPT !.pending = r, !.count = count]
        /\ force' = [regime |-> steady.regime, age |-> 0]
    BY <1>4 DEF S!Observe
  <2>2. /\ steady' \in Steadies /\ steady'.regime = steady.regime
        /\ steady'.pending = r /\ steady'.count = count
    BY <2>1, <1>1, <1>2 DEF Steadies
  <2>3. count < Required
    BY <1>1, <1>2, <1>4
  <2> QED BY <2>1, <2>2, <2>3, <1>4
<1> QED BY <1>3, <1>4

LEMMA ReadingKeeps ==
  ASSUME S!ScansConstants, RegimeTyped, CrisisIsSteady, CrisisIsInForce, S!ReadMarket
  PROVE  /\ RegimeTyped' /\ CrisisIsSteady' /\ CrisisIsInForce'
         /\ tape'.before = tape.before
         /\ tape'.quiet = tape.quiet \/ tape'.quiet = 0
<1>1. ASSUME NEW f \in Features, S!Observe(S!Classify(f)), S!Heard(S!Classify(f))
      PROVE  /\ RegimeTyped' /\ CrisisIsSteady' /\ CrisisIsInForce'
             /\ tape'.before = tape.before /\ tape'.quiet = 0
  <2> DEFINE r == S!Classify(f)
  <2>1. r \in S!Regimes
    BY EveryReadingHasARegime
  <2>2. S!Observe(r) /\ S!Heard(r)
    BY <1>1
  <2> HIDE DEF r
  <2>3. steady \in Steadies /\ tape \in Tapes /\ Required \in Nat \ {0} /\ None \notin S!Regimes
    BY DEF RegimeTyped, S!ScansConstants
  <2>4. RegimeTyped'
    <3>1. steady' \in Steadies /\ tape' \in Tapes
      BY <2>1, <2>2, HeardSays, ObserveSays
    <3>2. steady'.regime \in S!Regimes
      BY <2>1, <2>2, <2>3, ObserveSays DEF Steadies
    <3>3. force' \in Forces
      BY <2>1, <2>2, <3>2, ObserveSays DEF Forces
    <3> QED BY <3>1, <3>3 DEF RegimeTyped
  <2>5. CrisisIsSteady'
    <3> SUFFICES ASSUME tape'.crisis
                 PROVE  /\ steady'.regime = "crisis"
                        /\ tape'.last = "crisis" => steady'.pending = None
                        /\ tape'.last # "crisis" =>
                             /\ steady'.pending = tape'.last /\ steady'.count = tape'.agree
                             /\ tape'.agree < Required
      BY DEF CrisisIsSteady
    <3>1. CASE r = "crisis"
      BY <3>1, <2>1, <2>2, HeardSays, ObserveSays
    <3>2. CASE r # "crisis"
      <4>1. tape.crisis /\ tape'.agree < Required /\ tape'.last = r
        BY <3>2, <2>1, <2>2, HeardSays
      <4>2. steady.regime = "crisis"
        BY <4>1 DEF CrisisIsSteady
      <4>3. tape'.agree = IF r = tape.last THEN tape.agree + 1 ELSE 1
        BY <4>1, <2>1, <2>2, <2>3, HeardSays DEF Tapes
      <4>4. tape'.agree = IF r = steady.pending THEN steady.count + 1 ELSE 1
        <5>1. CASE tape.last = "crisis"
          BY <5>1, <4>1, <4>3, <3>2, <2>1, <2>3 DEF CrisisIsSteady
        <5>2. CASE tape.last # "crisis"
          BY <5>2, <4>1, <4>3 DEF CrisisIsSteady
        <5> QED BY <5>1, <5>2
      <4>5. steady'.regime = "crisis" /\ steady'.pending = r /\ steady'.count = tape'.agree
        <5> DEFINE count == IF r = steady.pending THEN steady.count + 1 ELSE 1
        <5>1. steady.regime \notin {None, r} /\ ~(count >= Required)
          BY <4>1, <4>2, <4>4, <3>2, <2>1, <2>3 DEF Steadies, S!Regimes
        <5>2. steady' = [steady EXCEPT !.pending = r, !.count = count]
          BY <5>1, <3>2, <2>2 DEF S!Observe
        <5> QED BY <5>2, <4>2, <4>4, <2>3 DEF Steadies
      <4> QED BY <4>1, <4>5, <3>2
    <3> QED BY <3>1, <3>2
  <2>6. CrisisIsInForce'
    <3>1. force' = [regime |-> steady'.regime, age |-> 0] /\ tape'.quiet = 0
      BY <2>1, <2>2, HeardSays, ObserveSays
    <3>2. steady'.regime \in S!Regimes
      BY <2>1, <2>2, <2>3, ObserveSays DEF Steadies
    <3>3. force' \in Forces /\ None \notin Forces
      BY <3>1, <3>2 DEF Forces, S!ScansConstants
    <3> QED BY <3>1, <3>3, <2>5 DEF CrisisIsSteady, CrisisIsInForce
  <2> QED BY <2>1, <2>2, <2>4, <2>5, <2>6, HeardSays
<1>2. CASE UNCHANGED <<force, steady, tape>>
  BY <1>2 DEF RegimeTyped, CrisisIsSteady, CrisisIsInForce
<1> QED BY <1>1, <1>2 DEF S!ReadMarket

\* A regime that is checked for its age stays in force as long as it may.
LEMMA EnsuredKeeps ==
  ASSUME S!ScansConstants, RegimeTyped, CrisisIsInForce
  PROVE  /\ S!Ensured \in Forces
         /\ tape.crisis /\ tape.quiet <= RegimeMaxAge =>
              S!Ensured # None /\ S!Ensured.regime = "crisis" /\ S!Ensured.age = tape.quiet
<1>1. [regime |-> "unknown", age |-> 0] \in Forces /\ None \notin Forces
  BY DEF Forces, S!Regimes, S!ScansConstants
<1>2. S!Ensured \in Forces
  BY <1>1 DEF S!Ensured, RegimeTyped
<1>3. ASSUME tape.crisis, tape.quiet <= RegimeMaxAge PROVE S!Ensured = force
  BY <1>3 DEF CrisisIsInForce, S!Ensured
<1> QED BY <1>2, <1>3 DEF CrisisIsInForce

-----------------------------------------------------------------------------
(* Every step keeps the types, the regime and the passes.                  *)

LEMMA PassTypesKept == PassTyped /\ [S!Next]_(S!vars) => PassTyped'
<1> SUFFICES ASSUME PassTyped, [S!Next]_(S!vars) PROVE PassTyped'
  OBVIOUS
<1> USE DEF PassTyped
<1>1. CASE S!EnsureFresh \/ S!Reclassify \/ S!TimePasses \/ UNCHANGED S!vars
  BY <1>1 DEF S!EnsureFresh, S!Reclassify, S!TimePasses, S!vars
<1>2. CASE S!StartEquity \/ S!InsertEquity
  BY <1>2 DEF S!StartEquity, S!InsertEquity
<1>3. CASE S!EndEquity
  BY <1>3 DEF S!EndEquity
<1>4. CASE S!BootRead \/ S!BootGather \/ S!BootInsert
  BY <1>4 DEF S!BootRead, S!BootGather, S!BootInsert
<1>5. CASE S!BootEnd
  BY <1>5 DEF S!BootEnd
<1>6. CASE S!StartOptions
  BY <1>6 DEF S!StartOptions
<1>7. CASE S!EndOptions
  BY <1>7 DEF S!EndOptions, S!Idle, S!Nothing
<1>8. ASSUME NEW t \in Tickers, S!RouteEquity(t) \/ S!BootRoute(t) \/ S!RouteSpread(t) PROVE PassTyped'
  BY <1>8 DEF S!RouteEquity, S!BootRoute, S!RouteSpread, S!Tasks
<1>9. ASSUME NEW t \in Tickers, S!GateSymbol(t) PROVE PassTyped'
  BY <1>9 DEF S!GateSymbol, S!Stage
<1>10. ASSUME NEW t \in Tickers, S!ChooseStrategy(t) PROVE PassTyped'
  <2>1. PICK where, strategy : S!Stage(t, where, strategy)
    BY <1>10 DEF S!ChooseStrategy
  <2> QED BY <2>1, <1>10 DEF S!ChooseStrategy, S!Stage
<1>11. ASSUME NEW t \in Tickers, S!PriceSymbol(t) PROVE PassTyped'
  <2>1. \/ found' = found
        \/ \E made : found' = [found EXCEPT ![t] = made]
    BY <1>11 DEF S!PriceSymbol
  <2>2. found' = [u \in Tickers |-> found'[u]]
    BY <2>1
  <2> QED BY <2>2, <1>11 DEF S!PriceSymbol, S!Stage
<1>12. CASE S!Restart
  BY <1>12 DEF S!Restart, S!Idle, S!Nothing, S!NoneRouted, S!Tasks
<1> QED BY <1>1, <1>2, <1>3, <1>4, <1>5, <1>6, <1>7, <1>8, <1>9, <1>10, <1>11, <1>12 DEF S!Next

\* How a pass begins.
LEMMA BegunSays ==
  ASSUME RegimeTyped, S!Begun
  PROVE  /\ tape' \in Tapes
         /\ tape'.last = tape.last /\ tape'.agree = tape.agree /\ tape'.quiet = tape.quiet
         /\ tape'.crisis = tape.crisis
         /\ tape'.before <=> tape.crisis /\ tape.quiet <= RegimeMaxAge
<1> DEFINE known == tape.crisis /\ tape.quiet <= RegimeMaxAge
<1>1. tape' = [tape EXCEPT !.before = known] /\ known \in BOOLEAN /\ tape \in Tapes
  BY DEF S!Begun, RegimeTyped
<1> HIDE DEF known
<1>2. /\ tape' \in Tapes
      /\ tape'.last = tape.last /\ tape'.agree = tape.agree /\ tape'.quiet = tape.quiet
      /\ tape'.crisis = tape.crisis /\ tape'.before = known
  BY <1>1 DEF Tapes
<1> QED BY <1>2 DEF known

LEMMA RegimeKept ==
  ASSUME S!ScansConstants, RegimeTyped, CrisisIsSteady, CrisisIsInForce, [S!Next]_(S!vars)
  PROVE  RegimeTyped' /\ CrisisIsSteady' /\ CrisisIsInForce'
<1> DEFINE Kept == RegimeTyped' /\ CrisisIsSteady' /\ CrisisIsInForce'
<1>1. CASE UNCHANGED <<force, steady, tape>>
  BY <1>1 DEF RegimeTyped, CrisisIsSteady, CrisisIsInForce
<1>2. CASE S!ReadMarket
  BY <1>2, ReadingKeeps
<1>3. CASE force' = S!Ensured /\ UNCHANGED <<steady, tape>>
  BY <1>3, EnsuredKeeps DEF RegimeTyped, CrisisIsSteady, CrisisIsInForce
<1>4. CASE force' = S!Ensured /\ S!Begun /\ UNCHANGED steady
  <2>1. /\ tape' \in Tapes
        /\ tape'.last = tape.last /\ tape'.agree = tape.agree /\ tape'.quiet = tape.quiet
        /\ tape'.crisis = tape.crisis
    BY <1>4, BegunSays
  <2>2. RegimeTyped'
    BY <1>4, <2>1, EnsuredKeeps DEF RegimeTyped
  <2>3. CrisisIsSteady'
    BY <1>4, <2>1 DEF CrisisIsSteady
  <2>4. CrisisIsInForce'
    BY <1>4, <2>1, EnsuredKeeps DEF CrisisIsInForce
  <2> QED BY <2>2, <2>3, <2>4
<1>5. CASE S!TimePasses
  <2>1. tape \in Tapes /\ RegimeMaxAge \in Nat /\ force \in Forces \cup {None} /\ None \notin Forces
    BY DEF RegimeTyped, S!ScansConstants, Forces
  <2>2. tape.quiet \in Nat
    BY <2>1 DEF Tapes
  <2>3. S!Min({tape.quiet + 1, RegimeMaxAge + 1}) \in Nat
    BY <2>1, <2>2, MinOfTwo
  <2>4. tape' = [tape EXCEPT !.quiet = S!Min({tape.quiet + 1, RegimeMaxAge + 1})]
    BY <1>5 DEF S!TimePasses
  <2>5. /\ tape' \in Tapes /\ tape'.crisis = tape.crisis /\ tape'.last = tape.last
        /\ tape'.agree = tape.agree
        /\ tape'.quiet = S!Min({tape.quiet + 1, RegimeMaxAge + 1})
    BY <2>1, <2>3, <2>4 DEF Tapes
  <2>6. UNCHANGED steady
    BY <1>5 DEF S!TimePasses
  <2>7. CASE force = None
    <3>1. force' = None
      BY <1>5, <2>7 DEF S!TimePasses
    <3>2. tape.crisis => tape.quiet > RegimeMaxAge
      BY <2>7, <2>1, <2>2 DEF CrisisIsInForce
    <3>3. tape.crisis => tape'.quiet > RegimeMaxAge
      BY <3>2, <2>1, <2>2, <2>5, MinOfTwo
    <3> QED BY <3>1, <3>3, <2>1, <2>5, <2>6 DEF RegimeTyped, CrisisIsSteady, CrisisIsInForce, Tapes
  <2>8. CASE force # None
    <3>1. force \in Forces /\ force.age \in Nat
      BY <2>1, <2>8 DEF Forces
    <3>2. force' = [force EXCEPT !.age = S!Min({force.age + 1, RegimeMaxAge + 1})]
      BY <1>5, <2>8 DEF S!TimePasses
    <3>3. S!Min({force.age + 1, RegimeMaxAge + 1}) \in Nat
      BY <3>1, <2>1, MinOfTwo
    <3>4. /\ force' \in Forces /\ force'.regime = force.regime
          /\ force'.age = S!Min({force.age + 1, RegimeMaxAge + 1})
      BY <3>1, <3>2, <3>3 DEF Forces
    <3>5. tape'.quiet <= RegimeMaxAge => tape.quiet <= RegimeMaxAge
      BY <2>1, <2>2, <2>5, MinOfTwo
    <3>6. CrisisIsInForce'
      BY <3>4, <3>5, <2>1, <2>5 DEF CrisisIsInForce
    <3> QED BY <3>4, <3>6, <2>5, <2>6 DEF RegimeTyped, CrisisIsSteady
  <2> QED BY <2>7, <2>8
<1>6. CASE S!Restart
  <2>1. /\ force' = None /\ steady' = [regime |-> None, pending |-> None, count |-> 0]
        /\ tape' = S!Calm
    BY <1>6 DEF S!Restart
  <2>2. tape' \in Tapes /\ ~tape'.crisis
    BY <2>1 DEF S!Calm, Tapes
  <2> QED BY <2>1, <2>2 DEF RegimeTyped, CrisisIsSteady, CrisisIsInForce, Steadies
<1>7. ASSUME NEW t \in Tickers,
             \/ S!RouteEquity(t) \/ S!BootRoute(t) \/ S!GateSymbol(t)
             \/ S!ChooseStrategy(t) \/ S!PriceSymbol(t) \/ S!RouteSpread(t)
      PROVE  UNCHANGED <<force, steady, tape>>
  BY <1>7 DEF S!RouteEquity, S!BootRoute, S!GateSymbol, S!ChooseStrategy, S!PriceSymbol, S!RouteSpread
<1>8. ASSUME \/ S!InsertEquity \/ S!EndEquity \/ S!BootGather \/ S!BootInsert \/ S!BootEnd \/ S!EndOptions
             \/ UNCHANGED S!vars
      PROVE  UNCHANGED <<force, steady, tape>>
  BY <1>8 DEF S!InsertEquity, S!EndEquity, S!BootGather, S!BootInsert, S!BootEnd, S!EndOptions, S!vars
<1>9. S!EnsureFresh => force' = S!Ensured /\ UNCHANGED <<steady, tape>>
  BY DEF S!EnsureFresh
<1>10. S!Reclassify \/ S!BootRead => S!ReadMarket
  BY DEF S!Reclassify, S!BootRead
<1>11. S!StartEquity \/ S!StartOptions => force' = S!Ensured /\ S!Begun /\ UNCHANGED steady
  BY DEF S!StartEquity, S!StartOptions
<1> QED BY <1>1, <1>2, <1>3, <1>4, <1>5, <1>6, <1>7, <1>8, <1>9, <1>10, <1>11 DEF S!Next

\* What belongs to a pass ends with it.
LEMMA CleanKept == PassTyped /\ PassesEndClean /\ [S!Next]_(S!vars) => PassesEndClean'
<1> SUFFICES ASSUME PassTyped, PassesEndClean, [S!Next]_(S!vars) PROVE PassesEndClean'
  OBVIOUS
<1> USE DEF PassesEndClean
<1>1. CASE UNCHANGED <<at, routed, found>>
  BY <1>1
<1>2. ASSUME NEW t \in Tickers, S!GateSymbol(t) \/ S!ChooseStrategy(t) PROVE UNCHANGED <<at, routed, found>>
  BY <1>2 DEF S!GateSymbol, S!ChooseStrategy
<1>3. ASSUME S!EnsureFresh \/ S!Reclassify \/ S!TimePasses \/ S!BootRead \/ S!BootGather \/ S!BootInsert
             \/ UNCHANGED S!vars
      PROVE  UNCHANGED <<at, routed, found>>
  BY <1>3 DEF S!EnsureFresh, S!Reclassify, S!TimePasses, S!BootRead, S!BootGather, S!BootInsert, S!vars
<1>4. CASE S!StartEquity \/ S!InsertEquity \/ S!StartOptions
  BY <1>4 DEF S!StartEquity, S!InsertEquity, S!StartOptions
<1>5. CASE S!EndEquity
  BY <1>5 DEF S!EndEquity, PassTyped, S!Tasks
<1>6. CASE S!BootEnd
  BY <1>6 DEF S!BootEnd, PassTyped, S!Tasks
<1>7. CASE S!EndOptions
  BY <1>7 DEF S!EndOptions, PassTyped, S!Tasks
<1>8. ASSUME NEW t \in Tickers, S!RouteEquity(t) \/ S!BootRoute(t) \/ S!RouteSpread(t)
      PROVE  PassesEndClean'
  BY <1>8 DEF S!RouteEquity, S!BootRoute, S!RouteSpread, PassTyped, S!Tasks
<1>9. ASSUME NEW t \in Tickers, S!PriceSymbol(t) PROVE PassesEndClean'
  BY <1>9 DEF S!PriceSymbol
<1>10. CASE S!Restart
  BY <1>10 DEF S!Restart, S!NoneRouted, S!Tasks
<1> QED BY <1>1, <1>2, <1>3, <1>4, <1>5, <1>6, <1>7, <1>8, <1>9, <1>10 DEF S!Next

\* The passes know of the crisis in which they began.
LEMMA PassesKept ==
  ASSUME S!ScansConstants, CrisisInv, [S!Next]_(S!vars)
  PROVE  PassesKnow' /\ GateStands'
<1> USE DEF CrisisInv
<1>0. RegimeTyped' /\ CrisisIsInForce' /\ PassTyped'
  BY RegimeKept, PassTypesKept
<1>1. CASE S!EnsureFresh \/ S!TimePasses \/ S!Reclassify
  <2>1. /\ at = "rest" /\ at' = "rest" /\ routed' = routed /\ found' = found
    BY <1>1 DEF S!EnsureFresh, S!TimePasses, S!Reclassify
  <2> QED BY <2>1 DEF PassesEndClean, PassesKnow, GateStands
<1>2. CASE S!StartEquity
  <2>1. /\ at = "rest" /\ at' = "equity" /\ routed' = routed /\ found' = found
    BY <1>2 DEF S!StartEquity
  <2>2. ~tape'.before
    <3> SUFFICES ASSUME tape'.before PROVE FALSE
      OBVIOUS
    <3>1. tape.crisis /\ tape.quiet <= RegimeMaxAge
      BY <1>2, BegunSays DEF S!StartEquity
    <3>2. force'.regime = "crisis"
      BY <1>2, <3>1, EnsuredKeeps DEF S!StartEquity
    <3> QED BY <1>2, <3>2, CrisisAllowsNothing DEF S!StartEquity
  <2> QED BY <2>1, <2>2 DEF PassesEndClean, PassesKnow, GateStands
<1>3. CASE S!InsertEquity
  BY <1>3 DEF S!InsertEquity, PassesEndClean, PassesKnow, GateStands
<1>4. CASE S!EndEquity
  <2>1. at' = "rest" /\ routed'["scheduler"] = {} /\ found' = found
        /\ routed'["options"] = routed["options"] /\ at # "options"
    BY <1>4 DEF S!EndEquity, PassTyped, S!Tasks
  <2> QED BY <2>1 DEF PassesEndClean, PassesKnow, GateStands
<1>5. CASE S!BootRead
  <2>1. S!ReadMarket /\ UNCHANGED <<at, stage, found, routed>> /\ boot' = "scan" /\ boot = "reading"
    BY <1>5 DEF S!BootRead
  <2>2. tape'.before = tape.before /\ (tape'.quiet = tape.quiet \/ tape'.quiet = 0)
    BY <2>1, ReadingKeeps
  <2>3. PassesEndClean'
    BY <2>1 DEF PassesEndClean
  <2>4. RegimeMaxAge \in Nat
    BY DEF S!ScansConstants
  <2>5. PassesKnow'
    BY <2>1, <2>2, <2>4 DEF PassesKnow
  <2>6. GateStands'
    BY <2>1, <2>2 DEF PassesKnow, GateStands
  <2> QED BY <2>3, <2>5, <2>6
<1>6. CASE S!BootGather \/ S!BootInsert
  BY <1>6 DEF S!BootGather, S!BootInsert, PassesEndClean, PassesKnow, GateStands
<1>7. CASE S!BootEnd
  <2>1. UNCHANGED <<at, tape, stage, found>> /\ boot' = "done"
        /\ routed'["scheduler"] = routed["scheduler"] /\ routed'["options"] = routed["options"]
    BY <1>7 DEF S!BootEnd, PassTyped, S!Tasks
  <2> QED BY <2>1 DEF PassesEndClean, PassesKnow, GateStands
<1>8. CASE S!StartOptions
  <2>1. /\ at = "rest" /\ at' = "options" /\ routed' = routed /\ found' = found
        /\ S!Begun /\ boot' = boot
        /\ stage' = [t \in Tickers |-> [at |-> "waiting", strategy |-> None]]
    BY <1>8 DEF S!StartOptions
  <2>2. PassesEndClean'
    BY <2>1 DEF PassesEndClean
  <2>3. PassesKnow'
    BY <2>1, BegunSays DEF PassesKnow
  <2>4. \A t \in Tickers : stage'[t].at = "waiting" /\ found'[t] = None
    BY <2>1 DEF PassesEndClean, S!Nothing
  <2>5. GateStands'
    BY <2>1, <2>4 DEF GateStands, PassesEndClean
  <2> QED BY <2>2, <2>3, <2>5
<1>9. CASE S!EndOptions
  <2>1. at' = "rest" /\ routed'["options"] = {} /\ found' = S!Nothing
        /\ routed'["scheduler"] = routed["scheduler"] /\ at = "options"
    BY <1>9 DEF S!EndOptions, PassTyped, S!Tasks
  <2> QED BY <2>1 DEF PassesEndClean, PassesKnow, GateStands
<1>10. ASSUME NEW t \in Tickers, S!RouteEquity(t) PROVE PassesKnow' /\ GateStands'
  <2>1. at = "route" /\ UNCHANGED <<at, boot, tape, stage, found>>
        /\ routed'["options"] = routed["options"]
    BY <1>10 DEF S!RouteEquity, PassTyped, S!Tasks
  <2> QED BY <2>1 DEF PassesEndClean, PassesKnow, GateStands
<1>11. ASSUME NEW t \in Tickers, S!BootRoute(t) PROVE PassesKnow' /\ GateStands'
  <2>1. UNCHANGED <<at, boot, tape, stage, found>>
        /\ routed'["scheduler"] = routed["scheduler"] /\ routed'["options"] = routed["options"]
    BY <1>11 DEF S!BootRoute, PassTyped, S!Tasks
  <2> QED BY <2>1 DEF PassesEndClean, PassesKnow, GateStands
<1>12. ASSUME NEW t \in Tickers, S!GateSymbol(t) PROVE PassesKnow' /\ GateStands'
  <2>1. at = "options" /\ UNCHANGED <<at, boot, tape, routed, found, force>>
    BY <1>12 DEF S!GateSymbol
  <2>2. PassesEndClean' /\ PassesKnow'
    BY <2>1 DEF PassesEndClean, PassesKnow
  <2>3. ASSUME tape.before, tape.crisis
        PROVE  \A u \in Tickers : stage'[u].at \in {"waiting", "done"}
    <3>1. force.regime = "crisis"
      BY <2>1, <2>3 DEF PassesKnow, CrisisIsInForce
    <3>2. stage' = [stage EXCEPT ![t] = [at |-> "done", strategy |-> None]]
      BY <1>12, <3>1, CrisisAllowsNothing DEF S!GateSymbol, S!Stage
    <3>3. \A u \in Tickers : stage[u].at \in {"waiting", "done"}
      BY <2>1, <2>3 DEF GateStands
    <3> QED BY <3>2, <3>3 DEF PassTyped
  <2> QED BY <2>1, <2>2, <2>3 DEF GateStands
<1>13. ASSUME NEW t \in Tickers, S!ChooseStrategy(t) \/ S!PriceSymbol(t)
       PROVE PassesKnow' /\ GateStands'
  <2>1. at = "options" /\ UNCHANGED <<at, boot, tape, routed>>
        /\ stage[t].at \in {"gated", "chosen"}
    BY <1>13 DEF S!ChooseStrategy, S!PriceSymbol
  <2>2. PassesEndClean' /\ PassesKnow'
    BY <2>1 DEF PassesEndClean, PassesKnow
  <2>3. ~(tape.before /\ tape.crisis)
    BY <2>1 DEF GateStands
  <2> QED BY <2>1, <2>2, <2>3 DEF GateStands
<1>14. ASSUME NEW t \in Tickers, S!RouteSpread(t) PROVE PassesKnow' /\ GateStands'
  <2>1. at = "options" /\ UNCHANGED <<at, boot, tape, stage, found>>
        /\ routed'["scheduler"] = routed["scheduler"] /\ found[t] # None
    BY <1>14 DEF S!RouteSpread, PassTyped, S!Tasks
  <2> QED BY <2>1 DEF PassesEndClean, PassesKnow, GateStands
<1>15. CASE S!Restart
  <2>1. at' = "rest" /\ routed' = S!NoneRouted /\ found' = S!Nothing
    BY <1>15 DEF S!Restart
  <2> QED BY <2>1 DEF S!NoneRouted, S!Tasks, PassesEndClean, PassesKnow, GateStands
<1>16. CASE UNCHANGED S!vars
  BY <1>16 DEF S!vars, PassesEndClean, PassesKnow, GateStands
<1> QED BY <1>1, <1>2, <1>3, <1>4, <1>5, <1>6, <1>7, <1>8, <1>9, <1>10, <1>11, <1>12, <1>13,
           <1>14, <1>15, <1>16 DEF S!Next

LEMMA CrisisStarts == S!Init => CrisisInv
<1> SUFFICES ASSUME S!Init PROVE CrisisInv
  OBVIOUS
<1>1. RegimeTyped
  BY DEF S!Init, RegimeTyped, Steadies, S!Calm, Tapes
<1>2. PassTyped
  BY DEF S!Init, PassTyped, S!Idle, S!Nothing, S!NoneRouted, S!Tasks
<1>3. ~tape.crisis
  BY DEF S!Init, S!Calm
<1>4. PassesEndClean
  BY DEF S!Init, PassesEndClean, S!NoneRouted, S!Tasks
<1> QED BY <1>1, <1>2, <1>3, <1>4 DEF S!Init, CrisisInv, CrisisIsSteady, CrisisIsInForce,
           PassesKnow, GateStands

LEMMA CrisisKept ==
  ASSUME S!ScansConstants
  PROVE  CrisisInv /\ [S!Next]_(S!vars) => CrisisInv'
BY PassesKept, CleanKept, RegimeKept, PassTypesKept DEF CrisisInv

LEMMA CrisisMeans == CrisisInv => S!CrisisIsHeeded
<1> SUFFICES ASSUME CrisisInv, tape.before, tape.crisis
             PROVE  routed["scheduler"] = {} /\ routed["options"] = {}
  BY DEF S!CrisisIsHeeded
<1>1. routed["scheduler"] = {}
  BY DEF CrisisInv, PassesKnow, PassesEndClean
<1>2. routed["options"] = {}
  BY DEF CrisisInv, PassesEndClean, GateStands
<1> QED BY <1>1, <1>2

-----------------------------------------------------------------------------
(* The equity signals.                                                     *)

\* An entry grows older, and no entry overtakes another.
LEMMA OlderSays ==
  ASSUME S!ScansConstants, NEW e \in Entry \cup {None}
  PROVE  /\ S!Older(e) \in Entry \cup {None}
         /\ S!Older(e) = None <=> e = None
         /\ e # None =>
              S!Older(e).age = IF e.age + 1 <= SignalMaxAge + 1 THEN e.age + 1 ELSE SignalMaxAge + 1
<1>0. None \notin Entry /\ SignalMaxAge \in Nat
  BY DEF Entry, S!Actions, S!ScansConstants
<1>1. CASE e = None
  BY <1>1 DEF S!Older
<1>2. CASE e # None
  <2>1. e \in Entry /\ e.age \in Nat
    BY <1>2 DEF Entry
  <2>2. S!Older(e) = [e EXCEPT !.age = S!Min({e.age + 1, SignalMaxAge + 1})]
    BY <1>2 DEF S!Older
  <2>3. S!Min({e.age + 1, SignalMaxAge + 1})
          = IF e.age + 1 <= SignalMaxAge + 1 THEN e.age + 1 ELSE SignalMaxAge + 1
    BY <1>0, <2>1, MinOfTwo
  <2>4. S!Min({e.age + 1, SignalMaxAge + 1}) \in Nat
    BY <1>0, <2>1, <2>3
  <2>5. S!Older(e) \in Entry /\ S!Older(e).age = S!Min({e.age + 1, SignalMaxAge + 1})
    BY <2>1, <2>2, <2>4 DEF Entry
  <2> QED BY <1>0, <1>2, <2>3, <2>5
<1> QED BY <1>1, <1>2

LEMMA OlderIsMonotone ==
  ASSUME S!ScansConstants, NEW a \in Entry, NEW b \in Entry, a.age <= b.age
  PROVE  S!Older(a).age <= S!Older(b).age
<1>1. a.age \in Nat /\ b.age \in Nat /\ SignalMaxAge \in Nat /\ a # None /\ b # None
  BY DEF Entry, S!Actions, S!ScansConstants
<1> QED BY <1>1, OlderSays

\* A scan makes new entries, and leaves the other scan's alone.
LEMMA GatheredSays ==
  ASSUME EntriesTyped, NEW s \in S!Scanners, S!Gathered(s)
  PROVE  /\ view' \in [S!Scanners -> [Tickers -> Entry \cup {None}]]
         /\ \A t \in Tickers : view'[s][t] # None => view'[s][t].age = 0
<1>1. PICK sample \in [Tickers -> S!Actions \cup {None}] :
        view' = [view EXCEPT ![s] = [t \in Tickers |->
                   IF sample[t] = None THEN None ELSE [action |-> sample[t], age |-> 0]]]
  BY DEF S!Gathered
<1> DEFINE made == [t \in Tickers |->
                      IF sample[t] = None THEN None ELSE [action |-> sample[t], age |-> 0]]
<1>2. made \in [Tickers -> Entry \cup {None}]
  BY DEF Entry
<1>3. \A t \in Tickers : made[t] # None => made[t].age = 0
  OBVIOUS
<1>4. view' = [view EXCEPT ![s] = made]
  BY <1>1
<1> HIDE DEF made
<1>5. view'[s] = made
  BY <1>4 DEF EntriesTyped
<1> QED BY <1>2, <1>3, <1>4, <1>5 DEF EntriesTyped

LEMMA InsertedSays ==
  ASSUME EntriesTyped, NEW s \in S!Scanners, S!Inserted(s)
  PROVE  /\ equity' \in [Tickers -> Entry \cup {None}]
         /\ newest' \in [Tickers -> Entry \cup {None}]
<1>1. view[s] \in [Tickers -> Entry \cup {None}]
  BY DEF EntriesTyped
<1> QED BY <1>1 DEF EntriesTyped, S!Inserted, S!Later

LEMMA InsertedAgrees ==
  ASSUME EntriesTyped, NEW s \in S!Scanners, S!Inserted(s), equity = newest,
         \A t \in Tickers : view[s][t] # None /\ newest[t] # None =>
                              view[s][t].age <= newest[t].age
  PROVE  equity' = newest'
<1>1. /\ equity' = [t \in Tickers |-> IF view[s][t] = None THEN equity[t] ELSE view[s][t]]
      /\ newest' = [t \in Tickers |-> S!Later(view[s][t], newest[t])]
  BY DEF S!Inserted
<1>2. ASSUME NEW t \in Tickers
      PROVE  S!Later(view[s][t], newest[t]) = IF view[s][t] = None THEN equity[t] ELSE view[s][t]
  BY DEF S!Later
<1> QED BY <1>1, <1>2

LEMMA EntriesKept ==
  ASSUME S!ScansConstants, EntriesTyped, [S!Next]_(S!vars)
  PROVE  EntriesTyped'
<1>1. CASE UNCHANGED <<view, equity, newest>>
  BY <1>1 DEF EntriesTyped
<1>2. ASSUME NEW s \in S!Scanners, S!Gathered(s), UNCHANGED <<equity, newest>> PROVE EntriesTyped'
  BY <1>2, GatheredSays DEF EntriesTyped
<1>3. ASSUME NEW s \in S!Scanners, S!Inserted(s), UNCHANGED view PROVE EntriesTyped'
  BY <1>3, InsertedSays DEF EntriesTyped
<1>4. ASSUME NEW s \in S!Scanners, view' = [view EXCEPT ![s] = S!Nothing],
             UNCHANGED <<equity, newest>>
      PROVE  EntriesTyped'
  BY <1>4 DEF EntriesTyped, S!Nothing
<1>5. CASE S!TimePasses
  <2>1. /\ equity' = [t \in Tickers |-> S!Older(equity[t])]
        /\ newest' = [t \in Tickers |-> S!Older(newest[t])]
        /\ view' = [s \in S!Scanners |-> [t \in Tickers |-> S!Older(view[s][t])]]
    BY <1>5 DEF S!TimePasses
  <2>2. \A e \in Entry \cup {None} : S!Older(e) \in Entry \cup {None}
    BY OlderSays
  <2>3. \A t \in Tickers : S!Older(equity[t]) \in Entry \cup {None}
                           /\ S!Older(newest[t]) \in Entry \cup {None}
    BY <2>2 DEF EntriesTyped
  <2>4. \A s \in S!Scanners : [t \in Tickers |-> S!Older(view[s][t])] \in [Tickers -> Entry \cup {None}]
    BY <2>2 DEF EntriesTyped
  <2> QED BY <2>1, <2>3, <2>4 DEF EntriesTyped
<1>6. CASE S!Restart
  BY <1>6 DEF S!Restart, EntriesTyped, S!Nothing
<1>7. "scheduler" \in S!Scanners /\ "boot" \in S!Scanners
  BY DEF S!Scanners
<1>8. ASSUME S!EnsureFresh \/ S!Reclassify \/ S!BootRead \/ S!StartOptions \/ S!EndOptions \/ UNCHANGED S!vars
      PROVE  UNCHANGED <<view, equity, newest>>
  BY <1>8 DEF S!EnsureFresh, S!Reclassify, S!BootRead, S!StartOptions, S!EndOptions, S!vars
<1>9. ASSUME NEW t \in Tickers,
             \/ S!RouteEquity(t) \/ S!BootRoute(t) \/ S!GateSymbol(t)
             \/ S!ChooseStrategy(t) \/ S!PriceSymbol(t) \/ S!RouteSpread(t)
      PROVE  UNCHANGED <<view, equity, newest>>
  BY <1>9 DEF S!RouteEquity, S!BootRoute, S!GateSymbol, S!ChooseStrategy, S!PriceSymbol, S!RouteSpread
<1>10. CASE S!StartEquity \/ S!BootGather
  BY <1>10, <1>2, <1>7 DEF S!StartEquity, S!BootGather
<1>11. CASE S!InsertEquity \/ S!BootInsert
  BY <1>11, <1>3, <1>7 DEF S!InsertEquity, S!BootInsert
<1>12. CASE S!EndEquity \/ S!BootEnd
  BY <1>12, <1>4, <1>7 DEF S!EndEquity, S!BootEnd
<1> QED BY <1>1, <1>5, <1>6, <1>8, <1>9, <1>10, <1>11, <1>12 DEF S!Next

\* What FirstIsNewest says once it does not say that scans overlapped.
Ordered ==
  /\ equity = newest
  /\ ~(at = "equity" /\ boot = "gather")
  /\ \A s \in S!Scanners, t \in Tickers :
       Pending(s) /\ view[s][t] # None /\ newest[t] # None =>
         view[s][t].age <= newest[t].age

LEMMA FirstKept ==
  ASSUME S!ScansConstants, EntriesTyped, PassTyped, FirstIsNewest, [S!Next]_(S!vars)
  PROVE  FirstIsNewest'
<1> SUFFICES ASSUME ~overlapped' PROVE Ordered'
  BY DEF FirstIsNewest, Ordered, Pending
<1>0. "scheduler" \in S!Scanners /\ "boot" \in S!Scanners /\ S!Scanners = {"scheduler", "boot"}
  BY DEF S!Scanners
<1>1. ASSUME NEW t \in Tickers,
             \/ S!RouteEquity(t) \/ S!BootRoute(t) \/ S!GateSymbol(t)
             \/ S!ChooseStrategy(t) \/ S!PriceSymbol(t) \/ S!RouteSpread(t)
      PROVE  UNCHANGED <<view, equity, newest, overlapped, at, boot>>
  BY <1>1 DEF S!RouteEquity, S!BootRoute, S!GateSymbol, S!ChooseStrategy, S!PriceSymbol, S!RouteSpread
<1>2. CASE UNCHANGED <<view, equity, newest, overlapped, at, boot>>
  BY <1>2 DEF FirstIsNewest, Ordered, Pending
<1>3. CASE S!EnsureFresh \/ S!Reclassify \/ UNCHANGED S!vars
  BY <1>2, <1>3 DEF S!EnsureFresh, S!Reclassify, S!vars
<1>4. CASE S!BootRead \/ S!StartOptions \/ S!EndOptions
  <2>1. UNCHANGED <<view, equity, newest, overlapped>>
    BY <1>4 DEF S!BootRead, S!StartOptions, S!EndOptions
  <2>2. (at' = at \/ at' \in {"rest", "options"}) /\ (boot' = boot \/ boot' = "scan")
    BY <1>4 DEF S!BootRead, S!StartOptions, S!EndOptions
  <2> QED BY <2>1, <2>2 DEF FirstIsNewest, Ordered, Pending
<1>5. CASE S!StartEquity
  <2>1. ~overlapped /\ boot # "gather" /\ boot' = boot /\ UNCHANGED <<equity, newest>>
    BY <1>5 DEF S!StartEquity
  <2>2. \A t \in Tickers : view'["scheduler"][t] # None => view'["scheduler"][t].age = 0
    BY <1>0, <1>5, GatheredSays DEF S!StartEquity
  <2>3. \A t \in Tickers : newest[t] # None => newest[t].age >= 0
    BY DEF EntriesTyped, Entry
  <2> QED BY <1>0, <2>1, <2>2, <2>3 DEF FirstIsNewest, Ordered, Pending
<1>6. CASE S!BootGather
  <2>1. ~overlapped /\ at # "equity" /\ at' = at /\ UNCHANGED <<equity, newest>>
    BY <1>6 DEF S!BootGather
  <2>2. \A t \in Tickers : view'["boot"][t] # None => view'["boot"][t].age = 0
    BY <1>0, <1>6, GatheredSays DEF S!BootGather
  <2>3. \A t \in Tickers : newest[t] # None => newest[t].age >= 0
    BY DEF EntriesTyped, Entry
  <2> QED BY <1>0, <2>1, <2>2, <2>3 DEF FirstIsNewest, Ordered, Pending
<1>7. CASE S!InsertEquity
  <2>1. ~overlapped /\ at = "equity" /\ at' = "route" /\ boot' = boot /\ S!Inserted("scheduler")
    BY <1>7 DEF S!InsertEquity
  <2>2. Ordered /\ boot # "gather" /\ Pending("scheduler")
    BY <2>1 DEF FirstIsNewest, Ordered, Pending
  <2>3. equity' = newest'
    BY <1>0, <2>1, <2>2, InsertedAgrees DEF Ordered
  <2> QED BY <1>0, <2>1, <2>2, <2>3 DEF Ordered, Pending
<1>8. CASE S!BootInsert
  <2>1. ~overlapped /\ boot = "gather" /\ boot' = "route" /\ at' = at /\ S!Inserted("boot")
    BY <1>8 DEF S!BootInsert
  <2>2. Ordered /\ at # "equity" /\ Pending("boot")
    BY <2>1 DEF FirstIsNewest, Ordered, Pending
  <2>3. equity' = newest'
    BY <1>0, <2>1, <2>2, InsertedAgrees DEF Ordered
  <2> QED BY <1>0, <2>1, <2>2, <2>3 DEF Ordered, Pending
<1>9. CASE S!EndEquity \/ S!BootEnd
  <2>1. PICK s \in S!Scanners :
          /\ UNCHANGED <<equity, newest, overlapped>>
          /\ view' = [view EXCEPT ![s] = S!Nothing]
          /\ at' = at \/ at' = "rest"
          /\ boot' = boot \/ boot' = "done"
    BY <1>0, <1>9 DEF S!EndEquity, S!BootEnd
  <2>2. ASSUME NEW r \in S!Scanners, NEW t \in Tickers, view'[r][t] # None
        PROVE  view'[r][t] = view[r][t]
    BY <2>1, <2>2 DEF EntriesTyped, S!Nothing
  <2> QED BY <1>0, <2>1, <2>2 DEF FirstIsNewest, Ordered, Pending
<1>10. CASE S!TimePasses
  <2>1. /\ equity' = [t \in Tickers |-> S!Older(equity[t])]
        /\ newest' = [t \in Tickers |-> S!Older(newest[t])]
        /\ view' = [s \in S!Scanners |-> [t \in Tickers |-> S!Older(view[s][t])]]
        /\ UNCHANGED <<at, boot, overlapped>>
    BY <1>10 DEF S!TimePasses
  <2>2. Ordered
    BY <2>1 DEF FirstIsNewest, Ordered
  <2>3. equity' = newest'
    BY <2>1, <2>2 DEF Ordered
  <2>4. ASSUME NEW s \in S!Scanners, NEW t \in Tickers,
               Pending(s)', view'[s][t] # None, newest'[t] # None
        PROVE  view'[s][t].age <= newest'[t].age
    <3>1. view[s][t] \in Entry \cup {None} /\ newest[t] \in Entry \cup {None}
      BY DEF EntriesTyped
    <3>2. view'[s][t] = S!Older(view[s][t]) /\ newest'[t] = S!Older(newest[t])
      BY <2>1
    <3>3. view[s][t] \in Entry /\ newest[t] \in Entry
      BY <2>4, <3>1, <3>2, OlderSays
    <3>4. Pending(s)
      BY <2>1, <2>4 DEF Pending
    <3>5. None \notin Entry
      BY DEF S!ScansConstants, Entry, S!Actions
    <3>6. view[s][t].age <= newest[t].age
      BY <2>2, <3>3, <3>4, <3>5 DEF Ordered
    <3> QED BY <3>2, <3>3, <3>6, OlderIsMonotone
  <2> QED BY <2>1, <2>2, <2>3, <2>4 DEF Ordered
<1>11. CASE S!Restart
  BY <1>11 DEF S!Restart, Ordered, S!Nothing
<1> QED BY <1>1, <1>2, <1>3, <1>4, <1>5, <1>6, <1>7, <1>8, <1>9, <1>10, <1>11 DEF S!Next

\* A spread is of the strategy that was chosen for it.
LEMMA SpreadIsOfItsStrategy ==
  ASSUME NEW strategy, NEW regime, NEW q, NEW approved, NEW account
  PROVE  \/ S!Spread(strategy, regime, q, approved, account) = None
         \/ S!Spread(strategy, regime, q, approved, account).strategy = strategy
BY DEF S!Spread

LEMMA AgreementKept ==
  ASSUME SignalInv, [S!Next]_(S!vars)
  PROVE  PassAgrees'
<1> USE DEF SignalInv
<1> SUFFICES ASSUME at' = "options", ~overlapped', NEW t \in Tickers
             PROVE  /\ stage'[t].at = "chosen" =>
                         ~S!Conflicts(stage'[t].strategy, equity'[t], SignalMaxAge)
                    /\ found'[t] # None =>
                         ~S!Conflicts(found'[t].strategy, equity'[t], SignalMaxAge)
  BY DEF PassAgrees, S!Conflicts
<1> DEFINE Agrees == /\ stage'[t].at = "chosen" =>
                          ~S!Conflicts(stage'[t].strategy, equity'[t], SignalMaxAge)
                     /\ found'[t] # None =>
                          ~S!Conflicts(found'[t].strategy, equity'[t], SignalMaxAge)
<1>1. ASSUME UNCHANGED <<stage, found, equity, overlapped, at>> PROVE Agrees
  BY <1>1 DEF PassAgrees
<1>2. ASSUME S!EnsureFresh \/ S!Reclassify \/ S!StartEquity \/ S!InsertEquity \/ S!EndEquity
             \/ S!EndOptions \/ S!TimePasses \/ S!Restart
      PROVE  FALSE
  BY <1>2 DEF S!EnsureFresh, S!Reclassify, S!StartEquity, S!InsertEquity, S!EndEquity, S!EndOptions,
              S!TimePasses, S!Restart
<1>3. ASSUME S!BootRead \/ S!BootEnd \/ UNCHANGED S!vars
      PROVE  UNCHANGED <<stage, found, equity, overlapped, at>>
  BY <1>3 DEF S!BootRead, S!BootEnd, S!vars
<1>4. CASE S!BootGather
  BY <1>4 DEF S!BootGather, PassAgrees
<1>5. CASE S!BootInsert
  BY <1>5 DEF S!BootInsert
<1>6. CASE S!StartOptions
  <2>1. stage'[t].at = "waiting" /\ found'[t] = None
    BY <1>6 DEF S!StartOptions, PassesEndClean, S!Nothing
  <2> QED BY <2>1
<1>7. ASSUME NEW u \in Tickers, S!RouteEquity(u) \/ S!BootRoute(u) \/ S!RouteSpread(u)
      PROVE  UNCHANGED <<stage, found, equity, overlapped, at>>
  BY <1>7 DEF S!RouteEquity, S!BootRoute, S!RouteSpread
<1>8. ASSUME NEW u \in Tickers, S!GateSymbol(u) PROVE Agrees
  <2>1. UNCHANGED <<found, equity, overlapped, at>>
    BY <1>8 DEF S!GateSymbol
  <2>2. stage'[t] = stage[t] \/ stage'[t].at \in {"gated", "done"}
    BY <1>8 DEF S!GateSymbol, S!Stage, PassTyped
  <2> QED BY <2>1, <2>2 DEF PassAgrees
<1>9. ASSUME NEW u \in Tickers, S!ChooseStrategy(u) PROVE Agrees
  <2>1. UNCHANGED <<found, equity, overlapped, at>>
    BY <1>9 DEF S!ChooseStrategy
  <2>2. CASE S!Stage(u, "done", None)
    <3>1. stage'[t] = stage[t] \/ stage'[t].at = "done"
      BY <2>2 DEF S!Stage, PassTyped
    <3> QED BY <2>1, <3>1 DEF PassAgrees
  <2>3. ASSUME NEW strategy, NEW refused \in BOOLEAN,
               refused <=> strategy = None \/ S!Conflicts(strategy, equity[u], SignalMaxAge),
               S!Stage(u, IF refused THEN "done" ELSE "chosen", IF refused THEN None ELSE strategy)
        PROVE  Agrees
    <3>1. CASE t # u
      <4>1. stage'[t] = stage[t]
        BY <2>3, <3>1 DEF S!Stage, PassTyped
      <4> QED BY <2>1, <4>1 DEF PassAgrees
    <3>2. CASE t = u /\ refused
      <4>1. stage'[t].at = "done"
        BY <2>3, <3>2 DEF S!Stage, PassTyped
      <4> QED BY <2>1, <4>1 DEF PassAgrees
    <3>3. CASE t = u /\ ~refused
      <4>1. stage'[t].strategy = strategy
        BY <2>3, <3>3 DEF S!Stage, PassTyped
      <4>2. ~S!Conflicts(strategy, equity[t], SignalMaxAge)
        BY <2>3, <3>3
      <4> QED BY <2>1, <4>1, <4>2 DEF PassAgrees
    <3> QED BY <2>3, <3>1, <3>2, <3>3
  <2>4. ASSUME NEW m \in Markets, NEW verdict \in Verdicts,
               LET strategy == S!Qualified(force.regime, m, verdict)
                   refused  == strategy = None \/ S!Conflicts(strategy, equity[u], SignalMaxAge)
               IN  S!Stage(u, IF refused THEN "done" ELSE "chosen",
                         IF refused THEN None ELSE strategy)
        PROVE  Agrees
    <3> DEFINE strategy == S!Qualified(force.regime, m, verdict)
               refused  == strategy = None \/ S!Conflicts(strategy, equity[u], SignalMaxAge)
    <3>1. S!Stage(u, IF refused THEN "done" ELSE "chosen", IF refused THEN None ELSE strategy)
      BY <2>4
    <3>2. refused \in BOOLEAN
      OBVIOUS
    <3>3. refused <=> strategy = None \/ S!Conflicts(strategy, equity[u], SignalMaxAge)
      OBVIOUS
    <3> HIDE DEF strategy, refused
    <3> QED BY <2>3, <3>1, <3>2, <3>3
  <2> QED BY <1>9, <2>2, <2>4 DEF S!ChooseStrategy
<1>10. ASSUME NEW u \in Tickers, S!PriceSymbol(u) PROVE Agrees
  <2>1. UNCHANGED <<equity, overlapped, at>> /\ stage[u].at = "chosen"
    BY <1>10 DEF S!PriceSymbol
  <2>2. stage'[t] = stage[t] \/ stage'[t].at = "done"
    BY <1>10 DEF S!PriceSymbol, S!Stage, PassTyped
  <2>3. \/ found'[t] \in {found[t], None}
        \/ t = u /\ found'[t].strategy = stage[t].strategy
    <3>1. CASE found' = found
      BY <3>1
    <3>2. ASSUME NEW q, NEW account, NEW approved,
                 found' = [found EXCEPT ![u] =
                             S!Spread(stage[u].strategy, force.regime, q, approved, account)]
          PROVE  \/ found'[t] \in {found[t], None}
                 \/ t = u /\ found'[t].strategy = stage[t].strategy
      <4>1. \/ S!Spread(stage[u].strategy, force.regime, q, approved, account) = None
            \/ S!Spread(stage[u].strategy, force.regime, q, approved, account).strategy
                 = stage[u].strategy
        BY SpreadIsOfItsStrategy
      <4> QED BY <3>2, <4>1 DEF PassTyped
    <3> QED BY <1>10, <3>1, <3>2 DEF S!PriceSymbol
  <2> QED BY <2>1, <2>2, <2>3 DEF PassAgrees
<1> QED BY <1>1, <1>2, <1>3, <1>4, <1>5, <1>6, <1>7, <1>8, <1>9, <1>10 DEF S!Next

LEMMA SignalsStart == S!Init => SignalInv
<1> SUFFICES ASSUME S!Init PROVE SignalInv
  OBVIOUS
<1>1. EntriesTyped
  BY DEF S!Init, EntriesTyped, S!Nothing
<1>2. PassTyped
  BY DEF S!Init, PassTyped, S!Idle, S!Nothing, S!NoneRouted, S!Tasks
<1>3. PassesEndClean
  BY DEF S!Init, PassesEndClean, S!NoneRouted, S!Tasks
<1>4. FirstIsNewest
  BY DEF S!Init, FirstIsNewest, S!Nothing, S!Scanners
<1> QED BY <1>1, <1>2, <1>3, <1>4 DEF S!Init, SignalInv, PassAgrees

LEMMA SignalsKept ==
  ASSUME S!ScansConstants
  PROVE  SignalInv /\ [S!Next]_(S!vars) => SignalInv'
BY EntriesKept, PassTypesKept, CleanKept, FirstKept, AgreementKept DEF SignalInv

\* What is handed over against an equity signal.
Contradicted ==
  \A t \in routed'["options"] \ routed["options"] :
    /\ newest[t] # None /\ newest[t].age <= SignalMaxAge
    /\ \/ newest[t].action = "SELL" /\ found[t].strategy \in S!Bullish
       \/ newest[t].action = "BUY" /\ found[t].strategy \notin S!Bullish
    => overlapped

LEMMA ContradictionsOverlap == SignalInv /\ [S!Next]_(S!vars) => Contradicted
<1> SUFFICES ASSUME SignalInv, [S!Next]_(S!vars), NEW t \in routed'["options"] \ routed["options"],
                    newest[t] # None, newest[t].age <= SignalMaxAge,
                    \/ newest[t].action = "SELL" /\ found[t].strategy \in S!Bullish
                    \/ newest[t].action = "BUY" /\ found[t].strategy \notin S!Bullish
             PROVE  overlapped
  BY DEF Contradicted
<1>1. ASSUME NEW u \in Tickers,
             S!RouteEquity(u) \/ S!BootRoute(u) \/ S!GateSymbol(u) \/ S!ChooseStrategy(u) \/ S!PriceSymbol(u)
      PROVE  routed'["options"] = routed["options"]
  BY <1>1 DEF S!RouteEquity, S!BootRoute, S!GateSymbol, S!ChooseStrategy, S!PriceSymbol, SignalInv,
              PassTyped, S!Tasks
<1>2. ASSUME \/ S!EnsureFresh \/ S!Reclassify \/ S!StartEquity \/ S!InsertEquity \/ S!BootRead
             \/ S!BootGather \/ S!BootInsert \/ S!StartOptions \/ S!TimePasses \/ UNCHANGED S!vars
      PROVE  routed' = routed
  BY <1>2 DEF S!EnsureFresh, S!Reclassify, S!StartEquity, S!InsertEquity, S!BootRead, S!BootGather,
              S!BootInsert, S!StartOptions, S!TimePasses, S!vars
<1>3. ASSUME S!EndEquity \/ S!BootEnd \/ S!EndOptions \/ S!Restart
      PROVE  routed'["options"] \subseteq routed["options"]
  BY <1>3 DEF S!EndEquity, S!BootEnd, S!EndOptions, S!Restart, S!NoneRouted, SignalInv, PassTyped, S!Tasks
<1>4. PICK u \in Tickers : S!RouteSpread(u)
  BY <1>1, <1>2, <1>3 DEF S!Next
<1>5. t = u
  BY <1>4 DEF S!RouteSpread, SignalInv, PassTyped, S!Tasks
<1>6. at = "options" /\ found[t] # None
  BY <1>4, <1>5 DEF S!RouteSpread
<1> QED BY <1>5, <1>6 DEF SignalInv, FirstIsNewest, PassAgrees, S!Conflicts

-----------------------------------------------------------------------------
(* SpreadClose.                                                            *)

\* What a request is about to take of the legs.
Due(r) == IF request[r].at \in {"sized", "cleared"} THEN request[r].size ELSE orders[r]

\* Unless something raced, one close is under way at most, and it fits the legs.
SpreadInv ==
  /\ C!TypeOK
  /\ \A r \in Requests : request[r].at \in {"idle", "asked", "sized", "cleared"} => orders[r] = 0
  /\ ~crossed /\ ~moved =>
       /\ spread.short <= 0 /\ spread.long >= 0
       /\ \A r \in Requests : C!Closing(r) => Due(r) <= -spread.short /\ Due(r) <= spread.long
       /\ \A r, q \in Requests : C!Closing(r) /\ C!Closing(q) => r = q

LEMMA AbsIs ==
  ASSUME NEW n \in Int PROVE C!Abs(n) = IF n >= 0 THEN n ELSE -n
<1> DEFINE m == IF n >= 0 THEN n ELSE -n
<1>1. m \in {n, -n} /\ \A y \in {n, -n} : m >= y
  OBVIOUS
<1>2. C!Max({n, -n}) \in {n, -n} /\ \A y \in {n, -n} : C!Max({n, -n}) >= y
  BY <1>1 DEF C!Max
<1> QED BY <1>2 DEF C!Abs

\* The size of a close that is decided on now.
LEMMA HeldFits ==
  ASSUME spread \in [short : Int, long : Int]
  PROVE  /\ C!Held \in Nat
         /\ C!Held <= C!Abs(spread.short) /\ C!Held <= C!Abs(spread.long)
<1> DEFINE a == C!Abs(spread.short)
           b == C!Abs(spread.long)
<1>1. a \in Nat /\ b \in Nat
  BY AbsIs
<1> HIDE DEF a, b
<1>2. (IF a <= b THEN a ELSE b) \in {a, b} /\ \A y \in {a, b} : (IF a <= b THEN a ELSE b) <= y
  BY <1>1
<1>3. C!Min({a, b}) \in {a, b} /\ \A y \in {a, b} : C!Min({a, b}) <= y
  BY <1>2 DEF C!Min
<1>4. C!Held = C!Min({a, b})
  BY DEF C!Held, a, b
<1> QED BY <1>1, <1>3, <1>4 DEF a, b

LEMMA SpreadStarts == C!Init => SpreadInv
<1> SUFFICES ASSUME C!Init PROVE SpreadInv
  OBVIOUS
<1>1. /\ spread \in [short : Int, long : Int]
      /\ spread.short <= 0 /\ spread.long >= 0
  BY SpreadAssumption DEF C!Init
<1>2. \A r \in Requests : request[r] = [at |-> "idle", size |-> 0] /\ orders[r] = 0
  BY DEF C!Init
<1>3. C!TypeOK
  <2>1. {crossed, moved} \subseteq BOOLEAN
    BY Zenon DEF C!Init
  <2>2. row \in 0 .. MaxContracts
    BY SpreadAssumption DEF C!Init
  <2>3. /\ request \in [Requests -> [at : C!Places, size : Nat]]
        /\ orders \in [Requests -> Nat]
    BY DEF C!Init, C!Places
  <2> QED BY <1>1, <1>2, <2>1, <2>2, <2>3 DEF C!TypeOK
<1> QED BY <1>1, <1>2, <1>3 DEF SpreadInv, C!Closing

LEMMA SpreadKept == SpreadInv /\ [C!Next]_(C!vars) => SpreadInv'
<1> SUFFICES ASSUME SpreadInv, [C!Next]_(C!vars) PROVE SpreadInv'
  OBVIOUS
<1> USE SpreadAssumption DEF SpreadInv, C!TypeOK, C!Places, C!Closing, Due, C!Goes
<1>1. ASSUME NEW r \in Requests, C!Ask(r) PROVE SpreadInv'
  BY <1>1 DEF C!Ask
<1>2. ASSUME NEW r \in Requests, C!ReadLegs(r) PROVE SpreadInv'
  <2>1. crossed' \in BOOLEAN
    BY <1>2, Zenon DEF C!ReadLegs
  <2>2. ~crossed' => ~crossed /\ \A q \in Requests \ {r} : ~C!Closing(q)
    BY <1>2, Zenon DEF C!ReadLegs
  <2>3. CASE spread.short = 0 \/ spread.long = 0
    <3>1. /\ request[r].at = "asked"
          /\ request' = [request EXCEPT ![r].at = "done"]
          /\ UNCHANGED <<row, spread, orders, moved>>
      BY <1>2, <2>3, Zenon DEF C!ReadLegs
    <3> QED BY <2>1, <2>2, <3>1
  <2>4. CASE ~(spread.short = 0 \/ spread.long = 0)
    <3>1. /\ C!Held \in Nat
          /\ spread.short <= 0 /\ spread.long >= 0 => C!Held <= -spread.short /\ C!Held <= spread.long
      BY HeldFits, AbsIs
    <3>2. request' = [request EXCEPT ![r] = [at |-> "sized", size |-> C!Held]]
      BY <1>2, <2>4 DEF C!ReadLegs
    <3> QED BY <1>2, <2>1, <2>2, <3>1, <3>2 DEF C!ReadLegs
  <2> QED BY <2>3, <2>4
<1>3. ASSUME NEW r \in Requests, C!CancelOpen(r) PROVE SpreadInv'
  BY <1>3 DEF C!CancelOpen
<1>4. ASSUME NEW r \in Requests, C!Place(r) PROVE SpreadInv'
  BY <1>4 DEF C!Place
<1>5. ASSUME NEW r \in Requests, C!Fill(r) PROVE SpreadInv'
  BY <1>5 DEF C!Fill
<1>6. ASSUME NEW r \in Requests, C!Returns(r) \/ C!Abandon(r) PROVE SpreadInv'
  BY <1>6 DEF C!Returns, C!Abandon
<1>7. ASSUME NEW leg \in {"short", "long"}, C!LegGoes(leg) PROVE SpreadInv'
  BY <1>7 DEF C!LegGoes
<1>8. CASE UNCHANGED C!vars
  BY <1>8 DEF C!vars
<1> QED BY <1>1, <1>2, <1>3, <1>4, <1>5, <1>6, <1>7, <1>8 DEF C!Next

-----------------------------------------------------------------------------
(* The bounds of the scans' types.                                         *)

RegimeBounded ==
  /\ force # None => force.age <= RegimeMaxAge + 1
  /\ at = "options" => force # None
  /\ steady.count <= Required
  /\ tape.agree <= Required /\ tape.quiet <= RegimeMaxAge + 1

EntriesBounded ==
  /\ view \in [S!Scanners -> [Tickers -> S!Entries \cup {None}]]
  /\ equity \in [Tickers -> S!Entries \cup {None}]
  /\ newest \in [Tickers -> S!Entries \cup {None}]

StageTyped(t) ==
  /\ stage[t].at \in {"idle", "waiting", "gated", "chosen", "done"}
  /\ stage[t].strategy \in S!Strategies \cup {None}
  /\ stage[t].at = "chosen" => stage[t].strategy # None

FoundTyped(t) == found[t] = None \/ found[t].size > 0

ScanBounds ==
  /\ RegimeBounded /\ EntriesBounded
  /\ \A t \in Tickers : StageTyped(t) /\ FoundTyped(t)
  /\ overlapped \in BOOLEAN /\ restarts \in 0 .. MaxRestarts

LEMMA ScanNumbers ==
  /\ Required \in Nat /\ Required > 0 /\ RegimeMaxAge \in Nat /\ SignalMaxAge \in Nat
  /\ MaxRestarts \in Nat /\ None \notin Forces /\ None \notin S!Regimes /\ None \notin Entry
BY ScansAssumption DEF S!ScansConstants, Forces, Entry

\* The strategy that is chosen is one of the regime's.
LEMMA TriedAreStrategies ==
  ASSUME NEW r \in S!Regimes
  PROVE  /\ \A i \in DOMAIN S!Tried(r) : S!Tried(r)[i] \in S!Strategies
         /\ DOMAIN S!Tried(r) \in SUBSET Nat
<1>1. S!Tried(r) \in {<<"bull_call_debit_spread">>,
                      <<"bull_put_spread", "bear_call_spread", "iron_condor">>,
                      <<"bull_put_spread", "bear_call_spread">>, <<"bull_put_spread">>}
  BY DEF S!Tried, S!Config, S!Regimes
<1>2. CASE S!Tried(r) = <<"bull_call_debit_spread">>
  BY <1>2 DEF S!Strategies
<1>3. CASE S!Tried(r) = <<"bull_put_spread", "bear_call_spread", "iron_condor">>
  BY <1>3 DEF S!Strategies
<1>4. CASE S!Tried(r) = <<"bull_put_spread", "bear_call_spread">>
  BY <1>4 DEF S!Strategies
<1>5. CASE S!Tried(r) = <<"bull_put_spread">>
  BY <1>5 DEF S!Strategies
<1> QED BY <1>1, <1>2, <1>3, <1>4, <1>5

LEMMA QualifiedIsAStrategy ==
  ASSUME NEW r \in S!Regimes, NEW m, NEW verdict
  PROVE  S!Qualified(r, m, verdict) \in S!Strategies \cup {None}
<1> DEFINE tried == S!Tried(r)
           able == {i \in DOMAIN tried : tried[i] # "iron_condor" /\ S!Enters(tried[i], m, verdict)}
<1>1. /\ \A i \in DOMAIN tried : tried[i] \in S!Strategies
      /\ DOMAIN tried \in SUBSET Nat
  BY TriedAreStrategies
<1>2. S!Qualified(r, m, verdict) = IF able = {} THEN None ELSE tried[S!Min(able)]
  BY DEF S!Qualified
<1> HIDE DEF tried
<1>3. able \in SUBSET Nat /\ able \subseteq DOMAIN tried
  BY <1>1
<1> HIDE DEF able
<1>4. able # {} => S!Min(able) \in able
  BY <1>3, LeastOfSet DEF S!Min
<1> QED BY <1>1, <1>2, <1>3, <1>4

\* A spread that is found is for something.
LEMMA MaxWithOne ==
  ASSUME NEW n \in Int
  PROVE  S!Max({n, 1}) \in Int /\ S!Max({n, 1}) >= 1
<1> DEFINE m == IF n >= 1 THEN n ELSE 1
<1>1. m \in {n, 1} /\ \A y \in {n, 1} : m >= y
  OBVIOUS
<1>2. S!Max({n, 1}) \in {n, 1} /\ \A y \in {n, 1} : S!Max({n, 1}) >= y
  BY <1>1 DEF S!Max
<1> QED BY <1>2

LEMMA SpreadsAreSized ==
  ASSUME NEW strategy \in S!Strategies, NEW r \in S!Regimes, NEW q \in Quotes,
         NEW approved, NEW account \in Accounts
  PROVE  \/ S!Spread(strategy, r, q, approved, account) = None
         \/ S!Spread(strategy, r, q, approved, account).size > 0
<1> DEFINE price == S!Priced(strategy, q)
           loss == S!MaxLoss(strategy, price)
           size == S!Contracts(account, r, loss)
           made == S!Spread(strategy, r, q, approved, account)
<1>1. price \in S!Figures
  <2>1. q.theory \in S!Figures /\ {q.live, q.listed} \subseteq S!Figures \cup {None}
    BY ScansAssumption DEF S!ScansConstants
  <2> QED BY <2>1 DEF S!Priced, S!LiveCredit, S!ListedCredit
<1> HIDE DEF price
<1>2. loss \in Int
  BY <1>1 DEF S!MaxLoss, S!Figures
<1> HIDE DEF loss
<1>3. size \in Int
  <2> DEFINE much == account.value * account.risk * S!Config(r).optionsSize * account.scalar
             little == S!Max({loss, 1})
  <2>1. account.value \in Int /\ account.risk \in Int /\ account.scalar \in Int
    BY ScansAssumption DEF S!ScansConstants
  <2>2. S!Config(r).optionsSize \in Int
    BY DEF S!Config, S!Regimes
  <2>3. account.value * account.risk \in Int
    BY <2>1
  <2>4. account.value * account.risk * S!Config(r).optionsSize \in Int
    BY <2>2, <2>3
  <2>5. much \in Int
    BY <2>1, <2>4
  <2>6. little \in Int /\ little >= 1
    BY <1>2, MaxWithOne
  <2>7. size = much \div (1000000 * little)
    BY DEF S!Contracts
  <2> HIDE DEF much, little, size
  <2>8. 1000000 * little \in Int /\ 1000000 * little > 0
    BY <2>6
  <2> DEFINE d == 1000000 * little
  <2>9. d \in Int /\ d > 0 /\ size = much \div d
    BY <2>7, <2>8
  <2> HIDE DEF d
  <2> QED BY <2>5, <2>9
<1> HIDE DEF size
<1>4. made = IF \/ S!PriceRefused(strategy, price) \/ ~approved
                   \/ size <= 0 \/ S!Concentrated(account, loss * size)
                THEN None
                ELSE [strategy |-> strategy, size |-> size, loss |-> loss,
                      width |-> price.width,
                      liquid |-> ~S!IsDebit(strategy) /\ S!LiveCredit(q)]
  BY DEF S!Spread, price, loss, size
<1> HIDE DEF made
<1>5. CASE size <= 0
  BY <1>4, <1>5 DEF made
<1>6. CASE ~(size <= 0)
  <2>1. size > 0
    BY <1>3, <1>6
  <2>2. made = None \/ made.size = size
    BY <1>4
  <2> QED BY <2>1, <2>2 DEF made
<1> QED BY <1>5, <1>6 DEF made

LEMMA ReadingIsBounded ==
  ASSUME RegimeTyped, RegimeBounded, S!ReadMarket, at' = at
  PROVE  RegimeBounded'
<1>0. steady \in Steadies /\ tape \in Tapes
  BY DEF RegimeTyped
<1>1. CASE UNCHANGED <<force, steady, tape>>
  BY <1>1 DEF RegimeBounded
<1>2. ASSUME NEW f \in Features, S!Observe(S!Classify(f)), S!Heard(S!Classify(f))
      PROVE  RegimeBounded'
  <2> DEFINE r == S!Classify(f)
  <2>1. r \in S!Regimes
    BY EveryReadingHasARegime, ScansAssumption
  <2>2. S!Observe(r) /\ S!Heard(r)
    BY <1>2
  <2> HIDE DEF r
  <2>3. tape'.agree <= Required /\ tape'.quiet <= RegimeMaxAge + 1
    <3>1. /\ tape'.quiet = 0
          /\ tape'.agree = IF r = tape.last
                           THEN (IF tape.agree + 1 <= Required THEN tape.agree + 1 ELSE Required)
                           ELSE 1
      BY <2>1, <2>2, HeardSays, ScansAssumption
    <3>2. tape.agree \in Nat
      BY <1>0 DEF Tapes
    <3> QED BY <3>1, <3>2, ScanNumbers
  <2>4. steady'.regime \in S!Regimes /\ force' = [regime |-> steady'.regime, age |-> 0]
    BY <2>1, <2>2, <1>0, ObserveSays, ScansAssumption DEF Steadies
  <2>5. steady'.count <= Required
    <3> DEFINE count == IF r = steady.pending THEN steady.count + 1 ELSE 1
    <3>1. CASE S!Adopted(r)
      BY <3>1, ScanNumbers DEF S!Adopted
    <3>2. CASE /\ steady' = [steady EXCEPT !.pending = r, !.count = count]
               /\ ~(count >= Required)
      <4>1. count \in Nat
        BY <1>0 DEF Steadies
      <4>2. steady'.count = count
        BY <3>2, <1>0 DEF Steadies
      <4> QED BY <3>2, <4>1, <4>2, ScanNumbers
    <3>3. S!Adopted(r) \/ /\ steady' = [steady EXCEPT !.pending = r, !.count = count]
                          /\ ~(count >= Required)
      BY <2>2, Zenon DEF S!Observe
    <3> QED BY <3>1, <3>2, <3>3
  <2>6. force' # None /\ force'.age = 0
    <3>1. force' \in Forces
      BY <2>4 DEF Forces
    <3> QED BY <2>4, <3>1, ScanNumbers
  <2> QED BY <2>3, <2>5, <2>6, ScanNumbers DEF RegimeBounded
<1> QED BY <1>1, <1>2 DEF S!ReadMarket

LEMMA EnsuredIsBounded ==
  ASSUME RegimeTyped, RegimeBounded
  PROVE  S!Ensured # None /\ S!Ensured \in Forces /\ S!Ensured.age <= RegimeMaxAge + 1
<1>1. [regime |-> "unknown", age |-> 0] \in Forces
  BY DEF Forces, S!Regimes
<1>2. CASE force # None /\ force.age <= RegimeMaxAge
  <2>1. force \in Forces /\ force.age <= RegimeMaxAge + 1 /\ S!Ensured = force
    BY <1>2 DEF S!Ensured, RegimeTyped, RegimeBounded
  <2> QED BY <1>2, <2>1
<1>3. CASE ~(force # None /\ force.age <= RegimeMaxAge)
  <2>1. S!Ensured = [regime |-> "unknown", age |-> 0]
    BY <1>3 DEF S!Ensured
  <2> QED BY <1>1, <2>1, ScanNumbers
<1> QED BY <1>2, <1>3

LEMMA RegimeBoundsKept ==
  ASSUME RegimeTyped, RegimeBounded, [S!Next]_(S!vars)
  PROVE  RegimeBounded'
<1>1. CASE UNCHANGED <<force, steady, tape>> /\ (at' = at \/ at' # "options")
  BY <1>1 DEF RegimeBounded
<1>2. CASE S!Reclassify \/ S!BootRead
  BY <1>2, ReadingIsBounded DEF S!Reclassify, S!BootRead
<1>3. CASE S!EnsureFresh
  <2>1. force' = S!Ensured /\ UNCHANGED <<steady, tape>>
    BY <1>3 DEF S!EnsureFresh
  <2> QED BY <2>1, EnsuredIsBounded DEF RegimeBounded
<1>4. CASE S!StartEquity \/ S!StartOptions
  <2>1. force' = S!Ensured /\ UNCHANGED steady /\ S!Begun
    BY <1>4 DEF S!StartEquity, S!StartOptions
  <2>2. tape'.agree = tape.agree /\ tape'.quiet = tape.quiet
    BY <2>1, BegunSays
  <2> QED BY <2>1, <2>2, EnsuredIsBounded DEF RegimeBounded
<1>5. CASE S!TimePasses
  <2>1. /\ at = "rest" /\ at' = at /\ steady' = steady
        /\ tape' = [tape EXCEPT !.quiet = S!Min({tape.quiet + 1, RegimeMaxAge + 1})]
        /\ force' = IF force = None THEN None
                    ELSE [force EXCEPT !.age = S!Min({force.age + 1, RegimeMaxAge + 1})]
    BY <1>5 DEF S!TimePasses
  <2>2. tape.quiet \in Nat /\ tape.agree \in Nat /\ (force # None => force.age \in Nat)
    BY DEF RegimeTyped, Tapes, Forces
  <2>3. \A n \in Nat : S!Min({n + 1, RegimeMaxAge + 1}) <= RegimeMaxAge + 1
    <3> SUFFICES ASSUME NEW n \in Nat
                 PROVE  S!Min({n + 1, RegimeMaxAge + 1}) <= RegimeMaxAge + 1
      OBVIOUS
    <3>1. n + 1 \in Nat /\ RegimeMaxAge + 1 \in Nat
      BY ScanNumbers
    <3> QED BY <3>1, MinOfTwo
  <2>4. tape'.agree = tape.agree /\ tape'.quiet <= RegimeMaxAge + 1
    <3>1. tape \in Tapes
      BY DEF RegimeTyped
    <3>2. tape'.agree = tape.agree /\ tape'.quiet = S!Min({tape.quiet + 1, RegimeMaxAge + 1})
      BY <2>1, <3>1 DEF Tapes
    <3> QED BY <2>2, <2>3, <3>2
  <2>5. force' # None => force'.age <= RegimeMaxAge + 1
    <3> SUFFICES ASSUME force' # None PROVE force'.age <= RegimeMaxAge + 1
      OBVIOUS
    <3>1. force \in Forces /\ force # None
      BY <2>1 DEF RegimeTyped
    <3>2. force'.age = S!Min({force.age + 1, RegimeMaxAge + 1})
      BY <2>1, <3>1 DEF Forces
    <3> QED BY <2>2, <2>3, <3>1, <3>2
  <2> QED BY <2>1, <2>4, <2>5 DEF RegimeBounded
<1>6. CASE S!Restart
  <2>1. /\ force' = None /\ steady' = [regime |-> None, pending |-> None, count |-> 0]
        /\ tape' = S!Calm /\ at' = "rest"
    BY <1>6 DEF S!Restart
  <2> QED BY <2>1, ScanNumbers DEF RegimeBounded, S!Calm
<1>7. ASSUME NEW t \in Tickers,
             \/ S!RouteEquity(t) \/ S!BootRoute(t) \/ S!GateSymbol(t)
             \/ S!ChooseStrategy(t) \/ S!PriceSymbol(t) \/ S!RouteSpread(t)
      PROVE  UNCHANGED <<force, steady, tape, at>>
  BY <1>7 DEF S!RouteEquity, S!BootRoute, S!GateSymbol, S!ChooseStrategy, S!PriceSymbol, S!RouteSpread
<1>8. ASSUME \/ S!InsertEquity \/ S!EndEquity \/ S!BootGather \/ S!BootInsert \/ S!BootEnd
             \/ S!EndOptions \/ UNCHANGED S!vars
      PROVE  UNCHANGED <<force, steady, tape>> /\ (at' = at \/ at' # "options")
  BY <1>8 DEF S!InsertEquity, S!EndEquity, S!BootGather, S!BootInsert, S!BootEnd, S!EndOptions, S!vars
<1> QED BY <1>1, <1>2, <1>3, <1>4, <1>5, <1>6, <1>7, <1>8 DEF S!Next

LEMMA NewEntries ==
  /\ \A a \in S!Actions : [action |-> a, age |-> 0] \in S!Entries
  /\ \A e \in S!Entries \cup {None} : S!Older(e) \in S!Entries \cup {None}
<1>1. \A a \in S!Actions : [action |-> a, age |-> 0] \in S!Entries
  BY ScanNumbers DEF S!Entries
<1>2. ASSUME NEW e \in S!Entries PROVE S!Older(e) \in S!Entries
  <2>1. e \in Entry /\ e.age \in Nat
    BY <1>2, ScanNumbers DEF S!Entries, Entry
  <2>2. S!Older(e) = [e EXCEPT !.age = S!Min({e.age + 1, SignalMaxAge + 1})]
    BY <2>1, ScanNumbers DEF S!Older
  <2>3. S!Min({e.age + 1, SignalMaxAge + 1}) \in 0 .. SignalMaxAge + 1
    BY <2>1, ScanNumbers, MinOfTwo
  <2> QED BY <2>2, <2>3 DEF S!Entries
<1>3. S!Older(None) = None
  BY DEF S!Older
<1> QED BY <1>1, <1>2, <1>3

LEMMA EntryBoundsKept ==
  ASSUME EntriesBounded, [S!Next]_(S!vars)
  PROVE  EntriesBounded'
<1> DEFINE Signals == [Tickers -> S!Entries \cup {None}]
<1>0. /\ view \in [S!Scanners -> Signals] /\ equity \in Signals /\ newest \in Signals
  BY DEF EntriesBounded
<1>1. CASE UNCHANGED <<view, equity, newest>>
  BY <1>1 DEF EntriesBounded
<1>2. ASSUME NEW s \in S!Scanners, S!Gathered(s), UNCHANGED <<equity, newest>>
      PROVE  EntriesBounded'
  <2>1. PICK sample \in [Tickers -> S!Actions \cup {None}] :
               view' = [view EXCEPT ![s] = [t \in Tickers |->
                          IF sample[t] = None THEN None ELSE [action |-> sample[t], age |-> 0]]]
    BY <1>2 DEF S!Gathered
  <2>2. [t \in Tickers |-> IF sample[t] = None THEN None ELSE [action |-> sample[t], age |-> 0]]
          \in Signals
    BY NewEntries
  <2>3. view' \in [S!Scanners -> Signals]
    BY <1>0, <2>1, <2>2
  <2> QED BY <1>0, <1>2, <2>3 DEF EntriesBounded
<1>3. ASSUME NEW s \in S!Scanners, S!Inserted(s), UNCHANGED view PROVE EntriesBounded'
  <2>1. view[s] \in Signals
    BY <1>0
  <2>2. /\ equity' = [t \in Tickers |-> IF view[s][t] = None THEN equity[t] ELSE view[s][t]]
        /\ newest' = [t \in Tickers |-> S!Later(view[s][t], newest[t])]
    BY <1>3 DEF S!Inserted
  <2>3. equity' \in Signals /\ newest' \in Signals
    BY <1>0, <2>1, <2>2 DEF S!Later
  <2> QED BY <1>0, <1>3, <2>3 DEF EntriesBounded
<1>4. ASSUME NEW s \in S!Scanners, view' = [view EXCEPT ![s] = S!Nothing],
             UNCHANGED <<equity, newest>>
      PROVE  EntriesBounded'
  BY <1>4 DEF EntriesBounded, S!Nothing
<1>5. CASE S!TimePasses
  <2>1. /\ equity' = [t \in Tickers |-> S!Older(equity[t])]
        /\ newest' = [t \in Tickers |-> S!Older(newest[t])]
        /\ view' = [s \in S!Scanners |-> [t \in Tickers |-> S!Older(view[s][t])]]
    BY <1>5 DEF S!TimePasses
  <2>2. \A x \in Signals : [t \in Tickers |-> S!Older(x[t])] \in Signals
    BY NewEntries
  <2>3. \A s \in S!Scanners : view[s] \in Signals
    BY <1>0
  <2> HIDE DEF Signals
  <2>4. equity' \in Signals /\ newest' \in Signals
    BY <1>0, <2>1, <2>2
  <2>5. view' \in [S!Scanners -> Signals]
    BY <2>1, <2>2, <2>3
  <2> QED BY <2>4, <2>5 DEF EntriesBounded, Signals
<1>6. CASE S!Restart
  BY <1>6 DEF S!Restart, EntriesBounded, S!Nothing
<1>7. "scheduler" \in S!Scanners /\ "boot" \in S!Scanners
  BY DEF S!Scanners
<1>8. ASSUME S!EnsureFresh \/ S!Reclassify \/ S!BootRead \/ S!StartOptions \/ S!EndOptions \/ UNCHANGED S!vars
      PROVE  UNCHANGED <<view, equity, newest>>
  BY <1>8 DEF S!EnsureFresh, S!Reclassify, S!BootRead, S!StartOptions, S!EndOptions, S!vars
<1>9. ASSUME NEW t \in Tickers,
             \/ S!RouteEquity(t) \/ S!BootRoute(t) \/ S!GateSymbol(t)
             \/ S!ChooseStrategy(t) \/ S!PriceSymbol(t) \/ S!RouteSpread(t)
      PROVE  UNCHANGED <<view, equity, newest>>
  BY <1>9 DEF S!RouteEquity, S!BootRoute, S!GateSymbol, S!ChooseStrategy, S!PriceSymbol, S!RouteSpread
<1>10. CASE S!StartEquity \/ S!BootGather
  BY <1>10, <1>2, <1>7 DEF S!StartEquity, S!BootGather
<1>11. CASE S!InsertEquity \/ S!BootInsert
  BY <1>11, <1>3, <1>7 DEF S!InsertEquity, S!BootInsert
<1>12. CASE S!EndEquity \/ S!BootEnd
  BY <1>12, <1>4, <1>7 DEF S!EndEquity, S!BootEnd
<1> QED BY <1>1, <1>5, <1>6, <1>8, <1>9, <1>10, <1>11, <1>12 DEF S!Next

\* What is known of a symbol in an options pass.
SymbolTyped(t) == StageTyped(t) /\ FoundTyped(t)

LEMMA StagesKept ==
  ASSUME RegimeTyped, RegimeBounded, PassTyped, \A t \in Tickers : SymbolTyped(t),
         [S!Next]_(S!vars)
  PROVE  \A t \in Tickers : SymbolTyped(t)'
<1> SUFFICES ASSUME NEW t \in Tickers PROVE SymbolTyped(t)'
  OBVIOUS
<1>0. SymbolTyped(t)
  OBVIOUS
<1>1. ASSUME UNCHANGED <<stage, found>> PROVE SymbolTyped(t)'
  BY <1>0, <1>1 DEF SymbolTyped, StageTyped, FoundTyped
<1>2. ASSUME S!EnsureFresh \/ S!Reclassify \/ S!StartEquity \/ S!InsertEquity \/ S!EndEquity
             \/ S!BootRead \/ S!BootGather \/ S!BootInsert \/ S!BootEnd
             \/ S!TimePasses \/ UNCHANGED S!vars
      PROVE  UNCHANGED <<stage, found>>
  BY <1>2 DEF S!EnsureFresh, S!Reclassify, S!StartEquity, S!InsertEquity, S!EndEquity,
              S!BootRead, S!BootGather, S!BootInsert, S!BootEnd, S!TimePasses, S!vars
<1>3. ASSUME NEW u \in Tickers, S!RouteEquity(u) \/ S!BootRoute(u) \/ S!RouteSpread(u)
      PROVE  UNCHANGED <<stage, found>>
  BY <1>3 DEF S!RouteEquity, S!BootRoute, S!RouteSpread
<1>4. CASE S!StartOptions
  <2>1. /\ stage' = [u \in Tickers |-> [at |-> "waiting", strategy |-> None]]
        /\ found' = found
    BY <1>4 DEF S!StartOptions
  <2> QED BY <1>0, <2>1 DEF SymbolTyped, StageTyped, FoundTyped
<1>5. CASE S!EndOptions \/ S!Restart
  <2>1. stage' = S!Idle /\ found' = S!Nothing
    BY <1>5 DEF S!EndOptions, S!Restart
  <2> QED BY <2>1 DEF SymbolTyped, StageTyped, FoundTyped, S!Idle, S!Nothing
<1>6. ASSUME NEW u \in Tickers, NEW where, NEW strategy, S!Stage(u, where, strategy),
             where \in {"gated", "chosen", "done"}, strategy \in S!Strategies \cup {None},
             where = "chosen" => strategy # None
      PROVE  StageTyped(t)'
  <2>1. stage' = [stage EXCEPT ![u] = [at |-> where, strategy |-> strategy]]
    BY <1>6 DEF S!Stage
  <2>2. CASE u = t
    <3>1. stage'[t] = [at |-> where, strategy |-> strategy]
      BY <2>1, <2>2 DEF PassTyped
    <3> QED BY <1>6, <3>1 DEF StageTyped
  <2>3. CASE u # t
    <3>1. stage'[t] = stage[t]
      BY <2>1, <2>3 DEF PassTyped
    <3> QED BY <1>0, <3>1 DEF SymbolTyped, StageTyped
  <2> QED BY <2>2, <2>3
<1>7. ASSUME NEW u \in Tickers, S!GateSymbol(u) PROVE SymbolTyped(t)'
  <2> DEFINE where == IF S!OptionsAllowed(force.regime) THEN "gated" ELSE "done"
  <2>1. S!Stage(u, where, None) /\ found' = found
    BY <1>7 DEF S!GateSymbol
  <2>2. where \in {"gated", "done"}
    OBVIOUS
  <2> HIDE DEF where
  <2>3. StageTyped(t)'
    BY <1>6, <2>1, <2>2
  <2> QED BY <1>0, <2>1, <2>3 DEF SymbolTyped, FoundTyped
<1>8. ASSUME at = "options" PROVE force.regime \in S!Regimes
  BY <1>8 DEF RegimeTyped, RegimeBounded, Forces
<1>9. ASSUME NEW u \in Tickers, S!ChooseStrategy(u) PROVE SymbolTyped(t)'
  <2>1. at = "options" /\ found' = found
    BY <1>9 DEF S!ChooseStrategy
  <2>2. CASE S!Stage(u, "done", None)
    BY <1>0, <1>6, <2>1, <2>2 DEF SymbolTyped, FoundTyped
  <2>3. ASSUME NEW m \in Markets, NEW verdict \in Verdicts,
               LET strategy == S!Qualified(force.regime, m, verdict)
                   refused  == strategy = None \/ S!Conflicts(strategy, equity[u], SignalMaxAge)
               IN  S!Stage(u, IF refused THEN "done" ELSE "chosen",
                         IF refused THEN None ELSE strategy)
        PROVE  SymbolTyped(t)'
    <3> DEFINE strategy == S!Qualified(force.regime, m, verdict)
               refused  == strategy = None \/ S!Conflicts(strategy, equity[u], SignalMaxAge)
               where == IF refused THEN "done" ELSE "chosen"
               what == IF refused THEN None ELSE strategy
    <3>1. S!Stage(u, where, what)
      BY <2>3
    <3>2. strategy \in S!Strategies \cup {None}
      BY <1>8, <2>1, QualifiedIsAStrategy
    <3> HIDE DEF strategy
    <3>3. /\ where \in {"chosen", "done"} /\ what \in S!Strategies \cup {None}
          /\ where = "chosen" => what # None
      BY <3>2
    <3> HIDE DEF where, what
    <3>4. StageTyped(t)'
      BY <1>6, <3>1, <3>3
    <3> QED BY <1>0, <2>1, <3>4 DEF SymbolTyped, FoundTyped
  <2> QED BY <1>9, <2>2, <2>3 DEF S!ChooseStrategy
<1>10. ASSUME NEW u \in Tickers, S!PriceSymbol(u) PROVE SymbolTyped(t)'
  <2>1. at = "options" /\ stage[u].at = "chosen" /\ S!Stage(u, "done", None)
    BY <1>10 DEF S!PriceSymbol
  <2>2. StageTyped(t)'
    BY <1>6, <2>1
  <2>3. CASE found' = found
    BY <1>0, <2>2, <2>3 DEF SymbolTyped, FoundTyped
  <2>4. ASSUME NEW q \in Quotes, NEW account \in Accounts, NEW approved \in BOOLEAN,
               found' = [found EXCEPT ![u] =
                           S!Spread(stage[u].strategy, force.regime, q, approved, account)]
        PROVE  SymbolTyped(t)'
    <3>1. stage[u].strategy \in S!Strategies /\ force.regime \in S!Regimes
      <4>1. SymbolTyped(u)
        OBVIOUS
      <4> QED BY <1>8, <2>1, <4>1 DEF SymbolTyped, StageTyped
    <3> DEFINE made == S!Spread(stage[u].strategy, force.regime, q, approved, account)
    <3>2. made = None \/ made.size > 0
      BY <3>1, SpreadsAreSized
    <3>3. found' = [found EXCEPT ![u] = made]
      BY <2>4
    <3> HIDE DEF made
    <3>4. found'[t] = made \/ found'[t] = found[t]
      BY <3>3 DEF PassTyped
    <3> QED BY <1>0, <2>2, <3>2, <3>4 DEF SymbolTyped, FoundTyped
  <2> QED BY <1>10, <2>3, <2>4 DEF S!PriceSymbol
<1> QED BY <1>1, <1>2, <1>3, <1>4, <1>5, <1>7, <1>9, <1>10 DEF S!Next

LEMMA CountsKept ==
  ASSUME overlapped \in BOOLEAN, restarts \in 0 .. MaxRestarts, [S!Next]_(S!vars)
  PROVE  overlapped' \in BOOLEAN /\ restarts' \in 0 .. MaxRestarts
<1>1. ASSUME NEW t \in Tickers,
             \/ S!RouteEquity(t) \/ S!BootRoute(t) \/ S!GateSymbol(t)
             \/ S!ChooseStrategy(t) \/ S!PriceSymbol(t) \/ S!RouteSpread(t)
      PROVE  UNCHANGED <<overlapped, restarts>>
  BY <1>1 DEF S!RouteEquity, S!BootRoute, S!GateSymbol, S!ChooseStrategy, S!PriceSymbol, S!RouteSpread
<1>2. ASSUME \/ S!EnsureFresh \/ S!Reclassify \/ S!InsertEquity \/ S!EndEquity \/ S!BootRead
             \/ S!BootEnd \/ S!StartOptions \/ S!EndOptions \/ S!TimePasses \/ UNCHANGED S!vars
      PROVE  UNCHANGED <<overlapped, restarts>>
  BY <1>2 DEF S!EnsureFresh, S!Reclassify, S!InsertEquity, S!EndEquity, S!BootRead, S!BootEnd,
              S!StartOptions, S!EndOptions, S!TimePasses, S!vars
<1>3. CASE S!StartEquity \/ S!BootGather \/ S!BootInsert
  <2>1. restarts' = restarts
    BY <1>3 DEF S!StartEquity, S!BootGather, S!BootInsert
  <2>2. overlapped' \in BOOLEAN
    <3>1. \/ overlapped' = (overlapped \/ boot = "gather")
          \/ overlapped' = (overlapped \/ at = "equity")
          \/ overlapped' = (overlapped \/ at = "options")
      BY <1>3, Zenon DEF S!StartEquity, S!BootGather, S!BootInsert
    <3> QED BY <3>1
  <2> QED BY <2>1, <2>2
<1>4. CASE S!Restart
  <2>1. restarts < MaxRestarts /\ restarts' = restarts + 1
    BY <1>4 DEF S!Restart
  <2>2. overlapped' = FALSE
    BY <1>4 DEF S!Restart
  <2>3. restarts' \in 0 .. MaxRestarts
    BY <2>1, ScanNumbers
  <2>4. overlapped' \in BOOLEAN
    BY <2>2
  <2> QED BY <2>3, <2>4
<1> QED BY <1>1, <1>2, <1>3, <1>4 DEF S!Next

LEMMA BoundsStart == S!Init => ScanBounds
<1> SUFFICES ASSUME S!Init PROVE ScanBounds
  OBVIOUS
<1>1. RegimeBounded
  BY ScanNumbers DEF S!Init, RegimeBounded, S!Calm
<1>2. EntriesBounded
  BY DEF S!Init, EntriesBounded, S!Nothing
<1>3. \A t \in Tickers : StageTyped(t) /\ FoundTyped(t)
  BY DEF S!Init, StageTyped, FoundTyped, S!Idle, S!Nothing
<1>4. overlapped \in BOOLEAN
  BY DEF S!Init
<1>5. restarts \in 0 .. MaxRestarts
  BY ScanNumbers DEF S!Init
<1> QED BY <1>1, <1>2, <1>3, <1>4, <1>5 DEF ScanBounds

LEMMA BoundsKept ==
  ASSUME RegimeTyped, PassTyped, ScanBounds, [S!Next]_(S!vars)
  PROVE  ScanBounds'
<1>1. RegimeBounded' /\ EntriesBounded'
  BY RegimeBoundsKept, EntryBoundsKept DEF ScanBounds
<1>2. overlapped' \in BOOLEAN /\ restarts' \in 0 .. MaxRestarts
  BY CountsKept DEF ScanBounds
<1>3. \A t \in Tickers : SymbolTyped(t)'
  <2>1. \A t \in Tickers : SymbolTyped(t)
    BY DEF ScanBounds, SymbolTyped
  <2> QED BY <2>1, StagesKept DEF ScanBounds
<1> QED BY <1>1, <1>2, <1>3 DEF ScanBounds, SymbolTyped

LEMMA ScansAreTyped == RegimeTyped /\ PassTyped /\ ScanBounds => S!TypeOK
<1> SUFFICES ASSUME RegimeTyped, PassTyped, ScanBounds PROVE S!TypeOK
  OBVIOUS
<1>1. force = None \/ force \in [regime : S!Regimes, age : 0 .. RegimeMaxAge + 1]
  BY ScanNumbers DEF RegimeTyped, ScanBounds, RegimeBounded, Forces
<1>2. steady \in [regime : S!Regimes \cup {None}, pending : S!Regimes \cup {None},
                  count : 0 .. Required]
  BY ScanNumbers DEF RegimeTyped, ScanBounds, RegimeBounded, Steadies
<1>3. tape.agree \in 0 .. Required /\ tape.quiet \in 0 .. RegimeMaxAge + 1
  BY ScanNumbers DEF RegimeTyped, ScanBounds, RegimeBounded, Tapes
<1>4. /\ at \in {"rest", "equity", "route", "options"}
      /\ boot \in {"reading", "scan", "gather", "route", "done"}
      /\ routed \in [S!Tasks -> SUBSET Tickers]
  BY DEF PassTyped
<1>5. /\ view \in [S!Scanners -> [Tickers -> S!Entries \cup {None}]]
      /\ equity \in [Tickers -> S!Entries \cup {None}]
      /\ newest \in [Tickers -> S!Entries \cup {None}]
  BY DEF ScanBounds, EntriesBounded
<1>6. \A t \in Tickers : StageTyped(t) /\ FoundTyped(t)
  BY DEF ScanBounds
<1>7. overlapped \in BOOLEAN /\ restarts \in 0 .. MaxRestarts
  BY DEF ScanBounds
<1> QED BY <1>1, <1>2, <1>3, <1>4, <1>5, <1>6, <1>7 DEF S!TypeOK, StageTyped, FoundTyped

-----------------------------------------------------------------------------
(* Rotation.                                                               *)

Rehearsals ==
  [at : {"idle", "rows", "positions", "held", "checked", "detected", "compared",
         "validated", "done"},
   seen : [TableRows -> 0 .. MaxShares] \cup {None}, failed : BOOLEAN,
   held : SUBSET Symbols, worst : TableRows \cup {None},
   challenger : Challengers \cup {None},
   advice : {None, "replace", "hold", "insufficient_data"}, stillOpen : BOOLEAN,
   intent : R!Intents \cup {None}]

RotationTyped ==
  /\ open \in [TableRows -> 0 .. MaxShares]
  /\ shares \in [Symbols -> -MaxShares .. MaxShares] /\ contracts \in Nat
  /\ resting \subseteq DOMAIN Pool /\ changed \in BOOLEAN
  /\ rehearsal \in Rehearsals

Agrees == R!Agree(open)
OrdersAreHeld == R!OrdersClear(R!Held)
Covered == \A r \in R!OpenRows : R!Stop(Facts[r].symbol) # None

\* What the reads have found, as long as nothing has changed since.
Exact ==
  /\ rehearsal.at # "idle" => rehearsal.seen = open
  /\ rehearsal.at \notin {"idle", "rows"} /\ ~rehearsal.failed => Agrees
  /\ rehearsal.at \notin {"idle", "rows", "positions"} => rehearsal.held = R!Held
  /\ /\ rehearsal.at \in {"checked", "detected", "compared", "validated", "done"}
     /\ ~rehearsal.failed
     => OrdersAreHeld
  /\ /\ rehearsal.at \in {"detected", "compared", "validated", "done"}
     /\ rehearsal.worst # None
     => rehearsal.worst \in R!OpenRows
  /\ /\ rehearsal.at \in {"compared", "validated", "done"}
     /\ rehearsal.advice = "replace"
     => Covered
  /\ rehearsal.at \in {"validated", "done"} =>
       rehearsal.stillOpen = (rehearsal.worst \in R!OpenRows)
  /\ rehearsal.at = "done" /\ rehearsal.worst # None =>
       \/ shares[Facts[rehearsal.worst].symbol] = 0
       \/ /\ rehearsal.intent # None
          /\ rehearsal.intent.quantity = R!Abs(shares[Facts[rehearsal.worst].symbol])

RehearsalInv == RotationTyped /\ (~changed => Exact)

LEMMA SizeIs ==
  ASSUME NEW n \in Int PROVE R!Abs(n) = IF n >= 0 THEN n ELSE -n
<1> DEFINE m == IF n >= 0 THEN n ELSE -n
<1>1. m \in {n, -n} /\ \A y \in {n, -n} : m >= y
  OBVIOUS
<1>2. R!Max({n, -n}) \in {n, -n} /\ \A y \in {n, -n} : R!Max({n, -n}) >= y
  BY <1>1 DEF R!Max
<1> QED BY <1>2 DEF R!Abs

\* The rows of an open row's symbol hold something.
LEMMA TotalsArePositive ==
  ASSUME RotationTyped, NEW r \in R!OpenRows
  PROVE  R!Total(open, Facts[r].symbol) > 0
<1> DEFINE D == {q \in TableRows : Facts[q].symbol = Facts[r].symbol}
<1>1. R!Total(open, Facts[r].symbol) = SumFunctionOnSet(open, D)
  BY DEF R!Total, R!MapThenSumSet, R!MapThenFoldSet, SumFunctionOnSet, FoldFunctionOnSet,
         MapThenFoldSet
<1>2. D \in SUBSET TableRows /\ r \in D
  BY DEF R!OpenRows
<1>3. IsFiniteSet(D) /\ MaxShares \in Nat
  <2>1. IsFiniteSet(TableRows)
    BY RotationAssumption DEF R!RotationConstants, R!IsFiniteSet, IsFiniteSet
  <2> QED BY <1>2, <2>1, FS_Subset, RotationAssumption DEF R!RotationConstants
<1>4. open[r] > 0 /\ \A q \in D : open[q] \in Nat
  BY <1>2, <1>3 DEF RotationTyped, R!OpenRows
<1> HIDE DEF D
<1>5. SumFunctionOnSet(open, D) = open[r] + SumFunctionOnSet(open, D \ {r})
  <2>1. \A q \in D : open[q] \in Int
    BY <1>4
  <2> QED BY <1>2, <1>3, <2>1, SumsOfParts
<1>6. SumFunctionOnSet(open, {}) <= SumFunctionOnSet(open, D \ {r})
  <2>1. IsFiniteSet(D \ {r}) /\ {} \in SUBSET (D \ {r}) /\ \A q \in D \ {r} : open[q] \in Nat
    BY <1>3, <1>4, FS_Subset
  <2> QED BY <2>1, PartsSumToLess
<1>7. SumFunctionOnSet(open, {}) = 0 /\ SumFunctionOnSet(open, D \ {r}) \in Int
  <2>1. IsFiniteSet(D \ {r}) /\ \A q \in D \ {r} : open[q] \in Int
    BY <1>3, <1>4, FS_Subset
  <2> QED BY <2>1, SumsOfParts
<1> QED BY <1>1, <1>2, <1>4, <1>5, <1>6, <1>7

\* The order of the ranks is lexicographic.
LEMMA BeforeSays ==
  ASSUME NEW a, NEW b
  PROVE  R!Before(a, b) <=>
           \/ a[1] < b[1]
           \/ a[1] = b[1] /\ a[2] < b[2]
           \/ a[1] = b[1] /\ a[2] = b[2] /\ a[3] < b[3]
           \/ a[1] = b[1] /\ a[2] = b[2] /\ a[3] = b[3] /\ a[4] < b[4]
<1>1. 1 .. 4 = {1, 2, 3, 4} /\ 1 .. 1 - 1 = {} /\ 1 .. 2 - 1 = {1} /\ 1 .. 3 - 1 = {1, 2}
      /\ 1 .. 4 - 1 = {1, 2, 3}
  OBVIOUS
<1> QED BY <1>1 DEF R!Before

LEMMA RanksAreOrdered ==
  /\ \A p \in TableRows : ~R!Before(R!Rank(p), R!Rank(p))
  /\ \A p, q, r \in TableRows :
       R!Before(R!Rank(p), R!Rank(q)) /\ R!Before(R!Rank(q), R!Rank(r)) =>
         R!Before(R!Rank(p), R!Rank(r))
<1> DEFINE r1(p) == IF Facts[p].quality = None THEN 1000 ELSE Facts[p].quality
           r2(p) == IF Facts[p].flagged = TRUE THEN 0 ELSE 1
           r3(p) == IF Facts[p].confidence = None THEN 1000 ELSE Facts[p].confidence
           r4(p) == Facts[p].born
<1>1. \A p \in TableRows : r1(p) \in Int /\ r2(p) \in Int /\ r3(p) \in Int /\ r4(p) \in Int
  <2>1. \A p \in TableRows : {Facts[p].quality, Facts[p].confidence} \subseteq Int \cup {None}
                             /\ Facts[p].born \in Int
    BY RotationAssumption DEF R!RotationConstants
  <2> QED BY <2>1
<1>2. \A p : /\ R!Rank(p)[1] = r1(p) /\ R!Rank(p)[2] = r2(p)
             /\ R!Rank(p)[3] = r3(p) /\ R!Rank(p)[4] = r4(p)
  BY DEF R!Rank
<1> HIDE DEF r1, r2, r3, r4
<1>3. \A p, q \in TableRows : R!Before(R!Rank(p), R!Rank(q)) <=>
           \/ r1(p) < r1(q)
           \/ r1(p) = r1(q) /\ r2(p) < r2(q)
           \/ r1(p) = r1(q) /\ r2(p) = r2(q) /\ r3(p) < r3(q)
           \/ r1(p) = r1(q) /\ r2(p) = r2(q) /\ r3(p) = r3(q) /\ r4(p) < r4(q)
  BY <1>2, BeforeSays
<1>4. ASSUME NEW p \in TableRows PROVE ~R!Before(R!Rank(p), R!Rank(p))
  BY <1>1, <1>3
<1>5. ASSUME NEW p \in TableRows, NEW q \in TableRows, NEW r \in TableRows,
             R!Before(R!Rank(p), R!Rank(q)), R!Before(R!Rank(q), R!Rank(r))
      PROVE  R!Before(R!Rank(p), R!Rank(r))
  <2>1. /\ r1(p) \in Int /\ r2(p) \in Int /\ r3(p) \in Int /\ r4(p) \in Int
        /\ r1(q) \in Int /\ r2(q) \in Int /\ r3(q) \in Int /\ r4(q) \in Int
        /\ r1(r) \in Int /\ r2(r) \in Int /\ r3(r) \in Int /\ r4(r) \in Int
    BY <1>1
  <2> QED BY <1>3, <1>5, <2>1
<1> QED BY <1>4, <1>5

\* Of some rows one ranks worst, and it is one of them.
LEMMA WorstIsThere ==
  ASSUME NEW T \in SUBSET TableRows, T # {}
  PROVE  \E r \in T : \A q \in T : ~R!Before(R!Rank(q), R!Rank(r))
<1> DEFINE least(s) == \E r \in s : \A q \in s : ~R!Before(R!Rank(q), R!Rank(r))
           good == {s \in SUBSET TableRows : s # {} => least(s)}
<1>1. ASSUME NEW s \in SUBSET TableRows, \A u \in SUBSET s : u # s => u \in good
      PROVE  s \in good
  <2> SUFFICES ASSUME s # {} PROVE least(s)
    OBVIOUS
  <2>1. PICK x \in s : TRUE
    OBVIOUS
  <2>2. ~R!Before(R!Rank(x), R!Rank(x))
    BY <2>1, RanksAreOrdered
  <2>3. CASE s \ {x} = {}
    <3>1. \A q \in s : q = x
      BY <2>3
    <3> QED BY <2>1, <2>2, <3>1
  <2>4. CASE s \ {x} # {}
    <3>1. least(s \ {x})
      <4>1. s \ {x} \in SUBSET s /\ s \ {x} # s
        BY <2>1
      <4> HIDE DEF least
      <4> QED BY <1>1, <2>4, <4>1
    <3>2. PICK m \in s \ {x} : \A q \in s \ {x} : ~R!Before(R!Rank(q), R!Rank(m))
      BY <3>1
    <3>3. CASE ~R!Before(R!Rank(x), R!Rank(m))
      BY <3>2, <3>3
    <3>4. CASE R!Before(R!Rank(x), R!Rank(m))
      <4>1. \A q \in s : ~R!Before(R!Rank(q), R!Rank(x))
        <5> SUFFICES ASSUME NEW q \in s, R!Before(R!Rank(q), R!Rank(x)) PROVE FALSE
          OBVIOUS
        <5>1. q # x
          BY <2>2
        <5>2. q \in TableRows /\ x \in TableRows /\ m \in TableRows
          BY <2>1
        <5>3. R!Before(R!Rank(q), R!Rank(m))
          BY <3>4, <5>2, RanksAreOrdered
        <5> QED BY <3>2, <5>1, <5>3
      <4> QED BY <2>1, <4>1
    <3> QED BY <3>3, <3>4
  <2> QED BY <2>3, <2>4
<1>2. IsFiniteSet(TableRows)
  BY RotationAssumption DEF R!RotationConstants, R!IsFiniteSet, IsFiniteSet
<1>3. good \in SUBSET (SUBSET TableRows)
  OBVIOUS
<1> HIDE DEF good
<1>4. T \in good
  BY <1>1, <1>2, <1>3, SubsetsBySet
<1> QED BY <1>4 DEF good

LEMMA WorstIsOpen ==
  ASSUME NEW pnl, NEW incoming
  PROVE  R!Worst(R!OpenRows, pnl, incoming) \in R!OpenRows \cup {None}
<1> DEFINE able == R!Eligible(R!OpenRows, pnl, incoming)
<1>1. able \in SUBSET R!OpenRows /\ R!OpenRows \in SUBSET TableRows
  BY DEF R!Eligible, R!OpenRows
<1> HIDE DEF able
<1>2. R!Worst(R!OpenRows, pnl, incoming) =
        IF able = {} THEN None
        ELSE CHOOSE r \in able : \A q \in able : ~R!Before(R!Rank(q), R!Rank(r))
  BY DEF R!Worst, able
<1>3. able # {} => \E r \in able : \A q \in able : ~R!Before(R!Rank(q), R!Rank(r))
  BY <1>1, WorstIsThere
<1> QED BY <1>1, <1>2, <1>3

LEMMA RotationConstantsTyped ==
  /\ MaxShares \in Nat /\ MaxShares > 0 /\ None \notin TableRows /\ None \notin R!Intents
  /\ \A r \in TableRows : Facts[r].symbol \in Symbols
BY RotationAssumption DEF R!RotationConstants, R!Intents

LEMMA RotationStarts == SumInit => RehearsalInv
<1> SUFFICES ASSUME SumInit PROVE RehearsalInv
  OBVIOUS
<1>1. R!Idle \in Rehearsals /\ R!Idle.at = "idle"
  BY DEF R!Idle, Rehearsals
<1>2. /\ open \in [TableRows -> 0 .. MaxShares]
      /\ shares \in [Symbols -> -MaxShares .. MaxShares]
      /\ contracts \in Nat /\ resting \subseteq DOMAIN Pool
  <2>1. CASE R!Init
    <3>1. -1 .. MaxShares \in SUBSET (-MaxShares .. MaxShares)
      BY RotationConstantsTyped
    <3> QED BY <2>1, <3>1 DEF R!Init
  <2>2. CASE /\ open = [r \in TableRows |-> 0] /\ shares = [s \in Symbols |-> 0]
             /\ contracts = 0 /\ resting = {}
    BY <2>2, RotationConstantsTyped
  <2> QED BY <2>1, <2>2 DEF SumInit
<1>3. rehearsal = R!Idle
  BY DEF SumInit, R!Init
<1>4. changed \in BOOLEAN
  BY Zenon DEF SumInit, R!Init
<1>5. RotationTyped
  BY <1>1, <1>2, <1>3, <1>4 DEF RotationTyped
<1>6. Exact
  BY <1>1, <1>3 DEF Exact
<1> QED BY <1>5, <1>6 DEF RehearsalInv

\* While nothing moves, what the reads are compared with stays.
LEMMA StillSays ==
  ASSUME R!Still
  PROVE  /\ R!OpenRows' = R!OpenRows /\ R!Held' = R!Held
         /\ (Agrees' <=> Agrees) /\ (OrdersAreHeld' <=> OrdersAreHeld) /\ (Covered' <=> Covered)
         /\ UNCHANGED <<open, shares, contracts, resting>>
<1>1. UNCHANGED <<open, shares, contracts, resting>>
  BY DEF R!Still
<1>2. R!OpenRows' = R!OpenRows /\ R!Held' = R!Held
  BY <1>1 DEF R!OpenRows, R!Held
<1>3. Agrees' <=> Agrees
  BY <1>1 DEF Agrees, R!Agree
<1>4. OrdersAreHeld' <=> OrdersAreHeld
  BY <1>1, <1>2 DEF OrdersAreHeld, R!OrdersClear
<1>5. ASSUME NEW x PROVE R!Stop(x)' = R!Stop(x)
  BY <1>1 DEF R!Stop
<1>6. Covered' <=> Covered
  BY <1>2, <1>5 DEF Covered
<1> QED BY <1>1, <1>2, <1>3, <1>4, <1>6

\* A step of the rehearsal itself.
LEMMA StepKeeps ==
  ASSUME RotationTyped, R!Still, changed' \in BOOLEAN, rehearsal' \in Rehearsals
  PROVE  RotationTyped'
BY StillSays DEF RotationTyped

LEMMA HeatSays ==
  ASSUME NEW heat, NEW incumbent, NEW challenger,
         R!Review(incumbent, challenger, heat) = "replace"
  PROVE  heat # None
BY DEF R!Review, R!Vetoed

LEMMA ReviewSays ==
  ASSUME NEW heat, NEW incumbent, NEW challenger
  PROVE  R!Review(incumbent, challenger, heat) \in {"replace", "hold", "insufficient_data"}
BY DEF R!Review

LEMMA HeatTakesStops == R!Heat(R!OpenRows) # None => Covered
BY DEF R!Heat, Covered

\* What a step of the rehearsal leaves of its record.
LEMMA RecordIs ==
  ASSUME rehearsal \in Rehearsals
  PROVE  rehearsal = [at |-> rehearsal.at, seen |-> rehearsal.seen,
                      failed |-> rehearsal.failed, held |-> rehearsal.held,
                      worst |-> rehearsal.worst, challenger |-> rehearsal.challenger,
                      advice |-> rehearsal.advice, stillOpen |-> rehearsal.stillOpen,
                      intent |-> rehearsal.intent]
BY DEF Rehearsals

LEMMA RehearsalKept == RehearsalInv /\ [R!Next]_(R!vars) => RehearsalInv'
<1> SUFFICES ASSUME RehearsalInv, [R!Next]_(R!vars) PROVE RehearsalInv'
  OBVIOUS
<1> DEFINE now == rehearsal
           then == rehearsal'
<1>0. RotationTyped /\ rehearsal \in Rehearsals /\ changed \in BOOLEAN
  BY DEF RehearsalInv, RotationTyped
<1>1. CASE R!ReadRows
  <2>1. R!Still /\ changed' = FALSE
    BY <1>1, Zenon DEF R!ReadRows
  <2>2. rehearsal' = [R!Idle EXCEPT !.at = "rows", !.seen = open]
    BY <1>1, Zenon DEF R!ReadRows
  <2>3. rehearsal' = [at |-> "rows", seen |-> open, failed |-> FALSE, held |-> {},
                      worst |-> None, challenger |-> None, advice |-> None,
                      stillOpen |-> FALSE, intent |-> None]
    BY <2>2 DEF R!Idle
  <2>4. rehearsal' \in Rehearsals
    <3>1. open \in [TableRows -> 0 .. MaxShares]
      BY <1>0 DEF RotationTyped
    <3> QED BY <2>3, <3>1 DEF Rehearsals
  <2>5. RotationTyped'
    BY <1>0, <2>1, <2>4, StepKeeps
  <2>6. Exact'
    BY <2>1, <2>3, StillSays DEF Exact
  <2> QED BY <2>5, <2>6 DEF RehearsalInv
<1>2. CASE R!Synchronized
  <2>1. R!Still /\ changed' = changed /\ now.at = "rows"
    BY <1>2, Zenon DEF R!Synchronized, R!At
  <2>2. PICK other \in BOOLEAN :
             rehearsal' = [rehearsal EXCEPT !.at = "positions",
                                            !.failed = other \/ ~R!Agree(rehearsal.seen)]
    BY <1>2, Zenon DEF R!Synchronized
  <2>3. (other \/ ~R!Agree(rehearsal.seen)) \in BOOLEAN
    BY Zenon
  <2> DEFINE failed == other \/ ~R!Agree(rehearsal.seen)
  <2>4. ~failed => R!Agree(rehearsal.seen)
    BY Zenon
  <2>5. failed \in BOOLEAN /\ rehearsal' = [rehearsal EXCEPT !.at = "positions", !.failed = failed]
    BY <2>2, <2>3
  <2> HIDE DEF failed
  <2>6. /\ rehearsal' = [at |-> "positions", seen |-> now.seen, failed |-> failed,
                         held |-> now.held, worst |-> now.worst,
                         challenger |-> now.challenger, advice |-> now.advice,
                         stillOpen |-> now.stillOpen, intent |-> now.intent]
        /\ rehearsal' \in Rehearsals
    BY <1>0, <2>5, RecordIs DEF Rehearsals
  <2>7. RotationTyped'
    BY <1>0, <2>1, <2>6, StepKeeps
  <2>8. ASSUME ~changed PROVE Exact'
    <3>1. now.seen = open
      BY <2>1, <2>8 DEF RehearsalInv, Exact
    <3>2. ~failed => Agrees'
      BY <2>1, <2>4, <3>1, StillSays DEF Agrees
    <3>3. /\ then.at = "positions" /\ then.seen = open' /\ then.failed = failed
      BY <2>1, <2>6, <3>1, StillSays
    <3> QED BY <3>2, <3>3 DEF Exact
  <2> QED BY <2>1, <2>7, <2>8 DEF RehearsalInv
<1>3. CASE R!ReadHeld
  <2>1. R!Still /\ changed' = changed /\ now.at = "positions"
    BY <1>3, Zenon DEF R!ReadHeld, R!At
  <2>2. rehearsal' = [rehearsal EXCEPT !.at = "held", !.held = R!Held]
    BY <1>3, Zenon DEF R!ReadHeld
  <2>3. R!Held \in SUBSET Symbols
    BY DEF R!Held
  <2>6. /\ rehearsal' = [at |-> "held", seen |-> now.seen, failed |-> now.failed,
                         held |-> R!Held, worst |-> now.worst,
                         challenger |-> now.challenger, advice |-> now.advice,
                         stillOpen |-> now.stillOpen, intent |-> now.intent]
        /\ rehearsal' \in Rehearsals
    BY <1>0, <2>2, <2>3, RecordIs DEF Rehearsals
  <2>7. RotationTyped'
    BY <1>0, <2>1, <2>6, StepKeeps
  <2>8. ASSUME ~changed PROVE Exact'
    <3>1. now.seen = open /\ (~now.failed => Agrees)
      BY <2>1, <2>8 DEF RehearsalInv, Exact
    <3>3. /\ then.at = "held" /\ then.seen = open' /\ then.failed = now.failed
          /\ then.held = R!Held' /\ (~now.failed => Agrees')
      BY <2>1, <2>6, <3>1, StillSays
    <3> QED BY <3>3 DEF Exact
  <2> QED BY <2>1, <2>7, <2>8 DEF RehearsalInv
<1>4. CASE R!ReadOrders
  <2>1. R!Still /\ changed' = changed /\ now.at = "held"
    BY <1>4, Zenon DEF R!ReadOrders, R!At
  <2> DEFINE failed == now.failed \/ ~R!OrdersClear(rehearsal.held)
  <2>2. rehearsal' = [rehearsal EXCEPT !.at = "checked", !.failed = failed]
    BY <1>4, Zenon DEF R!ReadOrders
  <2>3. failed \in BOOLEAN
    BY Zenon
  <2>4. ~failed => ~now.failed /\ R!OrdersClear(rehearsal.held)
    BY Zenon
  <2> HIDE DEF failed
  <2>6. /\ rehearsal' = [at |-> "checked", seen |-> now.seen, failed |-> failed,
                         held |-> now.held, worst |-> now.worst,
                         challenger |-> now.challenger, advice |-> now.advice,
                         stillOpen |-> now.stillOpen, intent |-> now.intent]
        /\ rehearsal' \in Rehearsals
    BY <1>0, <2>2, <2>3, RecordIs DEF Rehearsals
  <2>7. RotationTyped'
    BY <1>0, <2>1, <2>6, StepKeeps
  <2>8. ASSUME ~changed PROVE Exact'
    <3>1. now.seen = open /\ (~now.failed => Agrees) /\ now.held = R!Held
      BY <2>1, <2>8 DEF RehearsalInv, Exact
    <3>2. ~failed => Agrees' /\ OrdersAreHeld'
      BY <2>1, <2>4, <3>1, StillSays DEF OrdersAreHeld
    <3>3. /\ then.at = "checked" /\ then.seen = open' /\ then.failed = failed
          /\ then.held = R!Held'
      BY <2>1, <2>6, <3>1, StillSays
    <3> QED BY <3>2, <3>3 DEF Exact
  <2> QED BY <2>1, <2>7, <2>8 DEF RehearsalInv
<1>5. CASE R!Blocked \/ R!Forget
  <2>1. R!Still /\ changed' = changed /\ rehearsal' = R!Idle
    BY <1>5, Zenon DEF R!Blocked, R!Forget, R!At
  <2>2. rehearsal' \in Rehearsals /\ then.at = "idle"
    BY <2>1 DEF Rehearsals, R!Idle
  <2>3. RotationTyped'
    BY <1>0, <2>1, <2>2, StepKeeps
  <2>4. Exact'
    BY <2>2 DEF Exact
  <2> QED BY <2>3, <2>4 DEF RehearsalInv
<1>6. CASE R!Detect
  <2>1. R!Still /\ changed' = changed /\ now.at = "checked"
    BY <1>6, Zenon DEF R!Detect, R!At
  <2>2. PICK report \in R!Reports, c \in Challengers :
             rehearsal' = [rehearsal EXCEPT !.at = "detected",
                             !.worst = R!Worst(R!OpenRows, R!Unrealized(report), c.symbol),
                             !.challenger = c]
    BY <1>6, Zenon DEF R!Detect
  <2> DEFINE worst == R!Worst(R!OpenRows, R!Unrealized(report), c.symbol)
  <2>3. worst \in R!OpenRows \cup {None} /\ R!OpenRows \in SUBSET TableRows
    BY WorstIsOpen DEF R!OpenRows
  <2>4. rehearsal' = [rehearsal EXCEPT !.at = "detected", !.worst = worst, !.challenger = c]
    BY <2>2
  <2> HIDE DEF worst
  <2>6. /\ rehearsal' = [at |-> "detected", seen |-> now.seen, failed |-> now.failed,
                         held |-> now.held, worst |-> worst,
                         challenger |-> c, advice |-> now.advice,
                         stillOpen |-> now.stillOpen, intent |-> now.intent]
        /\ rehearsal' \in Rehearsals
    BY <1>0, <2>2, <2>3, <2>4, RecordIs DEF Rehearsals
  <2>7. RotationTyped'
    BY <1>0, <2>1, <2>6, StepKeeps
  <2>8. ASSUME ~changed PROVE Exact'
    <3>1. /\ now.seen = open /\ (~now.failed => Agrees) /\ now.held = R!Held
          /\ ~now.failed => OrdersAreHeld
      BY <2>1, <2>8 DEF RehearsalInv, Exact
    <3>3. /\ then.at = "detected" /\ then.seen = open' /\ then.failed = now.failed
          /\ then.held = R!Held' /\ (~now.failed => Agrees' /\ OrdersAreHeld')
          /\ (then.worst # None => then.worst \in R!OpenRows')
      BY <2>1, <2>3, <2>6, <3>1, StillSays
    <3> QED BY <3>3 DEF Exact
  <2> QED BY <2>1, <2>7, <2>8 DEF RehearsalInv
<1>7. CASE R!Compare
  <2>1. R!Still /\ changed' = changed /\ now.at = "detected"
    BY <1>7, Zenon DEF R!Compare, R!At
  <2>2. PICK refreshed \in BOOLEAN :
             rehearsal' = [rehearsal EXCEPT !.at = "compared",
                             !.advice = R!Review(R!Scores(rehearsal.worst), rehearsal.challenger,
                                          IF refreshed THEN R!Heat(R!OpenRows) ELSE None)]
    BY <1>7, Zenon DEF R!Compare
  <2> DEFINE heat == IF refreshed THEN R!Heat(R!OpenRows) ELSE None
             advice == R!Review(R!Scores(rehearsal.worst), rehearsal.challenger, heat)
  <2>3. advice \in {"replace", "hold", "insufficient_data"}
    BY ReviewSays
  <2>4. advice = "replace" => Covered
    <3> HIDE DEF heat
    <3>1. advice = "replace" => heat # None
      BY HeatSays
    <3>2. heat # None => Covered
      BY HeatTakesStops DEF heat
    <3> QED BY <3>1, <3>2
  <2>5. rehearsal' = [rehearsal EXCEPT !.at = "compared", !.advice = advice]
    BY <2>2
  <2> HIDE DEF advice
  <2>6. /\ rehearsal' = [at |-> "compared", seen |-> now.seen, failed |-> now.failed,
                         held |-> now.held, worst |-> now.worst,
                         challenger |-> now.challenger, advice |-> advice,
                         stillOpen |-> now.stillOpen, intent |-> now.intent]
        /\ rehearsal' \in Rehearsals
    BY <1>0, <2>3, <2>5, RecordIs DEF Rehearsals
  <2>7. RotationTyped'
    BY <1>0, <2>1, <2>6, StepKeeps
  <2>8. ASSUME ~changed PROVE Exact'
    <3>1. /\ now.seen = open /\ (~now.failed => Agrees) /\ now.held = R!Held
          /\ ~now.failed => OrdersAreHeld
          /\ now.worst # None => now.worst \in R!OpenRows
      BY <2>1, <2>8 DEF RehearsalInv, Exact
    <3>3. /\ then.at = "compared" /\ then.seen = open' /\ then.failed = now.failed
          /\ then.held = R!Held' /\ (~now.failed => Agrees' /\ OrdersAreHeld')
          /\ (then.worst # None => then.worst \in R!OpenRows')
          /\ (then.advice = "replace" => Covered')
      BY <2>1, <2>4, <2>6, <3>1, StillSays
    <3> QED BY <3>3 DEF Exact
  <2> QED BY <2>1, <2>7, <2>8 DEF RehearsalInv
<1>8. CASE R!Validate
  <2>1. R!Still /\ changed' = changed /\ now.at = "compared"
    BY <1>8, Zenon DEF R!Validate, R!At
  <2> DEFINE still == now.worst \in R!OpenRows
  <2>2. rehearsal' = [rehearsal EXCEPT !.at = "validated", !.stillOpen = still]
    BY <1>8, Zenon DEF R!Validate
  <2>3. still \in BOOLEAN
    OBVIOUS
  <2> HIDE DEF still
  <2>6. /\ rehearsal' = [at |-> "validated", seen |-> now.seen, failed |-> now.failed,
                         held |-> now.held, worst |-> now.worst,
                         challenger |-> now.challenger, advice |-> now.advice,
                         stillOpen |-> still, intent |-> now.intent]
        /\ rehearsal' \in Rehearsals
    BY <1>0, <2>2, <2>3, RecordIs DEF Rehearsals
  <2>7. RotationTyped'
    BY <1>0, <2>1, <2>6, StepKeeps
  <2>8. ASSUME ~changed PROVE Exact'
    <3>1. /\ now.seen = open /\ (~now.failed => Agrees) /\ now.held = R!Held
          /\ ~now.failed => OrdersAreHeld
          /\ now.worst # None => now.worst \in R!OpenRows
          /\ now.advice = "replace" => Covered
      BY <2>1, <2>8 DEF RehearsalInv, Exact
    <3>3. /\ then.at = "validated" /\ then.seen = open' /\ then.failed = now.failed
          /\ then.held = R!Held' /\ (~now.failed => Agrees' /\ OrdersAreHeld')
          /\ (then.worst # None => then.worst \in R!OpenRows')
          /\ (then.advice = "replace" => Covered')
          /\ then.stillOpen = (then.worst \in R!OpenRows')
      BY <2>1, <2>6, <3>1, StillSays DEF still
    <3> QED BY <3>3 DEF Exact
  <2> QED BY <2>1, <2>7, <2>8 DEF RehearsalInv
<1>9. CASE R!Intend
  <2>1. R!Still /\ changed' = changed /\ now.at = "validated"
    BY <1>9, Zenon DEF R!Intend, R!At
  <2> DEFINE flat == now.worst = None \/ shares[Facts[now.worst].symbol] = 0
             size == R!Abs(shares[Facts[now.worst].symbol])
             side == IF shares[Facts[now.worst].symbol] > 0 THEN "SELL" ELSE "BUY"
             intent == IF flat THEN None ELSE [side |-> side, quantity |-> size]
  <2>2. rehearsal' = [rehearsal EXCEPT !.at = "done", !.challenger = None, !.intent = intent]
    BY <1>9, Zenon DEF R!Intend
  <2>3. (flat => intent = None) /\ (~flat => intent \in R!Intents)
    <3> SUFFICES ASSUME ~flat PROVE size \in 0 .. MaxShares
      BY DEF R!Intents
    <3>1. now.worst \in TableRows
      BY <1>0 DEF Rehearsals
    <3>2. shares[Facts[now.worst].symbol] \in -MaxShares .. MaxShares
      BY <1>0, <3>1, RotationConstantsTyped DEF RotationTyped
    <3> QED BY <3>2, SizeIs, RotationConstantsTyped
  <2>4. now.worst # None =>
          \/ shares[Facts[now.worst].symbol] = 0
          \/ intent # None /\ intent.quantity = size
    <3>1. CASE flat
      BY <3>1
    <3>2. CASE ~flat
      <4>1. intent = [side |-> side, quantity |-> size]
        BY <3>2
      <4>2. intent.quantity = size
        BY <4>1
      <4>3. intent # None
        BY <2>3, <3>2, RotationConstantsTyped
      <4> QED BY <4>2, <4>3
    <3> QED BY <3>1, <3>2
  <2> HIDE DEF intent
  <2>6. /\ rehearsal' = [at |-> "done", seen |-> now.seen, failed |-> now.failed,
                         held |-> now.held, worst |-> now.worst,
                         challenger |-> None, advice |-> now.advice,
                         stillOpen |-> now.stillOpen, intent |-> intent]
        /\ rehearsal' \in Rehearsals
    BY <1>0, <2>2, <2>3, RecordIs DEF Rehearsals
  <2>7. RotationTyped'
    BY <1>0, <2>1, <2>6, StepKeeps
  <2>8. ASSUME ~changed PROVE Exact'
    <3>1. /\ now.seen = open /\ (~now.failed => Agrees) /\ now.held = R!Held
          /\ ~now.failed => OrdersAreHeld
          /\ now.worst # None => now.worst \in R!OpenRows
          /\ now.advice = "replace" => Covered
          /\ now.stillOpen = (now.worst \in R!OpenRows)
      BY <2>1, <2>8 DEF RehearsalInv, Exact
    <3>3. /\ then.at = "done" /\ then.seen = open' /\ then.failed = now.failed
          /\ then.held = R!Held' /\ (~now.failed => Agrees' /\ OrdersAreHeld')
          /\ (then.worst # None => then.worst \in R!OpenRows')
          /\ (then.advice = "replace" => Covered')
          /\ then.stillOpen = (then.worst \in R!OpenRows')
      BY <2>1, <2>6, <3>1, StillSays
    <3>4. then.worst # None =>
             \/ shares'[Facts[then.worst].symbol] = 0
             \/ then.intent # None /\ then.intent.quantity = R!Abs(shares'[Facts[then.worst].symbol])
      BY <2>1, <2>4, <2>6, StillSays
    <3> QED BY <3>3, <3>4 DEF Exact
  <2> QED BY <2>1, <2>7, <2>8 DEF RehearsalInv
<1>10. CASE R!Moves
  <2>1. changed' = TRUE /\ rehearsal' = rehearsal
    BY <1>10, Zenon DEF R!Moves
  <2>2. /\ open' \in [TableRows -> 0 .. MaxShares]
        /\ shares' \in [Symbols -> -MaxShares .. MaxShares]
        /\ contracts' = contracts /\ resting' \subseteq DOMAIN Pool
    <3>1. \/ \E r \in TableRows, q \in 0 .. MaxShares :
                open' = [open EXCEPT ![r] = q] /\ UNCHANGED <<shares, contracts, resting>>
          \/ \E s \in Symbols, q \in {0, MaxShares} :
                shares' = [shares EXCEPT ![s] = q] /\ UNCHANGED <<open, contracts, resting>>
          \/ \E o \in DOMAIN Pool :
                /\ resting' = (resting \ {o}) \cup ({o} \ resting)
                /\ UNCHANGED <<open, shares, contracts>>
      BY <1>10, Zenon DEF R!Moves
    <3>2. /\ open \in [TableRows -> 0 .. MaxShares]
          /\ shares \in [Symbols -> -MaxShares .. MaxShares]
          /\ resting \subseteq DOMAIN Pool
      BY <1>0 DEF RotationTyped
    <3> QED BY <3>1, <3>2, RotationConstantsTyped
  <2> QED BY <1>0, <2>1, <2>2 DEF RehearsalInv, RotationTyped
<1>11. CASE UNCHANGED R!vars
  <2>1. R!Still /\ UNCHANGED <<rehearsal, changed>>
    BY <1>11 DEF R!vars, R!Still
  <2>2. RotationTyped'
    BY <1>0, <2>1, StepKeeps
  <2>3. ~changed => Exact'
    BY <2>1, StillSays DEF RehearsalInv, Exact
  <2> QED BY <2>1, <2>2, <2>3 DEF RehearsalInv
<1> QED BY <1>1, <1>2, <1>3, <1>4, <1>5, <1>6, <1>7, <1>8, <1>9, <1>10, <1>11 DEF R!Next

LEMMA RehearsalMeans == RehearsalInv => R!TypeOK /\ R!ClearRehearsalIsExact
<1> SUFFICES ASSUME RehearsalInv PROVE R!TypeOK /\ R!ClearRehearsalIsExact
  OBVIOUS
<1>0. RotationTyped /\ rehearsal \in Rehearsals
  BY DEF RehearsalInv, RotationTyped
<1>1. R!TypeOK
  BY <1>0 DEF RotationTyped, Rehearsals, R!Intents, R!TypeOK
<1>2. ASSUME rehearsal.at = "done", ~rehearsal.failed, ~changed
      PROVE  /\ rehearsal.worst # None =>
                  /\ rehearsal.stillOpen /\ rehearsal.intent # None
                  /\ rehearsal.intent.quantity = R!Total(open, Facts[rehearsal.worst].symbol)
             /\ \A o \in resting : shares[Pool[o].symbol] # 0
             /\ rehearsal.advice = "replace" =>
                  \A r \in R!OpenRows : R!Stop(Facts[r].symbol) # None
  <2>1. /\ Agrees /\ OrdersAreHeld
        /\ rehearsal.worst # None => rehearsal.worst \in R!OpenRows
        /\ rehearsal.advice = "replace" => Covered
        /\ rehearsal.stillOpen = (rehearsal.worst \in R!OpenRows)
        /\ rehearsal.worst # None =>
             \/ shares[Facts[rehearsal.worst].symbol] = 0
             \/ /\ rehearsal.intent # None
                /\ rehearsal.intent.quantity = R!Abs(shares[Facts[rehearsal.worst].symbol])
    BY <1>2 DEF RehearsalInv, Exact
  <2>2. ASSUME rehearsal.worst # None
        PROVE  /\ rehearsal.stillOpen /\ rehearsal.intent # None
               /\ rehearsal.intent.quantity = R!Total(open, Facts[rehearsal.worst].symbol)
    <3> DEFINE s == Facts[rehearsal.worst].symbol
    <3>1. rehearsal.worst \in R!OpenRows /\ s \in Symbols
      BY <2>1, <2>2, RotationConstantsTyped DEF R!OpenRows
    <3>2. R!Total(open, s) > 0
      BY <1>0, <3>1, TotalsArePositive
    <3>3. R!Total(open, s) = R!Abs(shares[s])
      BY <2>1, <3>1 DEF Agrees, R!Agree
    <3>4. R!Abs(0) = 0
      BY SizeIs
    <3>5. shares[s] # 0
      BY <3>2, <3>3, <3>4
    <3> QED BY <2>1, <2>2, <3>1, <3>3, <3>5
  <2>3. \A o \in resting : shares[Pool[o].symbol] # 0
    BY <2>1 DEF OrdersAreHeld, R!OrdersClear, R!Held
  <2> QED BY <2>1, <2>2, <2>3 DEF Covered
<1>3. R!ClearRehearsalIsExact
  BY <1>2, Zenon DEF R!ClearRehearsalIsExact
<1> QED BY <1>1, <1>3

-----------------------------------------------------------------------------
(* Backtests.  The results of a bar are booked one after the other: a fold,*)
(* and so the last entry of a table over the sets of their numbers.        *)

BookRule(w, results, g, s) ==
  IF s = {} THEN w ELSE B!Booked(g[s \ {B!Max(s)}], results[B!Max(s)])

Books(w, results, N) == CHOOSE g : g = [s \in SUBSET N |-> BookRule(w, results, g, s)]

LEMMA BookedInTurn ==
  ASSUME NEW w, NEW results
  PROVE  B!FoldLeft(B!Booked, w, results) = Books(w, results, DOMAIN results)[DOMAIN results]
BY DEF B!FoldLeft, B!MapThenFoldSet, Books, BookRule, B!Max

LEMMA LastOfResults ==
  ASSUME NEW n \in Nat, NEW s \in SUBSET (1 .. n), s # {}
  PROVE  B!Max(s) \in s
<1> DEFINE above == {u \in Nat : \A x \in s : x <= u}
           least == CHOOSE u \in above : \A v \in above : u <= v
<1>1. n \in above
  OBVIOUS
<1>2. above \in SUBSET Nat /\ above # {}
  BY <1>1
<1> HIDE DEF above
<1>3. least \in above /\ \A v \in above : least <= v
  BY <1>2, LeastOfSet
<1> HIDE DEF least
<1>4. least \in Nat /\ \A x \in s : x <= least
  BY <1>3 DEF above
<1>5. least \in s
  <2> SUFFICES ASSUME least \notin s PROVE FALSE
    OBVIOUS
  <2>1. PICK x \in s : TRUE
    OBVIOUS
  <2>2. x \in Nat /\ x >= 1 /\ x <= least /\ x # least
    BY <1>4, <2>1
  <2>3. \A y \in s : y \in Nat /\ y <= least /\ y # least
    BY <1>4
  <2>4. least - 1 \in Nat /\ \A y \in s : y <= least - 1
    BY <1>4, <2>2, <2>3
  <2>5. least - 1 \in above
    BY <2>4 DEF above
  <2> QED BY <1>3, <1>4, <2>5
<1>6. \A x \in s : least >= x
  BY <1>4
<1> QED BY <1>5, <1>6 DEF B!Max

LEMMA BooksExist ==
  ASSUME NEW n \in Nat, NEW w, NEW results
  PROVE  \A s \in SUBSET (1 .. n) :
           Books(w, results, 1 .. n)[s] = BookRule(w, results, Books(w, results, 1 .. n), s)
<1> DEFINE N == 1 .. n
           upTo(k) == {s \in SUBSET N : Cardinality(s) <= k}
           Q == {k \in Nat : \E g : g = [s \in upTo(k) |-> BookRule(w, results, g, s)]}
<1>1. \A s \in SUBSET N : /\ IsFiniteSet(s) /\ Cardinality(s) \in Nat
                          /\ (Cardinality(s) = 0) <=> (s = {})
                          /\ Cardinality(s) <= Cardinality(N)
  <2>1. IsFiniteSet(N)
    BY FS_Interval
  <2> HIDE DEF N
  <2> QED BY <2>1, FS_Subset, FS_CardinalityType, FS_EmptySet
<1>2. ASSUME NEW s \in SUBSET N, s # {}
      PROVE  /\ s \ {B!Max(s)} \in SUBSET N
             /\ Cardinality(s \ {B!Max(s)}) = Cardinality(s) - 1
  <2>1. B!Max(s) \in s
    BY <1>2, LastOfResults
  <2>2. IsFiniteSet(s)
    BY <1>1
  <2> QED BY <2>1, <2>2, FS_RemoveElement
<1> HIDE DEF N
<1>3. 0 \in Q
  <2>1. upTo(0) = {{}}
    BY <1>1
  <2> DEFINE h == [s \in {{}} |-> w]
  <2>2. h = [s \in {{}} |-> BookRule(w, results, h, s)]
    BY DEF BookRule
  <2> HIDE DEF h, upTo
  <2>3. h = [s \in upTo(0) |-> BookRule(w, results, h, s)]
    BY <2>1, <2>2
  <2> QED BY <2>3
<1>4. \A k \in Q : k + 1 \in Q
  <2> SUFFICES ASSUME NEW k \in Q PROVE k + 1 \in Q
    OBVIOUS
  <2>1. PICK g : g = [s \in upTo(k) |-> BookRule(w, results, g, s)]
    OBVIOUS
  <2> DEFINE h == [s \in upTo(k + 1) |->
                     IF Cardinality(s) <= k THEN g[s] ELSE BookRule(w, results, g, s)]
  <2>2. k \in Nat
    OBVIOUS
  <2>3. \A s \in upTo(k) : g[s] = BookRule(w, results, g, s)
    <3> HIDE DEF upTo
    <3> QED BY <2>1
  <2>4. \A s \in upTo(k) : s \in upTo(k + 1) /\ h[s] = g[s]
    BY <1>1, <2>2
  <2>5. ASSUME NEW s \in upTo(k + 1), s # {}
        PROVE  s \ {B!Max(s)} \in upTo(k)
    BY <1>1, <1>2, <2>2, <2>5
  <2>6. ASSUME NEW s \in upTo(k + 1)
        PROVE  h[s] = BookRule(w, results, h, s)
    <3>1. h[s] = BookRule(w, results, g, s)
      <4>1. CASE Cardinality(s) <= k
        <5>1. s \in upTo(k)
          BY <4>1
        <5> QED BY <2>3, <2>4, <5>1
      <4>2. CASE ~(Cardinality(s) <= k)
        BY <4>2
      <4> QED BY <4>1, <4>2
    <3>2. CASE s = {}
      BY <3>1, <3>2 DEF BookRule
    <3>3. CASE s # {}
      <4>1. h[s \ {B!Max(s)}] = g[s \ {B!Max(s)}]
        BY <2>4, <2>5, <3>3
      <4> HIDE DEF h, upTo
      <4> QED BY <3>1, <3>3, <4>1 DEF BookRule
    <3> QED BY <3>2, <3>3
  <2>7. h = [s \in upTo(k + 1) |-> h[s]]
    OBVIOUS
  <2> HIDE DEF h, upTo
  <2>8. h = [s \in upTo(k + 1) |-> BookRule(w, results, h, s)]
    BY <2>6, <2>7
  <2> QED BY <2>2, <2>8
<1>5. Cardinality(N) \in Q
  <2>1. Q \in SUBSET Nat /\ Cardinality(N) \in Nat
    BY <1>1
  <2> HIDE DEF Q
  <2> QED BY <1>3, <1>4, <2>1, NatBySet
<1>6. upTo(Cardinality(N)) = SUBSET N
  BY <1>1
<1>7. \E g : g = [s \in SUBSET N |-> BookRule(w, results, g, s)]
  <2> HIDE DEF upTo
  <2> QED BY <1>5, <1>6
<1>8. Books(w, results, N) = [s \in SUBSET N |-> BookRule(w, results, Books(w, results, N), s)]
  BY <1>7 DEF Books
<1>9. \A s \in SUBSET N : Books(w, results, N)[s] = BookRule(w, results, Books(w, results, N), s)
  BY <1>8
<1> QED BY <1>9 DEF N

\* The account in the middle of a walk.
Walks(w) ==
  /\ w = [day |-> w.day, open |-> w.open, value |-> w.value, daily |-> w.daily,
          weekly |-> w.weekly, monthly |-> w.monthly, streak |-> w.streak,
          until |-> w.until, trades |-> w.trades]
  /\ {w.day, w.streak, w.until, w.trades} \subseteq Nat
  /\ w.streak >= Limits.streak => w.until \in w.day + 1 .. w.day + B!Rest

LEMMA TurnedWalks ==
  ASSUME NEW w, Walks(w), NEW today \in Nat, today > w.day
  PROVE  /\ Walks(B!Turned(w, today))
         /\ B!Turned(w, today).day = today /\ B!Turned(w, today).open = w.open
<1> DEFINE rested == w.until # 0 /\ today >= w.until
           weekly == IF today \div DaysPerWeek # w.day \div DaysPerWeek THEN 0 ELSE w.weekly
           monthly == IF today \div DaysPerMonth # w.day \div DaysPerMonth THEN 0 ELSE w.monthly
           v == B!Turned(w, today)
<1>1. v = [day |-> today, open |-> w.open, value |-> w.value, daily |-> 0,
           weekly |-> weekly, monthly |-> monthly, streak |-> IF rested THEN 0 ELSE w.streak,
           until |-> IF rested THEN 0 ELSE w.until, trades |-> 0]
  <2>1. v = [w EXCEPT !.day = today, !.trades = 0, !.daily = 0, !.weekly = weekly,
                      !.monthly = monthly, !.streak = IF rested THEN 0 ELSE w.streak,
                      !.until = IF rested THEN 0 ELSE w.until]
    BY Zenon DEF B!Turned
  <2> HIDE DEF v, weekly, monthly, rested
  <2>2. w = [day |-> w.day, open |-> w.open, value |-> w.value, daily |-> w.daily,
             weekly |-> w.weekly, monthly |-> w.monthly, streak |-> w.streak,
             until |-> w.until, trades |-> w.trades]
    BY DEF Walks
  <2> QED BY <2>1, <2>2
<1> HIDE DEF v, weekly, monthly
<1>2. {w.day, w.streak, w.until} \subseteq Nat /\ Limits.streak \in Nat \ {0}
  BY BacktestAssumption DEF Walks, B!BacktestConstants
<1>3. v.streak >= Limits.streak => v.until \in v.day + 1 .. v.day + B!Rest
  <2> SUFFICES ASSUME ~rested, w.streak >= Limits.streak
               PROVE  w.until \in today + 1 .. today + B!Rest
    BY <1>1, <1>2
  <2> QED BY <1>2 DEF Walks, B!Rest
<1>4. v.day \in Nat /\ v.streak \in Nat /\ v.until \in Nat /\ v.trades \in Nat
  BY <1>1, <1>2
<1>5. v.day = today /\ v.open = w.open
  BY <1>1
<1> QED BY <1>1, <1>3, <1>4, <1>5 DEF Walks, v

LEMMA BookedWalks ==
  ASSUME NEW w, Walks(w), NEW pnl
  PROVE  /\ Walks(B!Booked(w, pnl))
         /\ B!Booked(w, pnl).day = w.day /\ B!Booked(w, pnl).trades = w.trades
<1> DEFINE streak == IF pnl < 0 THEN w.streak + 1 ELSE 0
           until == IF streak >= Limits.streak THEN w.day + B!Rest ELSE 0
           v == B!Booked(w, pnl)
<1>1. v = [day |-> w.day, open |-> w.open, value |-> w.value + pnl, daily |-> w.daily + pnl,
           weekly |-> w.weekly + pnl, monthly |-> w.monthly + pnl, streak |-> streak,
           until |-> until, trades |-> w.trades]
  <2>1. v = [w EXCEPT !.value = @ + pnl, !.daily = @ + pnl, !.weekly = @ + pnl,
                      !.monthly = @ + pnl, !.streak = streak, !.until = until]
    BY Zenon DEF B!Booked
  <2> HIDE DEF v, streak, until
  <2>2. w = [day |-> w.day, open |-> w.open, value |-> w.value, daily |-> w.daily,
             weekly |-> w.weekly, monthly |-> w.monthly, streak |-> w.streak,
             until |-> w.until, trades |-> w.trades]
    BY DEF Walks
  <2> QED BY <2>1, <2>2
<1> HIDE DEF v
<1>2. {w.day, w.streak, w.trades} \subseteq Nat /\ Limits.streak \in Nat \ {0}
  BY BacktestAssumption DEF Walks, B!BacktestConstants
<1>3. streak \in Nat /\ until \in Nat
  BY <1>2 DEF B!Rest
<1>4. v.streak >= Limits.streak => v.until \in v.day + 1 .. v.day + B!Rest
  BY <1>1, <1>2 DEF B!Rest
<1> QED BY <1>1, <1>2, <1>3, <1>4 DEF Walks, v

LEMMA ResultsWalk ==
  ASSUME NEW w, Walks(w), NEW n \in Nat, NEW results, DOMAIN results = 1 .. n
  PROVE  /\ Walks(B!FoldLeft(B!Booked, w, results))
         /\ B!FoldLeft(B!Booked, w, results).day = w.day
<1> DEFINE N == 1 .. n
           t == Books(w, results, N)
           good == {s \in SUBSET N : Walks(t[s]) /\ t[s].day = w.day}
<1>1. \A s \in SUBSET N : t[s] = BookRule(w, results, t, s)
  BY BooksExist
<1> HIDE DEF t
<1>2. ASSUME NEW s \in SUBSET N, \A u \in SUBSET s : u # s => u \in good
      PROVE  s \in good
  <2>1. CASE s = {}
    BY <1>1, <2>1 DEF BookRule
  <2>2. CASE s # {}
    <3> DEFINE i == B!Max(s)
    <3>1. i \in s
      BY <2>2, LastOfResults
    <3> HIDE DEF i
    <3>2. s \ {i} \in good
      BY <1>2, <3>1
    <3>3. t[s] = B!Booked(t[s \ {i}], results[i])
      BY <1>1, <2>2 DEF BookRule, i
    <3>4. Walks(t[s \ {i}]) /\ t[s \ {i}].day = w.day
      BY <3>2
    <3>5. Walks(t[s]) /\ t[s].day = w.day
      BY <3>3, <3>4, BookedWalks
    <3> QED BY <3>5
  <2> QED BY <2>1, <2>2
<1>3. IsFiniteSet(N)
  BY FS_Interval
<1> HIDE DEF N
<1>4. good \in SUBSET (SUBSET N)
  OBVIOUS
<1> HIDE DEF good
<1>5. N \in good
  BY <1>2, <1>3, <1>4, SubsetsBySet
<1>6. B!FoldLeft(B!Booked, w, results) = t[N]
  <2>1. B!FoldLeft(B!Booked, w, results) = Books(w, results, DOMAIN results)[DOMAIN results]
    BY BookedInTurn
  <2>2. DOMAIN results = N
    BY DEF N
  <2> QED BY <2>1, <2>2 DEF t
<1> QED BY <1>5, <1>6 DEF good

LEMMA CountIs == \A x : B!Cardinality(x) = Cardinality(x)
BY DEF B!Cardinality, Cardinality

\* The closes of a bar after which just these positions are open.
ClosedTo(w, kept) ==
  LET gone == B!Cardinality(w.open \ kept)
  IN  {[w |-> [B!FoldLeft(B!Booked, w, results) EXCEPT !.open = kept], gone |-> gone] :
         results \in [1 .. gone -> Pnls]}

LEMMA ClosedIs ==
  \A w : B!Closed(w) = UNION {ClosedTo(w, kept) : kept \in SUBSET {e \in w.open : e > w.day}}
BY DEF B!Closed, ClosedTo

\* What the closes of a bar leave.
LEMMA ClosedWalks ==
  ASSUME NEW w, Walks(w), IsFiniteSet(w.open), NEW c \in B!Closed(w)
  PROVE  /\ Walks(c.w) /\ c.w.day = w.day /\ c.w.open \in SUBSET w.open
         /\ c.gone \in Nat
<1>1. PICK kept \in SUBSET {e \in w.open : e > w.day} : c \in ClosedTo(w, kept)
  BY ClosedIs, Zenon
<1>2. PICK results \in [1 .. Cardinality(w.open \ kept) -> Pnls] :
           c = [w |-> [B!FoldLeft(B!Booked, w, results) EXCEPT !.open = kept],
                gone |-> Cardinality(w.open \ kept)]
  BY <1>1, CountIs, Zenon DEF ClosedTo
<1> DEFINE n == Cardinality(w.open \ kept)
           v == B!FoldLeft(B!Booked, w, results)
<1>3. n \in Nat
  BY FS_Subset, FS_CardinalityType
<1>4. DOMAIN results = 1 .. n
  BY <1>2
<1> HIDE DEF n
<1>5. Walks(v) /\ v.day = w.day
  BY <1>3, <1>4, ResultsWalk
<1>6. c = [w |-> [v EXCEPT !.open = kept], gone |-> n]
  BY <1>2 DEF n
<1> HIDE DEF v
<1>7. v = [day |-> v.day, open |-> v.open, value |-> v.value, daily |-> v.daily,
           weekly |-> v.weekly, monthly |-> v.monthly, streak |-> v.streak,
           until |-> v.until, trades |-> v.trades]
  BY <1>5 DEF Walks
<1>8. c.w = [day |-> v.day, open |-> kept, value |-> v.value, daily |-> v.daily,
             weekly |-> v.weekly, monthly |-> v.monthly, streak |-> v.streak,
             until |-> v.until, trades |-> v.trades] /\ c.gone = n
  BY <1>6, <1>7
<1>9. Walks(c.w)
  BY <1>5, <1>8 DEF Walks
<1> QED BY <1>3, <1>5, <1>8, <1>9

\* How the task, the run in memory and the row go together.
BookInv ==
  /\ B!TypeOK /\ Walks(walk)
  /\ breaks = 0 =>
       \/ task = "none" /\ run = saved /\ run \in {"none", "completed", "failed"}
       \/ task = "queued" /\ run = "queued" /\ saved = "queued"
       \/ task = "walking" /\ run = "running" /\ saved = "queued"

LEMMA FreshWalks == Walks(B!Fresh) /\ B!Fresh.open = {} /\ B!Fresh.day = 0
<1>1. Limits.streak \in Nat \ {0}
  BY BacktestAssumption DEF B!BacktestConstants
<1> QED BY <1>1 DEF B!Fresh, Walks

\* What the types say of the walk.
WalkTyped ==
  /\ walk.day \in 0 .. LastDay /\ walk.open \subseteq 1 .. LastDay + Life
  /\ Cardinality(walk.open) <= (IF kind = "equity" THEN 1 ELSE MaxHeld)
  /\ Walks(walk)

LEMMA WalksAreTyped ==
  ASSUME NEW w, Walks(w)
  PROVE  w.streak \in Nat /\ w.until \in Nat /\ w.trades \in Nat
BY DEF Walks

\* What the types say of the run.
RunTyped ==
  /\ kind \in BacktestKinds /\ task \in {"none", "queued", "walking"}
  /\ run \in B!Statuses /\ saved \in B!Statuses \ {"running"}
  /\ breaks \in 0 .. MaxBreaks

LEMMA TypedIs == B!TypeOK /\ Walks(walk) <=> RunTyped /\ WalkTyped
<1>1. ASSUME Walks(walk) PROVE B!TypeOK <=> RunTyped /\ WalkTyped
  <2>1. {walk.streak, walk.until, walk.trades} \subseteq Nat
    BY <1>1, WalksAreTyped
  <2> QED BY <1>1, <2>1, CountIs, Zenon DEF B!TypeOK, RunTyped, WalkTyped
<1> QED BY <1>1 DEF WalkTyped

LEMMA BooksStart == B!Init => BookInv
<1> SUFFICES ASSUME B!Init PROVE BookInv
  OBVIOUS
<1>1. /\ Walks(walk) /\ walk.open = {} /\ walk.day = 0
      /\ walk.streak = 0 /\ walk.until = 0 /\ walk.trades = 0
  BY FreshWalks DEF B!Init, B!Fresh
<1>2. LastDay \in Nat /\ MaxHeld \in Nat /\ MaxBreaks \in Nat
  BY BacktestAssumption DEF B!BacktestConstants
<1>3. WalkTyped
  BY <1>1, <1>2, FS_EmptySet DEF WalkTyped
<1>4. RunTyped
  BY <1>2 DEF B!Init, B!Statuses, RunTyped
<1> QED BY <1>3, <1>4, TypedIs DEF BookInv, B!Init

LEMMA BarKeeps ==
  ASSUME BookInv, NEW gap \in Gaps, B!Bar(gap)
  PROVE  WalkTyped'
<1>1. /\ Gaps \subseteq Nat \ {0} /\ Life \in Nat \ {0} /\ LastDay \in Nat /\ MaxHeld \in Nat
  BY BacktestAssumption DEF B!BacktestConstants
<1> DEFINE today == walk.day + gap
           v == B!Turned(walk, today)
<1>2. WalkTyped
  BY TypedIs DEF BookInv
<1>3. today \in 1 .. LastDay /\ today > walk.day /\ gap \in Nat
  BY <1>1, <1>2 DEF B!Bar, WalkTyped
<1>4. PICK c \in B!Closed(v) :
           walk' = c.w \/ (B!MayEnter(c.w, c.gone) /\ walk' = B!Entered(c.w))
  BY DEF B!Bar
<1>5. Walks(v) /\ v.day = today /\ v.open = walk.open
  BY <1>2, <1>3, TurnedWalks DEF WalkTyped
<1>6. IsFiniteSet(walk.open) /\ walk.open \subseteq 1 .. LastDay + Life
  <2>1. walk.open \subseteq 1 .. LastDay + Life
    BY <1>2 DEF WalkTyped
  <2>2. IsFiniteSet(1 .. LastDay + Life)
    BY <1>1, FS_Interval
  <2> QED BY <2>1, <2>2, FS_Subset
<1> HIDE DEF v, today
<1>7. /\ Walks(c.w) /\ c.w.day = today /\ c.w.open \in SUBSET walk.open
      /\ IsFiniteSet(c.w.open) /\ Cardinality(c.w.open) \in Nat
      /\ Cardinality(c.w.open) <= Cardinality(walk.open)
      /\ Cardinality(walk.open) \in Nat
  <2>1. Walks(c.w) /\ c.w.day = today /\ c.w.open \in SUBSET walk.open
    BY <1>5, <1>6, ClosedWalks
  <2> QED BY <1>6, <2>1, FS_Subset, FS_CardinalityType
<1>8. kind' = kind
  BY DEF B!Bar
<1>9. CASE walk' = c.w
  <2> DEFINE bound == IF kind = "equity" THEN 1 ELSE MaxHeld
  <2>1. bound \in Nat /\ Cardinality(walk.open) <= bound
    BY <1>1, <1>2 DEF WalkTyped
  <2> HIDE DEF bound
  <2>2. Cardinality(c.w.open) <= bound
    BY <1>7, <2>1
  <2>3. today \in 0 .. LastDay /\ c.w.open \subseteq 1 .. LastDay + Life
    BY <1>1, <1>3, <1>6, <1>7
  <2> QED BY <1>7, <1>8, <1>9, <2>2, <2>3 DEF WalkTyped, bound
<1>10. CASE B!MayEnter(c.w, c.gone) /\ walk' = B!Entered(c.w)
  <2> DEFINE u == c.w
             e == IF kind = "equity" THEN LastDay + Life ELSE u.day + Life
  <2> HIDE DEF u
  <2>1. walk' = [u EXCEPT !.open = @ \cup {e}, !.trades = @ + 1]
    BY <1>10, Zenon DEF B!Entered, u
  <2>2. e \in 1 .. LastDay + Life
    BY <1>1, <1>3, <1>7 DEF u
  <2> HIDE DEF e
  <2>3. u = [day |-> u.day, open |-> u.open, value |-> u.value, daily |-> u.daily,
             weekly |-> u.weekly, monthly |-> u.monthly, streak |-> u.streak,
             until |-> u.until, trades |-> u.trades]
    BY <1>7 DEF Walks, u
  <2>4. walk' = [day |-> u.day, open |-> u.open \cup {e}, value |-> u.value,
                 daily |-> u.daily, weekly |-> u.weekly, monthly |-> u.monthly,
                 streak |-> u.streak, until |-> u.until, trades |-> u.trades + 1]
    BY <2>1, <2>3
  <2>5. Walks(walk')
    BY <1>7, <2>4 DEF Walks, u
  <2>60. /\ B!Guarded(u) /\ Cardinality(u.open) < MaxHeld
         /\ kind = "equity" => u.open = {} /\ c.gone = 0
    BY <1>10, CountIs, Zenon DEF B!MayEnter, u
  <2>6. /\ Cardinality(u.open) < MaxHeld
        /\ kind = "equity" => u.open = {}
    BY <2>60, Zenon
  <2> DEFINE held == u.open
             more == held \cup {e}
  <2> HIDE DEF more
  <2>71. IsFiniteSet(held) /\ Cardinality(held) \in Nat
    BY <1>7 DEF u
  <2> HIDE DEF held
  <2>72. /\ IsFiniteSet(more)
         /\ Cardinality(more) = IF e \in held THEN Cardinality(held) ELSE Cardinality(held) + 1
    BY <2>71, FS_AddElement DEF more
  <2>73. Cardinality(more) \in Nat /\ Cardinality(more) <= Cardinality(held) + 1
    BY <2>71, <2>72
  <2>7. Cardinality(u.open \cup {e}) <= Cardinality(u.open) + 1
    BY <2>73 DEF more, held
  <2>8. Cardinality(u.open \cup {e}) \in Nat
    BY <2>73 DEF more, held
  <2> HIDE DEF more, held
  <2>9. Cardinality(u.open \cup {e}) <= IF kind = "equity" THEN 1 ELSE MaxHeld
    <3>1. CASE kind = "equity"
      <4>1. u.open = {} /\ Cardinality(u.open) = 0
        BY <2>6, <3>1, FS_EmptySet
      <4> QED BY <2>7, <2>8, <3>1, <4>1
    <3>2. CASE kind # "equity"
      <4>1. Cardinality(u.open) \in Nat
        BY <1>7 DEF u
      <4> QED BY <1>1, <2>6, <2>7, <2>8, <3>2, <4>1
    <3> QED BY <3>1, <3>2
  <2>10. u.day \in 0 .. LastDay /\ u.open \cup {e} \subseteq 1 .. LastDay + Life
    BY <1>1, <1>3, <1>6, <1>7, <2>2 DEF u
  <2> QED BY <1>8, <2>4, <2>5, <2>9, <2>10 DEF WalkTyped
<1> QED BY <1>4, <1>9, <1>10

LEMMA BooksKept == BookInv /\ [B!Next]_(B!vars) => BookInv'
<1> SUFFICES ASSUME BookInv, [B!Next]_(B!vars) PROVE BookInv'
  OBVIOUS
<1>1. RunTyped /\ WalkTyped
  BY TypedIs DEF BookInv
<1>2. B!TypeOK' /\ Walks(walk)' <=> RunTyped' /\ WalkTyped'
  BY TypedIs, PTL
<1>3. MaxBreaks \in Nat /\ LastDay \in Nat /\ MaxHeld \in Nat
  BY BacktestAssumption DEF B!BacktestConstants
<1>4. ASSUME walk' = B!Fresh, kind' = kind PROVE WalkTyped'
  <2>1. Walks(walk') /\ walk'.open = {} /\ walk'.day = 0
    BY <1>4, FreshWalks
  <2> QED BY <1>3, <2>1, FS_EmptySet DEF WalkTyped
<1>5. ASSUME walk' = walk, kind' = kind PROVE WalkTyped'
  BY <1>1, <1>5 DEF WalkTyped
<1>6. ASSUME NEW gap \in Gaps, B!Bar(gap) PROVE BookInv'
  <2>1. WalkTyped'
    BY <1>6, BarKeeps
  <2> QED BY <1>1, <1>2, <1>6, <2>1 DEF BookInv, RunTyped, B!Bar
<1>7. CASE B!Request
  BY <1>1, <1>2, <1>3, <1>5, <1>7 DEF BookInv, RunTyped, B!Request, B!Persist, B!Statuses
<1>8. CASE B!Begin
  BY <1>1, <1>2, <1>4, <1>8 DEF BookInv, RunTyped, B!Begin, B!Statuses
<1>9. CASE B!Finish
  BY <1>1, <1>2, <1>3, <1>4, <1>9 DEF BookInv, RunTyped, B!Finish, B!Persist, B!Statuses
<1>10. CASE B!Fail
  BY <1>1, <1>2, <1>3, <1>4, <1>10 DEF BookInv, RunTyped, B!Fail, B!Persist, B!Statuses
<1>11. CASE B!Results
  BY <1>1, <1>2, <1>5, <1>11 DEF BookInv, RunTyped, B!Results, B!Statuses
<1>12. CASE B!Restart
  BY <1>1, <1>2, <1>3, <1>4, <1>12 DEF BookInv, RunTyped, B!Restart, B!Statuses
<1>13. CASE UNCHANGED B!vars
  BY <1>1, <1>2, <1>5, <1>13 DEF BookInv, RunTyped, B!vars
<1> QED BY <1>6, <1>7, <1>8, <1>9, <1>10, <1>11, <1>12, <1>13 DEF B!Next

LEMMA BooksMean == BookInv => B!PauseEnds /\ B!StaleRowTakesABreak
<1> SUFFICES ASSUME BookInv PROVE B!PauseEnds /\ B!StaleRowTakesABreak
  OBVIOUS
<1>1. B!PauseEnds
  BY DEF BookInv, Walks, B!PauseEnds
<1>2. B!StaleRowTakesABreak
  <2>1. breaks \in Nat
    BY BacktestAssumption DEF BookInv, B!TypeOK, B!BacktestConstants
  <2> QED BY <2>1 DEF BookInv, B!StaleRowTakesABreak
<1> QED BY <1>1, <1>2

-----------------------------------------------------------------------------
(* The run.                                                                *)

RunInv ==
  /\ IInv /\ CrisisInv /\ SignalInv /\ ScanBounds /\ SpreadInv
  /\ RehearsalInv /\ BookInv

LEMMA RunStarts == SumInit => RunInv
<1> SUFFICES ASSUME SumInit PROVE RunInv
  OBVIOUS
<1>1. Init /\ S!Init /\ C!Init /\ B!Init
  BY DEF SumInit
<1>2. IInv /\ CrisisInv /\ SignalInv /\ ScanBounds /\ SpreadInv
  BY <1>1, InitIInv, CrisisStarts, SignalsStart, BoundsStart, SpreadStarts
<1>3. RehearsalInv /\ BookInv
  BY <1>1, RotationStarts, BooksStart
<1> QED BY <1>2, <1>3 DEF RunInv

\* A step of the run is one of each component or leaves it alone.
LEMMA RunSteps ==
  ASSUME [SumNext]_sumVars
  PROVE  /\ subject' = subject
         /\ [Next]_vars
         /\ [S!Next]_(S!vars)
         /\ [R!Next]_(R!vars)
         /\ [C!Next]_(C!vars)
         /\ [B!Next]_(B!vars)
<1>2. UNCHANGED scanVars => UNCHANGED S!vars
  BY DEF scanVars, S!vars
<1>3. UNCHANGED rotationVars => UNCHANGED R!vars
  BY DEF rotationVars, R!vars
<1>4. UNCHANGED spreadVars => UNCHANGED C!vars
  BY DEF spreadVars, C!vars
<1>5. UNCHANGED backtestVars => UNCHANGED B!vars
  BY DEF backtestVars, B!vars
<1>6. CASE UNCHANGED sumVars
  <2>1. UNCHANGED <<subject, vars, scanVars, rotationVars, spreadVars, backtestVars>>
    BY <1>6 DEF sumVars
  <2> QED BY <1>2, <1>3, <1>4, <1>5, <2>1
<1>7. CASE SumNext
  BY <1>2, <1>3, <1>4, <1>5, <1>7 DEF SumNext
<1> QED BY <1>6, <1>7

LEMMA RunKept == RunInv /\ [SumNext]_sumVars => RunInv'
<1> SUFFICES ASSUME RunInv, [SumNext]_sumVars PROVE RunInv'
  OBVIOUS
<1>1. IInv' /\ CrisisInv' /\ SignalInv' /\ SpreadInv'
  BY RunSteps, IInvStep, CrisisKept, SignalsKept, SpreadKept, ScansAssumption DEF RunInv
<1>2. ScanBounds'
  BY RunSteps, BoundsKept DEF RunInv, CrisisInv
<1>3. RehearsalInv' /\ BookInv'
  BY RunSteps, RehearsalKept, BooksKept DEF RunInv
<1> QED BY <1>1, <1>2, <1>3 DEF RunInv

LEMMA RunHolds == SumSpec => []RunInv
BY RunStarts, RunKept, PTL DEF SumSpec

(***************************************************************************)
(* After a crisis no pass of the scheduler hands anything over until it is *)
(* contradicted often enough or too old.                                   *)
(***************************************************************************)
THEOREM CrisisHeeded == SumSpec => []CrisisIsHeeded
<1>1. RunInv => CrisisIsHeeded
  BY CrisisMeans DEF RunInv, CrisisIsHeeded
<1> QED BY <1>1, RunHolds, PTL

(***************************************************************************)
(* A spread goes out against the newest equity signal of its ticker only   *)
(* where scans overlapped.                                                 *)
(***************************************************************************)
THEOREM ConflictsAreOverlaps == SumSpec => ConflictTakesOverlap
<1>1. RunInv /\ [SumNext]_sumVars => [Contradicted]_(S!vars)
  BY RunSteps, ContradictionsOverlap DEF RunInv
<1> QED BY <1>1, RunHolds, PTL
        DEF SumSpec, ConflictTakesOverlap, S!ConflictTakesOverlap, Contradicted

(***************************************************************************)
(* close_equity_trade, close_options_trade: no close turns a position or a *)
(* leg around on its own.                                                  *)
(***************************************************************************)
THEOREM NoCloseReverses == SumSpec => []NoReversalWithoutARace
<1>1. RunInv => NoReversalWithoutARace
  BY DEF RunInv, IInv, SpreadInv, NoReversalWithoutARace, C!ReversalTakesARace, C!TypeOK
<1> QED BY <1>1, RunHolds, PTL

(***************************************************************************)
(* rotation_dry_run: under a clear preflight the rehearsal says what the   *)
(* rotation would do, unless something changes between its reads; and      *)
(* backtests: the pause after a losing streak ends, and a row that does    *)
(* not say how its run ended takes a failed write or a restart.            *)
(***************************************************************************)
THEOREM RehearsalsAreTrue == SumSpec => []RehearsalsHold
<1>1. RunInv => RehearsalsHold
  BY RehearsalMeans, BooksMean DEF RunInv, RehearsalsHold
<1> QED BY <1>1, RunHolds, PTL

(***************************************************************************)
(* The types of the trade table, the scans, the rehearsal, the close of a  *)
(* spread and the backtest, with the bounds of their ages and counts.      *)
(***************************************************************************)
THEOREM DayIsTyped == SumSpec => []AllTyped
<1>1. RunInv => AllTyped
  <2> SUFFICES ASSUME RunInv PROVE AllTyped
    OBVIOUS
  <2>1. TypeOK /\ C!TypeOK
    BY DEF RunInv, IInv, SpreadInv
  <2>2. S!TypeOK
    BY ScansAreTyped DEF RunInv, CrisisInv
  <2>3. R!TypeOK /\ B!TypeOK
    BY RehearsalMeans DEF RunInv, BookInv
  <2> QED BY <2>1, <2>2, <2>3 DEF AllTyped
<1> QED BY <1>1, RunHolds, PTL
=============================================================================
