----------------------------- MODULE RiskCaches -----------------------------
(***************************************************************************)
(* The two caches that the risk gates read and the background loop fills:  *)
(* the sector of each ticker, and the tickers that stand in a correlated   *)
(* cluster with too much of the capital at risk.  Both are in memory, are  *)
(* filled by fetches that fail, age, and are empty after a restart; no     *)
(* reader waits for a fetch.  The page that draws the clusters computes    *)
(* them anew.  Risk and capital are in dollars, shares in percent.         *)
(***************************************************************************)
EXTENDS Integers, SequencesExt, FiniteSetsExt

CONSTANTS
  Sorted,          \* the tickers, in their order
  Books,           \* what may be at risk: per ticker, in shares and in options
  Links,           \* which pairs' returns may be correlated enough
  Fetched,         \* what a round of fetches may bring, per ticker
  Capitals,        \* what the account may be worth
  MaxShare,        \* CORRELATION_MAX_CLUSTER_PCT
  ClusterStale, SectorStale,   \* the ages up to which the caches answer
  Watchlist, SectorOf,         \* the watchlist; sectors, "none" for a fund
  Fallback,                    \* the static map, for some tickers
  None

VARIABLES
  risk,      \* what is at risk now
  clusters,  \* the cache of clusters
  basis,     \* history: what it was computed from
  refresh,   \* the refresh of clusters that is under way
  sectors    \* the cache of sectors

vars == <<risk, clusters, basis, refresh, sectors>>

Tickers == ToSet(Sorted)

\* canonical_sector knows the sectors by their names, and none is called Unknown.
CacheConstants ==
  /\ {ClusterStale, SectorStale, MaxShare} \subseteq Nat /\ Capitals \subseteq Nat
  /\ None \notin Nat /\ None \notin {"bars", "other days"}
  /\ Sorted \in Seq(Tickers) /\ Books \subseteq [Tickers -> [equity : Nat, options : Nat]]
  /\ \A t \in Tickers : SectorOf[t] \notin {None, "Unknown"}

NoClusters == [flagged |-> {}, covered |-> {}, age |-> None]
NoRefresh == [at |-> "idle", equity |-> None, series |-> None]

-----------------------------------------------------------------------------
(* The clusters.                                                           *)

\* Series of enough bars, and of enough days in common; two of them at least.
Aligned(series) ==
  LET long == {t \in DOMAIN series : series[t] \in {"bars", "other days"}} IN
    IF Cardinality(long) < 2 \/ Cardinality({series[t] : t \in long}) > 1 THEN {} ELSE long

\* The root of a tree of the forest.
Root(parent, t) ==
  LET climb[u \in DOMAIN parent] == IF parent[u] = u THEN u ELSE climb[parent[u]]
  IN  climb[t]

Union(parent, a, b) == [parent EXCEPT ![Root(parent, a)] = Root(parent, b)]

\* The inner loop: a ticker is joined with those after it that it is linked to.
JoinLater(tickers, links, parent, i) ==
  FoldLeftDomain(LAMBDA p, j :
                   IF i < j /\ {Sorted[i], Sorted[j]} \in links /\ {Sorted[i], Sorted[j]} \subseteq tickers
                   THEN Union(p, Sorted[i], Sorted[j]) ELSE p,
                 parent, Sorted)

Forest(tickers, links) ==
  FoldLeftDomain(LAMBDA p, i : JoinLater(tickers, links, p, i), [t \in tickers |-> t], Sorted)

\* Union-find over the pairs whose signed correlation is high, and its groups.
Groups(tickers, links) ==
  LET forest == Forest(tickers, links)
  IN  {g \in {{u \in tickers : Root(forest, u) = Root(forest, t)} : t \in tickers} :
         Cardinality(g) >= 2}

AtRisk(book, group) == SumFunctionOnSet(book, group)

Flagged(groups, book, capital) ==
  UNION {g \in groups : capital > 0 /\ AtRisk(book, g) * 100 > MaxShare * capital}

\* The shares alone, and with the options: the refresh leaves options out, the page
\* counts every open row.
Equity == [t \in {u \in Tickers : risk[u].equity > 0} |-> risk[t].equity]
Everything ==
  [t \in {u \in Tickers : risk[u].equity + risk[u].options > 0} |->
     risk[t].equity + risk[t].options]

PageFlags(series, links, capital) ==
  IF Cardinality(DOMAIN Everything) < 2 THEN {}
  ELSE Flagged(Groups(Aligned([t \in DOMAIN Everything |-> series[t]]), links),
               Everything, capital)

-----------------------------------------------------------------------------
(* The cache of clusters.                                                  *)

Init ==
  /\ risk \in Books
  /\ clusters = NoClusters /\ basis = None /\ refresh = NoRefresh
  /\ sectors = [of |-> [t \in Tickers |-> None], age |-> None]

\* Reading the open rows fails, or finds too few: the cache is left to age.
ReadRows ==
  /\ refresh.at = "idle"
  /\ Cardinality(DOMAIN Equity) >= 2
  /\ refresh' = [NoRefresh EXCEPT !.at = "rows", !.equity = Equity]
  /\ UNCHANGED <<risk, clusters, basis, sectors>>

\* Every ticker is fetched, those that fail are left out; without two series on common
\* days the cache is left to age.
FetchBars ==
  /\ refresh.at = "rows"
  /\ \E f \in Fetched :
       LET series == [t \in DOMAIN refresh.equity |-> f[t]] IN
         refresh' = IF Aligned(series) = {} THEN NoRefresh
                    ELSE [refresh EXCEPT !.at = "bars", !.series = series]
  /\ UNCHANGED <<risk, clusters, basis, sectors>>

\* The account's value is read and the clusters stored, for all tickers that were asked.
Store ==
  /\ refresh.at = "bars"
  /\ \E links \in Links, capital \in Capitals :
       /\ clusters' = [flagged |-> Flagged(Groups(Aligned(refresh.series), links),
                                           refresh.equity, capital),
                       covered |-> DOMAIN refresh.equity, age |-> 0]
       /\ basis' = [equity |-> refresh.equity, series |-> refresh.series,
                    links |-> links, capital |-> capital]
  /\ refresh' = NoRefresh
  /\ UNCHANGED <<risk, sectors>>

\* The loop's guard cuts a refresh off.
CutOff ==
  /\ refresh.at # "idle" /\ refresh' = NoRefresh
  /\ UNCHANGED <<risk, clusters, basis, sectors>>

\* in_flagged_cluster: None is no signal, not an all-clear.
InFlaggedCluster(t) ==
  IF clusters.age = None \/ clusters.age > ClusterStale \/ t \notin clusters.covered
  THEN None ELSE t \in clusters.flagged

-----------------------------------------------------------------------------
(* The cache of sectors.                                                   *)

\* The watchlist and, when the table can be read, what is open; a ticker that fails
\* keeps what it had, and the cache is stamped whatever came of it.
RefreshSectors ==
  /\ \E readable \in BOOLEAN :
     \E found \in SUBSET (Watchlist \cup IF readable THEN DOMAIN Everything ELSE {}) :
       sectors' = [of |-> [t \in Tickers |->
                             IF t \in found /\ SectorOf[t] # "none" THEN SectorOf[t]
                             ELSE sectors.of[t]],
                   age |-> 0]
  /\ UNCHANGED <<risk, clusters, basis, refresh>>

SectorFor(t) ==
  IF sectors.age # None /\ sectors.age <= SectorStale /\ sectors.of[t] # None THEN sectors.of[t]
  ELSE IF t \in DOMAIN Fallback THEN Fallback[t] ELSE "Unknown"

-----------------------------------------------------------------------------

Older(age, stale) == IF age = None THEN None ELSE Min({age + 1, stale + 1})

TimePasses ==
  /\ clusters' = [clusters EXCEPT !.age = Older(@, ClusterStale)]
  /\ sectors' = [sectors EXCEPT !.age = Older(@, SectorStale)]
  /\ UNCHANGED <<risk, basis, refresh>>

\* Positions are opened and closed.
Trades ==
  /\ risk' \in Books \ {risk}
  /\ UNCHANGED <<clusters, basis, refresh, sectors>>

Restart ==
  /\ clusters' = NoClusters /\ basis' = None /\ refresh' = NoRefresh
  /\ sectors' = [of |-> [t \in Tickers |-> None], age |-> None]
  /\ UNCHANGED risk

Next ==
  \/ ReadRows \/ FetchBars \/ Store \/ CutOff
  \/ RefreshSectors \/ TimePasses \/ Trades \/ Restart

Spec == Init /\ [][Next]_vars

-----------------------------------------------------------------------------

TypeOK ==
  /\ risk \in Books
  /\ clusters.flagged \subseteq clusters.covered /\ clusters.covered \subseteq Tickers
  /\ refresh.at \in {"idle", "rows", "bars"}
  /\ \A t \in Tickers : sectors.of[t] \in {None, SectorOf[t]}

\* The groups by their definition: each with all that it is linked to, through others too.
Together(tickers, links) ==
  LET closed    == {c \in SUBSET tickers :
                      \A t \in c, u \in tickers : {t, u} \in links => u \in c}
      around(t) == {u \in tickers : \A c \in closed : t \in c => u \in c}
  IN  {g \in {around(t) : t \in tickers} : Cardinality(g) >= 2}

\* An answer of yes or no is that of the definition, on what was read for it, except
\* that a ticker without a series of its own is answered no like one that stands alone.
AnswersAreOfTheBasis ==
  \A t \in Tickers :
    InFlaggedCluster(t) # None =>
      LET tickers == {u \in DOMAIN basis.equity : basis.series[u] # None}
          hit == t \in Flagged(Together(tickers, basis.links), basis.equity, basis.capital)
      IN  /\ InFlaggedCluster(t) => hit
          /\ hit /\ ~InFlaggedCluster(t) =>
               \E u \in tickers : basis.series[u] # "bars" /\ basis.series[u] # "other days"

\* On the same rows, series and capital the page flags whatever a refresh would,
\* unless the options bring in a ticker without days in common.
PageSeesNoLess ==
  refresh.at = "bars" /\ refresh.equity = Equity =>
    \A f \in Fetched, links \in Links, capital \in Capitals :
      /\ \A t \in DOMAIN Equity : f[t] = refresh.series[t]
      /\ Aligned([t \in DOMAIN Everything |-> f[t]]) # {}
      => Flagged(Groups(Aligned(refresh.series), links), Equity, capital)
           \subseteq PageFlags(f, links, capital)

\* A sector that is known is lost only by a restart or when no refresh came for a week.
SectorSticks ==
  [][\A t \in Tickers :
       SectorFor(t) # "Unknown" /\ SectorFor(t)' = "Unknown" =>
         sectors'.age = None \/ sectors'.age > SectorStale]_vars

CachesHold == AnswersAreOfTheBasis /\ PageSeesNoLess
=============================================================================
