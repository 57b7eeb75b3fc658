---------------------------- MODULE DailySnapshot ---------------------------
(***************************************************************************)
(* The record that is frozen once a day, in the hour from ten: the best N  *)
(* buys and sells, each judged by its first scored appearance of the day.  *)
(* The scans record a signal again and again as they score it anew; the    *)
(* loop asks for the record every ten minutes, a pass that is cut off or a *)
(* process that stops leaves nothing written.  A day has three parts:      *)
(* before ten, the hour, and after it.                                     *)
(***************************************************************************)
EXTENDS Integers, SequencesExt, FiniteSetsExt

CONSTANTS
  Ranked,     \* the tickers, in their order
  Actions,    \* "BUY" and "SELL"
  Scores,     \* opportunity scores
  TopN,
  Weekend,    \* days without a session
  MaxDay, MaxRows, None

VARIABLES
  day, hour,  \* the day; 0: before ten, 1: the hour, 2: after it
  table,      \* the recorded signals, in the order the table returns them
  frozen,     \* of each day, the record or None
  capture     \* the capture under way

vars == <<day, hour, table, frozen, capture>>

Tickers == ToSet(Ranked)

SnapshotConstants ==
  /\ {MaxDay, MaxRows, TopN} \subseteq Nat /\ Ranked \in Seq(Tickers)
  /\ Scores \subseteq Int /\ None \notin Int
  /\ None \notin [ticker : Tickers, action : Actions, score : Scores \cup {None},
                  day : 0 .. MaxDay, hour : 0 .. 2]

NoCapture == [at |-> "idle", day |-> None, top |-> None]

\* Earlier in time; equal times are not ordered.
Before(a, b) == a.day < b.day \/ (a.day = b.day /\ a.hour < b.hour)

\* The first scored appearance of a signal on a day: of the earliest rows the one that
\* the table returns first.
Earliest(d, t, a) ==
  LET found == {i \in DOMAIN table : /\ table[i].day = d /\ table[i].score # None
                                     /\ table[i].ticker = t /\ table[i].action = a}
      first == {i \in found : \A j \in found : ~Before(table[j], table[i])}
  IN  IF found = {} THEN None ELSE table[Min(first)]

\* By score, then by name.
Better(r, q) ==
  \/ r.score > q.score
  \/ r.score = q.score /\ SelectInSeq(Ranked, LAMBDA t : t = r.ticker)
                            < SelectInSeq(Ranked, LAMBDA t : t = q.ticker)

\* rank_candidates: the best of each side.
Top(d) ==
  [a \in Actions |->
     LET firsts == {Earliest(d, t, a) : t \in Tickers} \ {None} IN
       {r \in firsts : Cardinality({q \in firsts : Better(q, r)}) < TopN}]

-----------------------------------------------------------------------------

Init ==
  /\ day = 0 /\ hour = 0 /\ table = <<>>
  /\ frozen = [d \in 0 .. MaxDay |-> None] /\ capture = NoCapture

\* A scan records a signal; it may be stored behind or before older ones.
Scan ==
  /\ Len(table) < MaxRows
  /\ \E t \in Tickers, a \in Actions, s \in Scores \cup {None}, i \in 1 .. Len(table) + 1 :
       table' = InsertAt(table, i, [ticker |-> t, action |-> a, score |-> s,
                                    day |-> day, hour |-> hour])
  /\ UNCHANGED <<day, hour, frozen, capture>>

\* In the hour of a day of trading that has no record yet.
Start ==
  /\ capture.at = "idle" /\ hour = 1 /\ day \notin Weekend /\ frozen[day] = None
  /\ capture' = [NoCapture EXCEPT !.at = "checked", !.day = day]
  /\ UNCHANGED <<day, hour, table, frozen>>

\* The rows of the day are read; without one that is scored there is no record.
ReadTable ==
  /\ capture.at = "checked"
  /\ LET top == Top(capture.day) IN
       capture' = IF \A a \in Actions : top[a] = {} THEN NoCapture
                  ELSE [capture EXCEPT !.at = "read", !.top = top]
  /\ UNCHANGED <<day, hour, table, frozen>>

\* All of it is written, in one commit.
Freeze ==
  /\ capture.at = "read"
  /\ frozen' = [frozen EXCEPT ![capture.day] = capture.top]
  /\ capture' = NoCapture
  /\ UNCHANGED <<day, hour, table>>

\* The loop's guard, an error or a restart ends the capture before its commit.
CutOff ==
  /\ capture.at # "idle" /\ capture' = NoCapture
  /\ UNCHANGED <<day, hour, table, frozen>>

\* The guard is shorter than a part of the day: a capture may see the next part, no more.
TimePasses ==
  /\ capture.at = "idle" \/ (capture.day = day /\ hour = 1)
  /\ IF hour < 2 THEN hour' = hour + 1 /\ UNCHANGED day
     ELSE day < MaxDay /\ day' = day + 1 /\ hour' = 0
  /\ UNCHANGED <<table, frozen, capture>>

Next == Scan \/ Start \/ ReadTable \/ Freeze \/ CutOff \/ TimePasses

Spec == Init /\ [][Next]_vars

-----------------------------------------------------------------------------

TypeOK ==
  /\ day \in 0 .. MaxDay /\ hour \in 0 .. 2 /\ Len(table) <= MaxRows
  /\ capture.at \in {"idle", "checked", "read"}
  /\ \A d \in 0 .. MaxDay : frozen[d] # None =>
       \A a \in Actions : Cardinality(frozen[d][a]) <= TopN

Scored(d) == {r \in ToSet(table) : r.day = d /\ r.score # None}

\* A record shows a signal as it was when it could first be acted on: no scored row
\* of it that day is older, none is of another day, and nobody else is left out whose
\* every row up to the hour's end scored better.
Timely(d, record) ==
  \A a \in Actions : \A r \in record[a] :
    /\ r \in Scored(d) /\ r.action = a
    /\ \A q \in Scored(d) : q.ticker = r.ticker /\ q.action = a => ~Before(q, r)
    /\ \A t \in Tickers :
         LET rows == {q \in Scored(d) : q.ticker = t /\ q.action = a} IN
           rows # {} /\ (\A q \in rows : q.hour = 0 /\ q.score > r.score) =>
             \E p \in record[a] : p.ticker = t

\* Every record of a day's best is of that kind, whatever is recorded after it was read.
NoHindsight ==
  \A d \in 0 .. MaxDay : frozen[d] # None => Timely(d, frozen[d])

\* What is frozen stays, and is frozen in its day.
Immutable ==
  [][\A d \in 0 .. MaxDay :
       /\ frozen[d] # None => frozen'[d] = frozen[d]
       /\ frozen'[d] # frozen[d] => d = day /\ hour # 0 /\ d \notin Weekend]_vars
=============================================================================
