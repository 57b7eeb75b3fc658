--------------------------- MODULE SignalOutcomes ---------------------------
(***************************************************************************)
(* The research record of equity signals.  A scheduler task walks daily    *)
(* bars forward from each pending signal until its stop or its target is   *)
(* touched or its time is up, and a second pass completes, for signals     *)
(* that resolved early, how far the price went over the whole time.  Both  *)
(* go ticker by ticker, oldest signal first, within a budget.              *)
(*                                                                         *)
(* A bar is how far the price rose and fell on a day, in whole steps from  *)
(* the entry: at one step the stop or the target is touched.  The newest   *)
(* bar still grows while its day lasts.  All tickers with prices share one *)
(* path.                                                                   *)
(***************************************************************************)
EXTENDS Integers, Sequences, FiniteSets, SequencesExt

CONSTANTS
  Live, Dead,     \* tickers with and without price history
  Rows,           \* rows of the table
  Tables,         \* what the table may hold at start-up
  Signals,        \* what a scan may hand to record_signal
  Hold,           \* max_hold_days
  FlushEvery,     \* rows walked before they are written
  Budget,         \* tickers a pass gets through at least
  Bars,           \* [up, down]: what a day may do
  MaxDay, MaxFaults,
  None

VARIABLES
  today,
  bars,     \* the bars of days 1 .. today
  row,      \* each row, or None
  pass,     \* the pass under way
  faults,
  (* history *)
  partial,  \* rows whose label, and whose excursion, rest on a running bar
  kept      \* every signal handed over so far has its row

vars == <<today, bars, row, pass, faults, partial, kept>>

Tickers  == Live \cup Dead
Idle     == [kind |-> "none", todo |-> <<>>, rows |-> {}, covered |-> 0,
             writes |-> {}, walked |-> 0]
Statuses == {"pending", "target_hit", "stop_hit", "expired"}
Table    == {r \in Rows : row[r] # None}

\* What is in the table at start-up is of the day before or of the first morning, and
\* no excursion in it was measured beyond the label.
OutcomeConstants ==
  /\ {Hold, MaxDay, MaxFaults} \subseteq Nat /\ MaxDay >= 1
  /\ \A t \in Tables : \A r \in Rows : t[r] # None =>
       t[r] \in [ticker : Tickers, action : {"BUY", "SELL"}, born : {0, 1},
                status : Statuses, days : Nat \cup {None}, mfe : Nat \cup {None},
                full : Nat \cup {None}, window : {None}]

Greatest(S) == CHOOSE x \in S \cup {0} : \A y \in S : y <= x
Earliest(S) == CHOOSE x \in S : \A y \in S : x <= y

-----------------------------------------------------------------------------
(* _resolve_one, on the bars as they are fetched.                          *)

Favourable(r, bar) == IF r.action = "BUY" THEN bar.up ELSE bar.down
Adverse(r, bar)    == IF r.action = "BUY" THEN bar.down ELSE bar.up

\* The walk starts on the day after the signal's and has a fixed length.
Window(r, hist) == {d \in DOMAIN hist : r.born < d /\ d <= r.born + Hold}

Touches(r, hist) ==
  {d \in Window(r, hist) : Favourable(r, hist[d]) >= 1 \/ Adverse(r, hist[d]) >= 1}

\* A bar that touches both is taken for the stop's.
Resolve(r, hist) ==
  LET touched == Touches(r, hist)
      last    == IF touched # {} THEN Earliest(touched) ELSE r.born + Hold
      upTo(n) == Greatest({Favourable(r, hist[d]) : d \in {x \in Window(r, hist) : x <= n}})
  IN  IF touched = {} /\ Cardinality(Window(r, hist)) < Hold THEN None
      ELSE [status |-> IF touched = {} THEN "expired"
                       ELSE IF Adverse(r, hist[last]) >= 1 THEN "stop_hit"
                       ELSE "target_hit",
            days   |-> last - r.born,
            mfe    |-> upTo(last),
            full   |-> upTo(r.born + Hold),
            window |-> Cardinality(Window(r, hist))]

-----------------------------------------------------------------------------

\* Rows from before: pending ones, and ones that resolved when the excursion
\* was not measured beyond the label (their labels are taken as they are).
Init ==
  /\ today = 1 /\ bars \in [1 .. 1 -> Bars]
  /\ row \in Tables
  /\ pass = Idle /\ faults = 0 /\ kept = TRUE
  /\ partial = [label |-> {r \in Table : row[r].status # "pending"}, window |-> {}]

Fault == faults < MaxFaults /\ faults' = faults + 1

\* The price moves further, today.
Moves ==
  /\ \E bar \in Bars \ {bars[today]} :
       /\ bar.up >= bars[today].up /\ bar.down >= bars[today].down
       /\ bars' = [bars EXCEPT ![today] = bar]
  /\ UNCHANGED <<today, row, pass, faults, partial, kept>>

NextDay ==
  /\ today < MaxDay
  /\ today' = today + 1
  /\ \E bar \in Bars : bars' = Append(bars, bar)
  /\ UNCHANGED <<row, pass, faults, partial, kept>>

\* record_signal.  A row of that ticker, action and day is kept as it is.
\* Without one nothing is written either: the look-up has already begun the
\* session's transaction, so begin() raises, and the error is only logged.
RecordSignal(s) ==
  /\ kept' = (kept /\ \E r \in Table :
                row[r].ticker = s.ticker /\ row[r].action = s.action
                /\ row[r].born = today)
  /\ UNCHANGED <<today, bars, row, pass, faults, partial>>

\* record_options_signal looks up and begins in the same way, on a table of its own,
\* which therefore has no row to find.
RecordOptionsSignal ==
  /\ kept' = FALSE
  /\ UNCHANGED <<today, bars, row, pass, faults, partial>>

\* Oldest pending signal first; the ticker's name breaks ties.
Oldest(t, rs) == Earliest({row[r].born : r \in {x \in rs : row[x].ticker = t}})

InOrder(rs) ==
  CHOOSE q \in SetToSeqs({row[r].ticker : r \in rs}) :
    \A i, j \in DOMAIN q : i < j => Oldest(q[i], rs) <= Oldest(q[j], rs)

Starts(kind, rs) ==
  pass' = IF rs = {} THEN Idle
          ELSE [Idle EXCEPT !.kind = kind, !.rows = rs, !.todo = InOrder(rs)]

\* check_pending_outcomes selects the pending rows.
StartCheck ==
  /\ pass.kind = "none"
  /\ LET pending == {r \in Table : row[r].status = "pending"} IN
     pass' = IF pending = {} THEN [Idle EXCEPT !.kind = "checked"]
             ELSE [Idle EXCEPT !.kind = "check", !.rows = pending,
                               !.todo = InOrder(pending)]
  /\ UNCHANGED <<today, bars, row, faults, partial, kept>>

\* enrich_incomplete_excursions follows, on resolved rows whose excursion was
\* never measured, or may still grow.
StartEnrich ==
  /\ pass.kind = "checked"
  /\ Starts("enrich", {r \in Table :
       /\ row[r].status # "pending"
       /\ \/ row[r].window = None
          \/ row[r].window < Hold /\ row[r].born > today - 2 * Hold})
  /\ UNCHANGED <<today, bars, row, faults, partial, kept>>

\* What is written for a row; an excursion only if more bars have come.
Write(r) ==
  LET found == Resolve(row[r], bars) IN
  IF found = None \/ (pass.kind = "enrich" /\ row[r].window # None
                      /\ found.window <= row[r].window)
  THEN {} ELSE {[row |-> r, found |-> found, at |-> today]}

\* The next ticker's bars are fetched and its rows are walked ...
Walk ==
  /\ pass.kind \in {"check", "enrich"} /\ pass.todo # <<>>
  /\ pass.kind = "check" => pass.walked < FlushEvery
  /\ LET t     == Head(pass.todo)
         found == IF t \in Dead THEN {} ELSE {r \in pass.rows : row[r].ticker = t}
     IN  pass' = [pass EXCEPT !.todo = Tail(@), !.covered = @ + 1,
                              !.walked = @ + Cardinality(found),
                              !.writes = @ \cup UNION {Write(r) : r \in found}]
  /\ UNCHANGED <<today, bars, row, faults, partial, kept>>

\* ... or the fetch fails and the ticker is passed over.
WalkFails ==
  /\ pass.kind \in {"check", "enrich"} /\ pass.todo # <<>> /\ Fault
  /\ pass' = [pass EXCEPT !.todo = Tail(@), !.covered = @ + 1]
  /\ UNCHANGED <<today, bars, row, partial, kept>>

\* The budget is used up before the last ticker.
Truncate ==
  /\ pass.kind \in {"check", "enrich"} /\ pass.todo # <<>>
  /\ pass.covered >= Budget
  /\ pass' = [pass EXCEPT !.todo = <<>>]
  /\ UNCHANGED <<today, bars, row, faults, partial, kept>>

\* mutant of Written: the two excursions change places.
WrittenSwapped(r, w) ==
  IF pass.kind = "check"
  THEN [r EXCEPT !.status = w.found.status, !.days = w.found.days,
                 !.mfe = w.found.full, !.full = w.found.mfe, !.window = w.found.window]
  ELSE [r EXCEPT !.full = w.found.full, !.window = w.found.window]

\* The columns each pass writes: a label with all that belongs to it, or the
\* whole excursion alone.
Written(r, w) ==
  IF pass.kind = "check"
  THEN [r EXCEPT !.status = w.found.status, !.days = w.found.days,
                 !.mfe = w.found.mfe, !.full = w.found.full, !.window = w.found.window]
  ELSE [r EXCEPT !.full = w.found.full, !.window = w.found.window]

\* One transaction writes what has come together.
Flush ==
  /\ pass.kind \in {"check", "enrich"}
  /\ pass.todo = <<>> \/ (pass.kind = "check" /\ pass.walked >= FlushEvery)
  /\ row' = [r \in Rows |->
       IF \E w \in pass.writes : w.row = r
       THEN Written(row[r], CHOOSE w \in pass.writes : w.row = r) ELSE row[r]]
  /\ LET last(w, n) == row[w.row].born + n = w.at
         now == {w.row : w \in pass.writes}
     IN  partial' =
           [label  |-> IF pass.kind = "enrich" THEN partial.label
                       ELSE partial.label \cup
                            {w.row : w \in {x \in pass.writes : last(x, x.found.days)}},
            window |-> (partial.window \ now) \cup
                       {w.row : w \in {x \in pass.writes : last(x, x.found.window)}}]
  /\ pass' = IF pass.todo # <<>> THEN [pass EXCEPT !.writes = {}, !.walked = 0]
             ELSE IF pass.kind = "check" THEN [Idle EXCEPT !.kind = "checked"]
             ELSE Idle
  /\ UNCHANGED <<today, bars, faults, kept>>

\* The scheduler's limit, an error of the write or a restart ends the task.
PassLost ==
  /\ pass.kind # "none" /\ Fault
  /\ pass' = Idle
  /\ UNCHANGED <<today, bars, row, partial, kept>>

Next ==
  \/ Moves \/ NextDay
  \/ \E s \in Signals : RecordSignal(s)
  \/ RecordOptionsSignal
  \/ StartCheck \/ StartEnrich \/ Walk \/ WalkFails \/ Truncate \/ Flush
  \/ PassLost

Progress == StartCheck \/ StartEnrich \/ Walk \/ Flush

Spec == Init /\ [][Next]_vars

\* The scheduler starts the task every six hours and lets it go on.
FairSpec == Spec /\ WF_vars(Progress)

-----------------------------------------------------------------------------
(* Properties.                                                             *)

TypeOK ==
  /\ today \in 1 .. MaxDay /\ bars \in Seq(Bars) /\ Len(bars) = today
  /\ \A r \in Table : row[r].status \in Statuses
  /\ pass.kind \in {"none", "check", "checked", "enrich"}
  /\ faults \in 0 .. MaxFaults /\ kept \in BOOLEAN
  /\ partial \in [label : SUBSET Rows, window : SUBSET Rows]

\* The labels are to be a property of the signals, never of how far a pass
\* happened to get, in how many pieces it was written, or when it ran: what is
\* recorded is what the finished bars say, as far as they have been measured.
\* Only a pass that ran into a day still under way can have recorded anything
\* else.
WrongLabelTakesARunningBar ==
  \A r \in Table :
    LET this == Resolve(row[r], bars) IN
    /\ row[r].window # None /\ row[r].born + row[r].days < today
         /\ r \notin partial.label
       => <<row[r].status, row[r].days, row[r].mfe>> = <<this.status, this.days, this.mfe>>
    /\ row[r].window # None /\ r \notin partial.window =>
         row[r].full = Greatest({Favourable(row[r], bars[d]) :
                          d \in row[r].born + 1 .. row[r].born + row[r].window})

\* Every signal whose time is up has its label.
AllLabelled ==
  \A r \in Table :
    row[r].ticker \in Live /\ row[r].born + Hold <= today => row[r].status # "pending"

\* Every signal that a scan hands over has a row.
EverySignalIsKept == kept
=============================================================================
