-------------------------- MODULE GuardrailMonitor --------------------------
(***************************************************************************)
(* The status route of the guardrails.  The dashboard and the container's  *)
(* health check poll it, so polls overlap.  Each one reads the table and   *)
(* the broker, brings the all-time peak up to date (a row of its own and a *)
(* cached copy of it), decides with check_all, and writes an event when    *)
(* the decision is not the one cached from the last poll.  A restart loses *)
(* both cached copies.                                                     *)
(***************************************************************************)
EXTENDS Guardrails

CONSTANTS
  Polls,       \* requests of the status route
  Capital,     \* the configured starting capital
  Worths,      \* values the broker may report
  Figures,     \* what the table may say: profits, streak and trades
  MaxChanges,  \* bound on changes of the account
  MaxFaults,   \* bound on failed reads and writes, and on restarts
  None

\* What the modules that use this one have to assume.
MonitorConstants ==
  /\ Worths \subseteq Nat /\ Capital \in Nat
  /\ MaxChanges \in Nat /\ MaxFaults \in Nat
  /\ None \notin Nat \cup Rules

VARIABLES
  account,    \* what the table and the broker would say now
  poll,       \* each poll: where it is and what it has read
  peak,       \* the persisted peak, None before the first poll
  peakCache,  \* _peak_value_cache
  log,        \* the newest guardrail event, None if there is none
  signature,  \* _last_guardrail_signature
  changes, faults,
  (* history *)
  overlapped, \* two polls have been under way at once
  repeated    \* an event was logged that equals the one before it

memory == <<peakCache, signature>>
vars == <<account, poll, peak, log, memory, changes, faults, overlapped, repeated>>

Idle   == [at |-> "idle", book |-> None, worth |-> None, row |-> None, decided |-> None]
\* A table that cannot be read counts as one without losses or trades.
Zeros  == [daily |-> 0, weekly |-> 0, monthly |-> 0, streak |-> 0, trades |-> 0]

\* The decision as the route compares it: the mode and the first flag.
Signatures == Modes \X Rules

TypeOK ==
  /\ account \in [book : Figures, worth : Worths]
  /\ poll \in [Polls -> [at : {"idle", "peak", "seed", "insert", "raise", "compare", "log"},
                         book : Figures \cup {Zeros, None},
                         worth : Worths \cup {Capital, None},
                         row : Worths \cup {Capital, None},
                         decided : Signatures \cup {None}]]
  /\ {peak, peakCache} \subseteq Worths \cup {Capital, None}
  /\ log \in Rules \cup {None}
  /\ signature \in Signatures \cup {None}
  /\ changes \in 0 .. MaxChanges /\ faults \in 0 .. MaxFaults
  /\ {overlapped, repeated} \subseteq BOOLEAN

Init ==
  /\ account \in [book : Figures, worth : Worths]
  /\ poll = [p \in Polls |-> Idle]
  /\ peak = None /\ peakCache = None /\ log = None /\ signature = None
  /\ changes = 0 /\ faults = 0 /\ overlapped = FALSE /\ repeated = FALSE

Higher(a, b) == IF a >= b THEN a ELSE b
Fault == faults < MaxFaults /\ faults' = faults + 1
Goes(p, at) == poll' = [poll EXCEPT ![p].at = at]

Portfolio(book, worth, high) ==
  [value |-> worth, start |-> Capital, daily |-> book.daily,
   weekly |-> book.weekly, monthly |-> book.monthly, peak |-> high,
   cooling |-> FALSE, streak |-> book.streak, trades |-> book.trades]

\* The poll has its peak and decides.
Decides(p, high) ==
  LET status == CheckAll(Portfolio(poll[p].book, poll[p].worth, high))
  IN  poll' = [poll EXCEPT ![p] = [Idle EXCEPT !.at = "compare",
                                     !.decided = <<status.mode, status.rule>>]]

-----------------------------------------------------------------------------

\* Positions close, prices move.
AccountChanges ==
  /\ changes < MaxChanges /\ changes' = changes + 1
  /\ account' \in [book : Figures, worth : Worths] \ {account}
  /\ UNCHANGED <<poll, peak, log, memory, faults, overlapped, repeated>>

\* A poll reads the table and the broker.  Neither failure shows: the table
\* then says nothing has been lost, the account that it has its capital.
Read(p) ==
  /\ poll[p] = Idle
  /\ \E book \in {account.book, Zeros}, worth \in {account.worth, Capital} :
       /\ poll' = [poll EXCEPT ![p] = [Idle EXCEPT !.at = "peak", !.book = book,
                                                  !.worth = worth]]
       /\ \/ book = account.book /\ worth = account.worth /\ UNCHANGED faults
          \/ Fault
  /\ overlapped' = (overlapped \/ \E q \in Polls \ {p} : poll[q] # Idle)
  /\ UNCHANGED <<account, peak, log, memory, changes, repeated>>

\* The peak cannot be read or written: this response uses the cached one, or
\* none, and nothing is cached.
PeakFails(p) ==
  /\ poll[p].at \in {"peak", "seed", "insert", "raise"} /\ Fault
  /\ Decides(p, IF peakCache # None THEN peakCache ELSE Higher(poll[p].worth, Capital))
  /\ UNCHANGED <<account, peak, log, memory, changes, overlapped, repeated>>

\* The first use in this process reads the row ...
ReadPeak(p) ==
  /\ poll[p].at = "peak" /\ peakCache = None
  /\ poll' = [poll EXCEPT ![p].at = IF peak = None THEN "insert" ELSE "seed",
                           ![p].row = peak]
  /\ UNCHANGED <<account, peak, log, memory, changes, faults, overlapped, repeated>>

\* ... and caches it when it has it; the value is compared with the cached one.
ComparePeak(p) ==
  LET known == IF poll[p].at = "seed" THEN poll[p].row ELSE peakCache IN
  /\ poll[p].at = "seed" \/ (poll[p].at = "peak" /\ peakCache # None)
  /\ peakCache' = known
  /\ IF poll[p].worth > known THEN Goes(p, "raise") ELSE Decides(p, known)
  /\ UNCHANGED <<account, peak, log, signature, changes, faults, overlapped, repeated>>

\* mutant of InsertPeak: a first use that finds the row writes it anew.
InsertPeakAnew(p) ==
  LET first == Higher(poll[p].worth, Capital) IN
  /\ poll[p].at \in {"insert", "seed"}
  /\ peak' = first /\ peakCache' = first
  /\ Decides(p, first)
  /\ UNCHANGED <<account, log, signature, changes, faults, overlapped, repeated>>

\* The row is created; another poll may have created it in between, and the
\* error is answered as any other.
InsertPeak(p) ==
  LET first == Higher(poll[p].worth, Capital) IN
  /\ poll[p].at = "insert"
  /\ \/ /\ peak = None
        /\ peak' = first /\ peakCache' = first
        /\ Decides(p, first)
     \/ /\ peak # None
        /\ Decides(p, IF peakCache # None THEN peakCache ELSE first)
        /\ UNCHANGED <<peak, peakCache>>
  /\ UNCHANGED <<account, log, signature, changes, faults, overlapped, repeated>>

\* The new high is written over whatever the row has by now.
RaisePeak(p) ==
  /\ poll[p].at = "raise"
  /\ peak' = poll[p].worth /\ peakCache' = poll[p].worth
  /\ Decides(p, poll[p].worth)
  /\ UNCHANGED <<account, log, signature, changes, faults, overlapped, repeated>>

\* The signature that the newest event stands for.
SignatureOf(event) ==
  LET rule == IF event = None THEN "none" ELSE event IN <<ModeOf(rule), rule>>

\* mutant of Compare: the decision is cached before its event is written.
CompareCachesEarly(p) ==
  LET known == IF signature # None THEN signature ELSE SignatureOf(log) IN
  /\ poll[p].at = "compare"
  /\ signature' = poll[p].decided
  /\ IF poll[p].decided = known THEN poll' = [poll EXCEPT ![p] = Idle]
     ELSE Goes(p, "log")
  /\ UNCHANGED <<account, peak, log, peakCache, changes, faults, overlapped, repeated>>

\* The decision is compared with the cached one, which the first poll of a
\* process takes from the newest event.
Compare(p) ==
  LET known == IF signature # None THEN signature ELSE SignatureOf(log) IN
  /\ poll[p].at = "compare"
  /\ signature' = known
  /\ IF poll[p].decided = known THEN poll' = [poll EXCEPT ![p] = Idle]
     ELSE Goes(p, "log")
  /\ UNCHANGED <<account, peak, log, peakCache, changes, faults, overlapped, repeated>>

\* The event is committed and its signature cached.
Log(p) ==
  /\ poll[p].at = "log"
  /\ log' = poll[p].decided[2] /\ signature' = poll[p].decided
  /\ repeated' = (repeated \/ log = poll[p].decided[2])
  /\ poll' = [poll EXCEPT ![p] = Idle]
  /\ UNCHANGED <<account, peak, peakCache, changes, faults, overlapped>>

\* Comparing or logging fails; the response is sent all the same.
LogFails(p) ==
  /\ poll[p].at \in {"compare", "log"} /\ Fault
  /\ poll' = [poll EXCEPT ![p] = Idle]
  /\ UNCHANGED <<account, peak, log, memory, changes, overlapped, repeated>>

Restart ==
  /\ Fault
  /\ poll' = [p \in Polls |-> Idle]
  /\ peakCache' = None /\ signature' = None
  /\ UNCHANGED <<account, peak, log, changes, overlapped, repeated>>

Next ==
  \/ \E p \in Polls :
       \/ Read(p) \/ ReadPeak(p) \/ ComparePeak(p) \/ InsertPeak(p) \/ RaisePeak(p)
       \/ PeakFails(p) \/ Compare(p) \/ Log(p) \/ LogFails(p)
  \/ AccountChanges \/ Restart

\* A poll goes on, and the next one is sent.
Progress(p) ==
  \/ Read(p) \/ ReadPeak(p) \/ ComparePeak(p) \/ InsertPeak(p) \/ RaisePeak(p)
  \/ Compare(p) \/ Log(p)

\* The dashboard and the health check keep polling, and each poll ends.
Fairness == \A p \in Polls : WF_vars(Progress(p))

FairSpec == Init /\ [][Next]_vars /\ Fairness

-----------------------------------------------------------------------------
(* Properties.                                                             *)

\* The persisted peak is meant to be the highest value the account ever had.
\* It never falls unless two polls have overlapped: both pass the comparison,
\* and the one with the lower value writes last.
PeakLossTakesARace ==
  [][peak # None /\ peak' < peak => overlapped]_peak

\* The history of events is a timeline of transitions: an event never repeats
\* the one before it, over restarts and failed writes, unless polls overlapped.
RepeatTakesARace == repeated => overlapped

\* The newest event names the rule that the account is under.
LogAgrees ==
  /\ peakCache # None
  /\ RuleHit(Portfolio(account.book, account.worth, peakCache)) =
       IF log = None THEN "none" ELSE log

=============================================================================
