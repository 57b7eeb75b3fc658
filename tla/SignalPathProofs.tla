-------------------------- MODULE SignalPathProofs --------------------------
(***************************************************************************)
(* Theorems about the gates and limits on the way of a signal, and about   *)
(* the run that puts them side by side: about EntryLimits, for every set   *)
(* of executions, all limits and every calendar; about GuardrailMonitor,   *)
(* for all polls, account values and figures; about DailySnapshot, for all *)
(* tickers and days; about EntryGates, for all signals and circumstances;  *)
(* about PortfolioLimits and RiskCaches, for all tickers, plans, sectors,  *)
(* links and caps; about SignalOutcomes, for all tables and bars; about    *)
(* Excursions, for all trades and prices.                                  *)
(***************************************************************************)
EXTENDS MCSignalPath, FiniteSetTheorems, Sums, TLAPS

-----------------------------------------------------------------------------
(* EntryLimits.                                                            *)

\* One row more is still a list of rows, and no longer than the bound.
LEMMA OneMoreRow ==
  ASSUME NEW S, NEW rows \in Seq(S), NEW r \in S
  PROVE  <<r>> \o rows \in Seq(S) /\ Len(<<r>> \o rows) = Len(rows) + 1
OBVIOUS

LEMMA TypeStarts == Init => TypeOK
BY EntryAssumption DEF Init, TypeOK

\* Every step keeps the types.
LEMMA TypeKept == TypeOK /\ [Next]_vars => TypeOK'
<1> SUFFICES ASSUME TypeOK, [Next]_vars PROVE TypeOK'
  OBVIOUS
<1> USE DEF TypeOK
<1>1. CASE \E e \in Executions : Check(e)
  BY <1>1 DEF Check
<1>2. CASE \E e \in Executions : Dropped(e)
  BY <1>2 DEF Dropped
<1>3. CASE \E e \in Executions : Record(e)
  BY <1>3, EntryAssumption DEF Record
<1>4. CASE Adopt
  BY <1>4, EntryAssumption DEF Adopt
<1>5. CASE CloseTrade
  <2> DEFINE Row == [pnl : Pnls \cup {Unknown}, day : 0 .. MaxDays]
  <2>1. PICK pnl \in Pnls \cup {Unknown} : closed' = <<[pnl |-> pnl, day |-> day]>> \o closed
    BY <1>5 DEF CloseTrade
  <2>2. [pnl |-> pnl, day |-> day] \in Row
    BY <2>1
  <2>3. closed' \in Seq(Row) /\ Len(closed') = Len(closed) + 1
    <3> HIDE DEF Row
    <3>1. closed \in Seq(Row)
      BY DEF Row
    <3> QED BY <2>1, <2>2, <3>1, OneMoreRow
  <2>4. Len(closed') <= MaxCloses
    BY <2>3, <1>5, EntryAssumption DEF CloseTrade
  <2>5. open' \in 0 .. MaxOpen
    BY <1>5, EntryAssumption DEF CloseTrade
  <2> QED BY <2>3, <2>4, <2>5, <1>5 DEF CloseTrade
<1>6. CASE NextDay
  BY <1>6, EntryAssumption DEF NextDay
<1>7. CASE UNCHANGED vars
  BY <1>7 DEF vars
<1> QED BY <1>1, <1>2, <1>3, <1>4, <1>5, <1>6, <1>7 DEF Next

\* The type invariant holds whatever the executions do.
THEOREM TypeCorrect == Spec => []TypeOK
<1> QED BY TypeStarts, TypeKept, PTL DEF Spec

-----------------------------------------------------------------------------
\* Whoever passes the guardrails found the day's trades below the cap and the
\* losing streak below its limit.
LEMMA CheckMeansBelow ==
  ASSUME TypeOK, NEW e \in Executions, Check(e)
  PROVE  entered + adopted < MaxTrades /\ ~(Streak >= MaxStreak)
<1>1. PICK value \in Values : CheckAll(Snapshot(value)).allowed
  BY DEF Check
<1>2. RuleHit(Snapshot(value)) \in {"none", "capital_preservation_mode"}
  BY <1>1 DEF CheckAll
<1>3. ~(Snapshot(value).streak >= MaxStreak) /\ ~(Snapshot(value).trades >= MaxTrades)
  BY <1>2 DEF RuleHit
<1> QED BY <1>3, GuardrailAssumption DEF Snapshot, TypeOK

\* The executions past the guardrails are finitely many.
LEMMA PassedFinite ==
  /\ IsFiniteSet(Passed) /\ Cardinality(Passed) \in Nat
  /\ Cardinality(Passed) <= Cardinality(Executions) /\ Cardinality(Executions) \in Nat
BY EntryAssumption, FS_Subset, FS_CardinalityType DEF Passed

\* One execution more or less past the guardrails.
LEMMA PassedMore ==
  ASSUME TypeOK, NEW e \in Executions, exec[e] = "idle",
         exec' = [exec EXCEPT ![e] = "checked"]
  PROVE  Cardinality(Passed') \in Nat /\ Cardinality(Passed') <= Cardinality(Executions)
<1>1. Passed' \subseteq Executions
  BY DEF Passed
<1> QED BY <1>1, EntryAssumption, FS_Subset, FS_CardinalityType

LEMMA PassedLess ==
  ASSUME TypeOK, NEW e \in Executions, exec[e] = "checked",
         exec' = [exec EXCEPT ![e] = "idle"]
  PROVE  Passed # {} /\ Cardinality(Passed') = Cardinality(Passed) - 1
<1>1. e \in Passed /\ Passed' = Passed \ {e}
  BY DEF Passed, TypeOK
<1> QED BY <1>1, PassedFinite, FS_RemoveElement

(***************************************************************************)
(* The invariant behind the bound on the cap: without a cap to be below,   *)
(* nobody is past the guardrails.                                          *)
(***************************************************************************)
CapInv ==
  /\ TypeOK
  /\ CapOvershootBounded
  /\ Passed # {} => MaxTrades > 0

\* Executions side by side exceed the day's cap by at most one less than
\* there are.
THEOREM OvershootBounded == Spec => []CapOvershootBounded
<1>1. Init => CapInv
  <2> SUFFICES ASSUME Init PROVE CapInv
    OBVIOUS
  <2>1. TypeOK
    BY EntryAssumption DEF Init, TypeOK
  <2>2. Passed = {}
    BY DEF Init, Passed
  <2>3. Cardinality(Passed) = 0 /\ Cardinality(Executions) > 0
    BY <2>2, EntryAssumption, FS_EmptySet, PassedFinite
  <2> QED BY <2>1, <2>2, <2>3, PassedFinite, GuardrailAssumption
          DEF Init, CapInv, CapOvershootBounded
<1>2. CapInv /\ [Next]_vars => CapInv'
  <2> SUFFICES ASSUME CapInv, TypeOK', [Next]_vars PROVE CapInv'
    BY TypeKept DEF CapInv
  <2> USE DEF CapInv, CapOvershootBounded
  <2>0. /\ entered \in Nat /\ MaxTrades \in Nat
        /\ Cardinality(Passed) \in Nat /\ Cardinality(Executions) \in Nat
    BY PassedFinite, GuardrailAssumption DEF TypeOK
  <2>1. ASSUME NEW e \in Executions, Check(e) PROVE CapInv'
    <3>1. entered < MaxTrades
      BY <2>1, CheckMeansBelow, <2>0 DEF TypeOK
    <3>2. Cardinality(Passed') \in Nat /\ Cardinality(Passed') <= Cardinality(Executions)
      BY <2>1, PassedMore DEF Check
    <3>3. entered' = entered
      BY <2>1 DEF Check
    <3> QED BY <2>0, <3>1, <3>2, <3>3
  <2>2. ASSUME NEW e \in Executions, Dropped(e) \/ Record(e) PROVE CapInv'
    <3>1. Passed # {} /\ Cardinality(Passed') = Cardinality(Passed) - 1
      BY <2>2, PassedLess DEF Dropped, Record
    <3>2. entered' = entered \/ entered' = entered + 1
      BY <2>2 DEF Dropped, Record
    <3> QED BY <2>0, <3>1, <3>2
  <2>3. CASE Adopt \/ CloseTrade \/ UNCHANGED vars
    BY <2>3 DEF Adopt, CloseTrade, vars, Passed
  <2>4. CASE NextDay
    <3>1. Passed' = Passed
      BY <2>4 DEF NextDay, Passed
    <3>2. Passed = {} => Cardinality(Passed) = 0 /\ Cardinality(Executions) > 0
      BY EntryAssumption, PassedFinite, FS_EmptySet
    <3> QED BY <2>4, <3>1, <3>2, <2>0 DEF NextDay
  <2> QED BY <2>1, <2>2, <2>3, <2>4 DEF Next
<1> QED BY <1>1, <1>2, PTL DEF Spec, CapInv

-----------------------------------------------------------------------------
\* Nothing but the adoption of a position ends a halt after a losing streak.
THEOREM HaltHasNoClock == Spec => StreakHaltHasNoClock
<1>1. TypeOK /\ [Next]_vars => (HaltedByStreak /\ open' = 0 => HaltedByStreak')
  <2> SUFFICES ASSUME TypeOK, HaltedByStreak, open' = 0, [Next]_vars PROVE HaltedByStreak'
    OBVIOUS
  <2>1. ASSUME NEW e \in Executions, Check(e) PROVE FALSE
    BY <2>1, CheckMeansBelow DEF HaltedByStreak
  <2>2. ASSUME NEW e \in Executions, Dropped(e) \/ Record(e) PROVE FALSE
    BY <2>2 DEF HaltedByStreak, Passed, Dropped, Record
  <2>3. ~Adopt /\ ~CloseTrade
    BY DEF HaltedByStreak, Adopt, CloseTrade, TypeOK
  <2>4. CASE NextDay \/ UNCHANGED vars
    BY <2>4 DEF HaltedByStreak, NextDay, vars, Passed, Streak, Loss
  <2> QED BY <2>1, <2>2, <2>3, <2>4 DEF Next
<1> QED BY <1>1, TypeCorrect, PTL DEF Spec, StreakHaltHasNoClock

-----------------------------------------------------------------------------
(* GuardrailMonitor.                                                       *)

\* Every decision has the mode that its rule means.
LEMMA DecisionsAreSignatures ==
  ASSUME NEW x
  PROVE  /\ M!CheckAll(x).rule \in M!Rules
         /\ M!CheckAll(x).mode = M!ModeOf(M!CheckAll(x).rule)
<1>1. M!RuleHit(x) \in M!Rules
  BY DEF M!RuleHit, M!Rules
<1> QED BY <1>1 DEF M!CheckAll

\* Every decision, as it is compared, is that of its rule.
LEMMA DecidedFits ==
  ASSUME NEW p \in Polls, NEW high, M!TypeOK, M!MonitorConstants, M!Decides(p, high)
  PROVE  \E d \in M!Signatures :
           /\ d = M!SignatureOf(d[2]) /\ d[2] \in M!Rules
           /\ poll' = [poll EXCEPT ![p] = [M!Idle EXCEPT !.at = "compare", !.decided = d]]
<1> DEFINE status == M!CheckAll(M!Portfolio(poll[p].book, poll[p].worth, high))
           d == <<status.mode, status.rule>>
<1>1. status.rule \in M!Rules /\ status.mode = M!ModeOf(status.rule)
  BY DecisionsAreSignatures
<1>2. M!ModeOf(status.rule) \in M!Modes
  BY DEF M!ModeOf, M!Modes
<1>3. poll' = [poll EXCEPT ![p] = [M!Idle EXCEPT !.at = "compare", !.decided = d]]
  BY DEF M!Decides
<1> HIDE DEF status
<1>4. d \in M!Signatures /\ d[2] = status.rule /\ d[1] = M!ModeOf(status.rule)
  BY <1>1, <1>2 DEF M!Signatures
<1>5. status.rule # None
  BY <1>1 DEF M!MonitorConstants
<1>6. M!SignatureOf(status.rule) = d
  BY <1>1, <1>5 DEF M!SignatureOf
<1> QED BY <1>1, <1>3, <1>4, <1>6

\* The records that M!TypeOK takes polls from.
PollRecords ==
  [at : {"idle", "peak", "seed", "insert", "raise", "compare", "log"},
   book : Figures \cup {M!Zeros, None},
   worth : Worths \cup {Capital, None},
   row : Worths \cup {Capital, None},
   decided : M!Signatures \cup {None}]

\* A poll past its first read has a value to compare.
WorthsFit ==
  \A p \in Polls : poll[p].at \in {"peak", "seed", "insert", "raise"} => poll[p].worth # None

\* A poll under way is the only one, unless polls have overlapped.
AloneUnderWay ==
  ~overlapped =>
    \A p, q \in Polls : poll[p].at # "idle" /\ poll[q].at # "idle" => p = q

\* What a poll that is alone has read of the peak is still true.
PeaksFit ==
  ~overlapped =>
    /\ peakCache \in {None, peak}
    /\ \A p \in Polls :
         /\ poll[p].at = "seed" => peak # None /\ poll[p].row = peak
         /\ poll[p].at = "insert" => peak = None
         /\ poll[p].at = "raise" => peak # None /\ poll[p].worth > peak

\* The cached decision is that of the newest event, and a poll that is alone is
\* about to write another one.
SignaturesFit ==
  /\ signature # None => signature = M!SignatureOf(log)
  /\ \A p \in Polls : poll[p].at \in {"compare", "log"} =>
       /\ poll[p].decided[2] \in M!Rules
       /\ poll[p].decided = M!SignatureOf(poll[p].decided[2])
  /\ ~overlapped =>
       \A p \in Polls : poll[p].at = "log" => poll[p].decided # M!SignatureOf(log)

MonitorInv ==
  /\ M!TypeOK /\ WorthsFit /\ AloneUnderWay /\ PeaksFit /\ SignaturesFit
  /\ M!RepeatTakesARace

LEMMA MonitorStarts == ASSUME M!MonitorConstants, M!Init PROVE MonitorInv
<1>1. M!TypeOK
  <2>1. poll \in [Polls -> PollRecords]
    BY DEF M!Init, M!Idle, PollRecords
  <2>2. {overlapped, repeated} \subseteq BOOLEAN
    BY Zenon DEF M!Init
  <2>3. changes \in 0 .. MaxChanges /\ faults \in 0 .. MaxFaults
    BY DEF M!Init, M!MonitorConstants
  <2> QED BY <2>1, <2>2, <2>3 DEF M!Init, M!TypeOK, PollRecords
<1>2. \A p \in Polls : poll[p].at = "idle"
  BY DEF M!Init, M!Idle
<1>3. peakCache = None /\ signature = None /\ repeated = FALSE
  BY DEF M!Init
<1> QED BY <1>1, <1>2, <1>3
        DEF MonitorInv, WorthsFit, AloneUnderWay, PeaksFit, SignaturesFit, M!RepeatTakesARace

\* A poll that decides keeps the types and the agreements, when the peak and its
\* cached copy agree as they should.
LEMMA DecidesKeeps ==
  ASSUME MonitorInv, M!MonitorConstants, NEW p \in Polls, NEW high,
         M!Decides(p, high), poll[p].at # "idle",
         {peak', peakCache'} \subseteq Worths \cup {Capital, None},
         ~overlapped => peakCache' \in {None, peak'},
         UNCHANGED <<account, log, signature, changes, overlapped, repeated>>,
         faults' \in 0 .. MaxFaults
  PROVE  MonitorInv'
<1> USE DEF MonitorInv
<1>1. PICK d \in M!Signatures :
        /\ d = M!SignatureOf(d[2]) /\ d[2] \in M!Rules
        /\ poll' = [poll EXCEPT ![p] = [M!Idle EXCEPT !.at = "compare", !.decided = d]]
  BY DecidedFits
<1>2. /\ poll'[p].at = "compare" /\ poll'[p].decided = d
      /\ \A q \in Polls \ {p} : poll'[q] = poll[q]
  BY <1>1 DEF M!TypeOK, M!Idle
<1>3. M!TypeOK'
  <2>1. [M!Idle EXCEPT !.at = "compare", !.decided = d] \in PollRecords
    BY DEF M!Idle, PollRecords
  <2>2. poll \in [Polls -> PollRecords]
    BY DEF M!TypeOK, PollRecords
  <2>3. poll' \in [Polls -> PollRecords]
    BY <1>1, <2>1, <2>2
  <2>4. {overlapped', repeated'} \subseteq BOOLEAN
    BY Zenon DEF M!TypeOK
  <2> QED BY <2>3, <2>4 DEF M!TypeOK, PollRecords
<1>4. WorthsFit' /\ AloneUnderWay'
  BY <1>2 DEF WorthsFit, AloneUnderWay
<1>5. ~overlapped => \A q \in Polls \ {p} : poll[q].at = "idle"
  BY DEF AloneUnderWay
<1>6. PeaksFit'
  BY <1>2, <1>5 DEF PeaksFit
<1>7. SignaturesFit'
  BY <1>1, <1>2, <1>5 DEF SignaturesFit, M!SignatureOf, M!ModeOf
<1>8. M!RepeatTakesARace'
  BY DEF M!RepeatTakesARace
<1> QED BY <1>3, <1>4, <1>6, <1>7, <1>8

\* A poll that only moves: how the types follow.
LEMMA MovesKeepTypes ==
  ASSUME M!TypeOK, NEW p \in Polls, NEW new \in PollRecords,
         poll' = [poll EXCEPT ![p] = new]
  PROVE  /\ poll' \in [Polls -> PollRecords] /\ poll'[p] = new
         /\ \A q \in Polls \ {p} : poll'[q] = poll[q]
<1>1. poll \in [Polls -> PollRecords]
  BY DEF M!TypeOK, PollRecords
<1> QED BY <1>1

LEMMA ReadKeeps ==
  ASSUME MonitorInv, M!MonitorConstants, NEW p \in Polls, M!Read(p)
  PROVE  MonitorInv'
<1> USE DEF MonitorInv
<1>1. PICK fig \in {account.book, M!Zeros}, val \in {account.worth, Capital} :
        /\ poll' = [poll EXCEPT ![p] = [M!Idle EXCEPT !.at = "peak", !.book = fig,
                                                    !.worth = val]]
        /\ faults' = faults \/ M!Fault
  BY DEF M!Read
<1> DEFINE new == [M!Idle EXCEPT !.at = "peak", !.book = fig, !.worth = val]
<1>2. fig \in Figures \cup {M!Zeros} /\ val \in Worths \cup {Capital}
  BY DEF M!TypeOK
<1>3. new \in PollRecords /\ new.at = "peak" /\ new.worth = val
  BY <1>2 DEF PollRecords, M!Idle
<1> HIDE DEF new
<1>4. /\ poll' \in [Polls -> PollRecords] /\ poll'[p] = new
      /\ \A q \in Polls \ {p} : poll'[q] = poll[q]
  BY <1>1, <1>3, MovesKeepTypes DEF new
<1>5. M!TypeOK'
  <2>1. faults' \in 0 .. MaxFaults
    BY <1>1 DEF M!Fault, M!TypeOK, M!MonitorConstants
  <2>2. {overlapped', repeated'} \subseteq BOOLEAN
    <3>1. repeated' \in BOOLEAN
      BY Zenon DEF M!Read, M!TypeOK
    <3>2. overlapped' \in BOOLEAN
      BY Zenon DEF M!Read
    <3> QED BY <3>1, <3>2
  <2> QED BY <1>4, <2>1, <2>2 DEF M!TypeOK, M!Read, M!memory, PollRecords
<1>6. WorthsFit'
  BY <1>2, <1>3, <1>4 DEF WorthsFit, M!MonitorConstants
<1>7. ~overlapped' => ~overlapped /\ \A q \in Polls \ {p} : poll[q].at = "idle"
  <2>1. ~overlapped' => ~overlapped /\ \A q \in Polls \ {p} : poll[q] = M!Idle
    BY Zenon DEF M!Read
  <2>2. M!Idle.at = "idle"
    BY DEF M!Idle
  <2> QED BY <2>1, <2>2
<1>8. AloneUnderWay'
  BY <1>4, <1>7 DEF AloneUnderWay
<1>9. PeaksFit'
  BY <1>3, <1>4, <1>7 DEF PeaksFit, M!Read, M!memory
<1>10. SignaturesFit'
  <2>1. log' = log /\ signature' = signature
    BY DEF M!Read, M!memory
  <2> QED BY <2>1, <1>3, <1>4, <1>7 DEF SignaturesFit, M!SignatureOf, M!ModeOf
<1>11. M!RepeatTakesARace'
  BY DEF M!RepeatTakesARace, M!Read
<1> QED BY <1>5, <1>6, <1>8, <1>9, <1>10, <1>11

LEMMA PeakFailsKeeps ==
  ASSUME MonitorInv, M!MonitorConstants, NEW p \in Polls, M!PeakFails(p)
  PROVE  MonitorInv'
<1>1. faults' \in 0 .. MaxFaults
  BY DEF MonitorInv, M!PeakFails, M!Fault, M!TypeOK, M!MonitorConstants
<1>2. PICK high : M!Decides(p, high)
  BY DEF M!PeakFails
<1>3. /\ peakCache' = peakCache /\ peak' = peak
      /\ UNCHANGED <<account, log, signature, changes, overlapped, repeated>>
  BY DEF M!PeakFails, M!memory
<1>4. {peak', peakCache'} \subseteq Worths \cup {Capital, None}
  BY <1>3 DEF MonitorInv, M!TypeOK
<1>5. ~overlapped => peakCache' \in {None, peak'}
  BY <1>3 DEF MonitorInv, PeaksFit
<1>6. poll[p].at # "idle"
  BY DEF M!PeakFails
<1> QED BY <1>1, <1>2, <1>3, <1>4, <1>5, <1>6, DecidesKeeps

LEMMA ReadPeakKeeps ==
  ASSUME MonitorInv, M!MonitorConstants, NEW p \in Polls, M!ReadPeak(p)
  PROVE  MonitorInv'
<1> USE DEF MonitorInv
<1> DEFINE at == IF peak = None THEN "insert" ELSE "seed"
           new == [poll[p] EXCEPT !.at = at, !.row = peak]
<1>1. poll' = [poll EXCEPT ![p] = new]
  <2>1. poll' = [poll EXCEPT ![p].at = at, ![p].row = peak]
    BY DEF M!ReadPeak
  <2> QED BY <2>1 DEF M!TypeOK
<1>2. /\ new \in PollRecords /\ new.at = at /\ new.row = peak
      /\ new.worth = poll[p].worth
  <2>1. poll[p] \in PollRecords /\ peak \in Worths \cup {Capital, None}
    BY DEF M!TypeOK, PollRecords
  <2> QED BY <2>1 DEF PollRecords
<1> HIDE DEF new
<1>3. /\ poll' \in [Polls -> PollRecords] /\ poll'[p] = new
      /\ \A q \in Polls \ {p} : poll'[q] = poll[q]
  BY <1>1, <1>2, MovesKeepTypes
<1>4. /\ poll[p].at = "peak"
      /\ UNCHANGED <<account, peak, peakCache, log, signature, changes, faults,
                     overlapped, repeated>>
  BY DEF M!ReadPeak, M!memory
<1>5. M!TypeOK'
  <2>1. {overlapped', repeated'} \subseteq BOOLEAN
    BY <1>4, Zenon DEF M!TypeOK
  <2> QED BY <1>3, <1>4, <2>1 DEF M!TypeOK, PollRecords
<1>6. WorthsFit' /\ AloneUnderWay'
  BY <1>2, <1>3, <1>4 DEF WorthsFit, AloneUnderWay
<1>7. PeaksFit'
  BY <1>2, <1>3, <1>4 DEF PeaksFit
<1>8. SignaturesFit'
  BY <1>2, <1>3, <1>4 DEF SignaturesFit, M!SignatureOf, M!ModeOf
<1>9. M!RepeatTakesARace'
  BY <1>4 DEF M!RepeatTakesARace
<1> QED BY <1>5, <1>6, <1>7, <1>8, <1>9

\* A poll that goes on to another stage keeps what it has read.
LEMMA GoesOn ==
  ASSUME M!TypeOK, NEW p \in Polls, NEW at \in {"raise", "log"}, M!Goes(p, at)
  PROVE  /\ poll' \in [Polls -> PollRecords] /\ poll'[p].at = at
         /\ poll'[p].worth = poll[p].worth /\ poll'[p].decided = poll[p].decided
         /\ \A q \in Polls \ {p} : poll'[q] = poll[q]
<1>1. poll \in [Polls -> PollRecords]
  BY DEF M!TypeOK, PollRecords
<1>2. [poll[p] EXCEPT !.at = at] \in PollRecords
  BY <1>1 DEF PollRecords
<1>3. poll' = [poll EXCEPT ![p] = [poll[p] EXCEPT !.at = at]]
  BY <1>1 DEF M!Goes
<1>4. poll[p] \in PollRecords
  BY <1>1
<1>5. /\ [poll[p] EXCEPT !.at = at].at = at
      /\ [poll[p] EXCEPT !.at = at].worth = poll[p].worth
      /\ [poll[p] EXCEPT !.at = at].decided = poll[p].decided
  BY <1>4 DEF PollRecords
<1> QED BY <1>1, <1>2, <1>3, <1>5

\* A poll that is over, whatever it has written in the log before.
LEMMA IdleAgain ==
  ASSUME M!TypeOK, NEW p \in Polls, poll' = [poll EXCEPT ![p] = M!Idle]
  PROVE  /\ poll' \in [Polls -> PollRecords] /\ poll'[p].at = "idle"
         /\ \A q \in Polls \ {p} : poll'[q] = poll[q]
<1>1. M!Idle \in PollRecords /\ M!Idle.at = "idle"
  BY DEF M!Idle, PollRecords
<1> QED BY <1>1, MovesKeepTypes

LEMMA ComparePeakKeeps ==
  ASSUME MonitorInv, M!MonitorConstants, NEW p \in Polls, M!ComparePeak(p)
  PROVE  MonitorInv'
<1> USE DEF MonitorInv
<1> DEFINE known == IF poll[p].at = "seed" THEN poll[p].row ELSE peakCache
<1>1. /\ poll[p].at = "seed" \/ (poll[p].at = "peak" /\ peakCache # None)
      /\ peakCache' = known
      /\ UNCHANGED <<account, peak, log, signature, changes, faults, overlapped, repeated>>
      /\ IF poll[p].worth > known THEN M!Goes(p, "raise") ELSE M!Decides(p, known)
  BY DEF M!ComparePeak
<1>2. known \in Worths \cup {Capital, None}
  BY DEF M!TypeOK
<1>3. ~overlapped => known = peak /\ peak # None
  BY <1>1 DEF PeaksFit
<1>4. faults' \in 0 .. MaxFaults
  BY <1>1 DEF M!TypeOK
<1>5. CASE M!Decides(p, known)
  <2>1. {peak', peakCache'} \subseteq Worths \cup {Capital, None}
    BY <1>1, <1>2 DEF M!TypeOK
  <2>2. ~overlapped => peakCache' \in {None, peak'}
    BY <1>1, <1>3
  <2>3. poll[p].at # "idle"
    BY <1>1
  <2> QED BY <1>1, <1>4, <1>5, <2>1, <2>2, <2>3, DecidesKeeps
<1>6. CASE poll[p].worth > known /\ M!Goes(p, "raise")
  <2>1. /\ poll' \in [Polls -> PollRecords] /\ poll'[p].at = "raise"
        /\ poll'[p].worth = poll[p].worth /\ poll'[p].decided = poll[p].decided
        /\ \A q \in Polls \ {p} : poll'[q] = poll[q]
    BY <1>6, GoesOn
  <2>2. M!TypeOK'
    <3>1. {overlapped', repeated'} \subseteq BOOLEAN
      BY <1>1, Zenon DEF M!TypeOK
    <3> QED BY <1>1, <1>2, <2>1, <3>1 DEF M!TypeOK, PollRecords
  <2>3. WorthsFit'
    BY <1>1, <2>1 DEF WorthsFit
  <2>4. AloneUnderWay'
    BY <1>1, <2>1 DEF AloneUnderWay
  <2>5. PeaksFit'
    <3>1. ~overlapped => \A q \in Polls \ {p} : poll[q].at = "idle"
      BY <1>1 DEF AloneUnderWay
    <3> QED BY <1>1, <1>3, <1>6, <2>1, <3>1 DEF PeaksFit
  <2>6. SignaturesFit'
    BY <1>1, <2>1 DEF SignaturesFit, M!SignatureOf, M!ModeOf
  <2>7. M!RepeatTakesARace'
    BY <1>1 DEF M!RepeatTakesARace
  <2> QED BY <2>2, <2>3, <2>4, <2>5, <2>6, <2>7
<1> QED BY <1>1, <1>5, <1>6

LEMMA InsertPeakKeeps ==
  ASSUME MonitorInv, M!MonitorConstants, NEW p \in Polls, M!InsertPeak(p)
  PROVE  MonitorInv'
<1> DEFINE first == M!Higher(poll[p].worth, Capital)
<1>1. /\ poll[p].at = "insert"
      /\ UNCHANGED <<account, log, signature, changes, faults, overlapped, repeated>>
      /\ \/ peak' = first /\ peakCache' = first
         \/ peak # None /\ UNCHANGED <<peak, peakCache>>
  BY DEF M!InsertPeak
<1>2. PICK high : M!Decides(p, high)
  BY DEF M!InsertPeak
<1>3. first \in Worths \cup {Capital, None}
  BY DEF MonitorInv, M!TypeOK, M!Higher
<1>4. {peak', peakCache'} \subseteq Worths \cup {Capital, None}
  BY <1>1, <1>3 DEF MonitorInv, M!TypeOK
<1>5. ~overlapped => peakCache' \in {None, peak'}
  BY <1>1 DEF MonitorInv, PeaksFit
<1>6. faults' \in 0 .. MaxFaults
  BY <1>1 DEF MonitorInv, M!TypeOK
<1> QED BY <1>1, <1>2, <1>4, <1>5, <1>6, DecidesKeeps

LEMMA RaisePeakKeeps ==
  ASSUME MonitorInv, M!MonitorConstants, NEW p \in Polls, M!RaisePeak(p)
  PROVE  MonitorInv'
<1>1. /\ poll[p].at = "raise" /\ peak' = poll[p].worth /\ peakCache' = poll[p].worth
      /\ UNCHANGED <<account, log, signature, changes, faults, overlapped, repeated>>
      /\ M!Decides(p, poll[p].worth)
  BY DEF M!RaisePeak
<1>2. {peak', peakCache'} \subseteq Worths \cup {Capital, None}
  BY <1>1 DEF MonitorInv, M!TypeOK
<1>3. faults' \in 0 .. MaxFaults
  BY <1>1 DEF MonitorInv, M!TypeOK
<1> QED BY <1>1, <1>2, <1>3, DecidesKeeps

LEMMA CompareKeeps ==
  ASSUME MonitorInv, M!MonitorConstants, NEW p \in Polls, M!Compare(p)
  PROVE  MonitorInv'
<1> USE DEF MonitorInv
<1> DEFINE known == IF signature # None THEN signature ELSE M!SignatureOf(log)
<1>1. /\ poll[p].at = "compare" /\ signature' = known
      /\ UNCHANGED <<account, peak, log, peakCache, changes, faults, overlapped, repeated>>
      /\ IF poll[p].decided = known THEN poll' = [poll EXCEPT ![p] = M!Idle]
         ELSE M!Goes(p, "log")
  BY DEF M!Compare
<1>2. known = M!SignatureOf(log)
  BY DEF SignaturesFit
<1>3. M!SignatureOf(log) \in M!Signatures
  <2>1. CASE log = None
    BY <2>1 DEF M!SignatureOf, M!ModeOf, M!Signatures, M!Modes, M!Rules
  <2>2. CASE log # None
    <3>1. log \in M!Rules
      BY <2>2 DEF M!TypeOK
    <3> QED BY <2>2, <3>1 DEF M!SignatureOf, M!ModeOf, M!Signatures, M!Modes
  <2> QED BY <2>1, <2>2
<1>4. ASSUME NEW at,
             poll' \in [Polls -> PollRecords], poll'[p].at = at, at \in {"idle", "log"},
             at = "log" => /\ poll'[p].decided = poll[p].decided
                           /\ poll[p].decided # M!SignatureOf(log),
             \A q \in Polls \ {p} : poll'[q] = poll[q]
      PROVE  MonitorInv'
  <2>1. M!TypeOK'
    <3>1. {overlapped', repeated'} \subseteq BOOLEAN
      BY <1>1, Zenon DEF M!TypeOK
    <3>2. signature' \in M!Signatures
      BY <1>1, <1>2, <1>3
    <3> QED BY <1>1, <1>4, <3>1, <3>2 DEF M!TypeOK, PollRecords
  <2>2. WorthsFit'
    BY <1>4 DEF WorthsFit
  <2>3. AloneUnderWay'
    BY <1>1, <1>4 DEF AloneUnderWay
  <2>4. PeaksFit'
    BY <1>1, <1>4 DEF PeaksFit
  <2>5. SignaturesFit'
    <3>1. M!SignatureOf(log)' = M!SignatureOf(log)
      BY <1>1 DEF M!SignatureOf, M!ModeOf
    <3>2. \A q \in Polls : poll'[q].at \in {"compare", "log"} =>
            /\ poll'[q].decided[2] \in M!Rules
            /\ poll'[q].decided = M!SignatureOf(poll'[q].decided[2])
      BY <1>1, <1>4 DEF SignaturesFit
    <3>3. ~overlapped => \A q \in Polls : poll'[q].at = "log" =>
            poll'[q].decided # M!SignatureOf(log)
      BY <1>1, <1>4 DEF SignaturesFit
    <3> QED BY <1>1, <1>2, <3>1, <3>2, <3>3 DEF SignaturesFit, M!SignatureOf, M!ModeOf
  <2>6. M!RepeatTakesARace'
    BY <1>1 DEF M!RepeatTakesARace
  <2> QED BY <2>1, <2>2, <2>3, <2>4, <2>5, <2>6
<1>5. CASE poll[p].decided = known
  BY <1>1, <1>4, <1>5, IdleAgain
<1>6. CASE poll[p].decided # known
  BY <1>1, <1>2, <1>4, <1>6, GoesOn
<1> QED BY <1>5, <1>6

LEMMA LogKeeps ==
  ASSUME MonitorInv, M!MonitorConstants, NEW p \in Polls, M!Log(p)
  PROVE  MonitorInv'
<1> USE DEF MonitorInv
<1>1. /\ poll[p].at = "log" /\ log' = poll[p].decided[2] /\ signature' = poll[p].decided
      /\ poll' = [poll EXCEPT ![p] = M!Idle]
      /\ UNCHANGED <<account, peak, peakCache, changes, faults, overlapped>>
  BY DEF M!Log
<1>2. /\ poll' \in [Polls -> PollRecords] /\ poll'[p].at = "idle"
      /\ \A q \in Polls \ {p} : poll'[q] = poll[q]
  BY <1>1, IdleAgain
<1>3. log' \in M!Rules /\ signature' = M!SignatureOf(log')
  BY <1>1 DEF SignaturesFit
<1>4. ~overlapped => log # poll[p].decided[2]
  BY <1>1 DEF SignaturesFit
<1>5. repeated' \in BOOLEAN /\ M!RepeatTakesARace'
  <2>1. repeated' = (repeated \/ log = poll[p].decided[2]) /\ overlapped' = overlapped
    BY DEF M!Log
  <2>2. repeated' \in BOOLEAN
    BY <2>1, Zenon
  <2>3. repeated' => overlapped'
    BY <2>1, <1>4, Zenon DEF M!RepeatTakesARace
  <2> QED BY <2>2, <2>3 DEF M!RepeatTakesARace
<1>6. M!TypeOK'
  <2>1. {overlapped', repeated'} \subseteq BOOLEAN
    BY <1>1, <1>5, Zenon DEF M!TypeOK
  <2>2. signature' \in M!Signatures
    <3>1. log' # None
      BY <1>3 DEF M!MonitorConstants
    <3> QED BY <1>3, <3>1 DEF M!SignatureOf, M!ModeOf, M!Signatures, M!Modes
  <2> QED BY <1>1, <1>2, <1>3, <2>1, <2>2 DEF M!TypeOK, PollRecords
<1>7. WorthsFit' /\ AloneUnderWay'
  BY <1>1, <1>2 DEF WorthsFit, AloneUnderWay
<1>8. PeaksFit'
  BY <1>1, <1>2 DEF PeaksFit
<1>9. SignaturesFit'
  <2>1. ~overlapped => \A q \in Polls : poll'[q].at # "log"
    BY <1>1, <1>2 DEF AloneUnderWay
  <2>2. \A q \in Polls : poll'[q].at \in {"compare", "log"} =>
          /\ poll'[q].decided[2] \in M!Rules
          /\ poll'[q].decided = M!SignatureOf(poll'[q].decided[2])
    BY <1>2 DEF SignaturesFit
  <2> QED BY <1>1, <1>3, <2>1, <2>2 DEF SignaturesFit, M!SignatureOf, M!ModeOf
<1> QED BY <1>5, <1>6, <1>7, <1>8, <1>9

LEMMA LogFailsKeeps ==
  ASSUME MonitorInv, M!MonitorConstants, NEW p \in Polls, M!LogFails(p)
  PROVE  MonitorInv'
<1> USE DEF MonitorInv
<1>1. /\ poll' = [poll EXCEPT ![p] = M!Idle]
      /\ UNCHANGED <<account, peak, peakCache, log, signature, changes, overlapped, repeated>>
  BY DEF M!LogFails, M!memory
<1>2. /\ poll' \in [Polls -> PollRecords] /\ poll'[p].at = "idle"
      /\ \A q \in Polls \ {p} : poll'[q] = poll[q]
  BY <1>1, IdleAgain
<1>3. M!TypeOK'
  <2>1. {overlapped', repeated'} \subseteq BOOLEAN
    BY <1>1, Zenon DEF M!TypeOK
  <2>2. faults' \in 0 .. MaxFaults
    BY DEF M!LogFails, M!Fault, M!TypeOK, M!MonitorConstants
  <2> QED BY <1>1, <1>2, <2>1, <2>2 DEF M!TypeOK, PollRecords
<1>4. WorthsFit' /\ AloneUnderWay' /\ PeaksFit'
  BY <1>1, <1>2 DEF WorthsFit, AloneUnderWay, PeaksFit
<1>5. SignaturesFit'
  BY <1>1, <1>2 DEF SignaturesFit, M!SignatureOf, M!ModeOf
<1>6. M!RepeatTakesARace'
  BY <1>1 DEF M!RepeatTakesARace
<1> QED BY <1>3, <1>4, <1>5, <1>6

LEMMA OthersKeep ==
  ASSUME MonitorInv, M!MonitorConstants,
         M!AccountChanges \/ M!Restart \/ UNCHANGED M!vars
  PROVE  MonitorInv'
<1> USE DEF MonitorInv
<1>1. UNCHANGED <<peak, log, overlapped, repeated>>
  BY DEF M!AccountChanges, M!Restart, M!vars
<1>2. \/ UNCHANGED <<poll, peakCache, signature>>
      \/ /\ poll' = [p \in Polls |-> M!Idle]
         /\ peakCache' = None /\ signature' = None
  BY DEF M!AccountChanges, M!Restart, M!vars, M!memory
<1>3. M!TypeOK'
  <2>1. {overlapped', repeated'} \subseteq BOOLEAN
    BY <1>1, Zenon DEF M!TypeOK
  <2>2. faults' \in 0 .. MaxFaults /\ changes' \in 0 .. MaxChanges
    BY DEF M!AccountChanges, M!Restart, M!vars, M!Fault, M!TypeOK, M!MonitorConstants
  <2>3. account' \in [book : Figures, worth : Worths]
    BY DEF M!AccountChanges, M!Restart, M!vars, M!TypeOK
  <2>4. poll' \in [Polls -> PollRecords]
    <3>1. M!Idle \in PollRecords
      BY DEF M!Idle, PollRecords
    <3>2. poll \in [Polls -> PollRecords]
      BY DEF M!TypeOK, PollRecords
    <3> QED BY <1>2, <3>1, <3>2
  <2> QED BY <1>1, <1>2, <2>1, <2>2, <2>3, <2>4 DEF M!TypeOK, PollRecords
<1>4. \A p \in Polls : poll'[p] = poll[p] \/ poll'[p].at = "idle"
  BY <1>2 DEF M!Idle
<1>5. WorthsFit' /\ AloneUnderWay'
  BY <1>1, <1>4 DEF WorthsFit, AloneUnderWay
<1>6. PeaksFit'
  BY <1>1, <1>2, <1>4 DEF PeaksFit
<1>7. SignaturesFit'
  BY <1>1, <1>2, <1>4 DEF SignaturesFit, M!SignatureOf, M!ModeOf
<1>8. M!RepeatTakesARace'
  BY <1>1 DEF M!RepeatTakesARace
<1> QED BY <1>3, <1>5, <1>6, <1>7, <1>8

LEMMA MonitorKept ==
  ASSUME MonitorInv, M!MonitorConstants, [M!Next]_(M!vars)
  PROVE  MonitorInv'
<1>1. ASSUME NEW p \in Polls,
             \/ M!Read(p) \/ M!ReadPeak(p) \/ M!ComparePeak(p) \/ M!InsertPeak(p)
             \/ M!RaisePeak(p) \/ M!PeakFails(p) \/ M!Compare(p) \/ M!Log(p)
             \/ M!LogFails(p)
      PROVE  MonitorInv'
  BY <1>1, ReadKeeps, ReadPeakKeeps, ComparePeakKeeps, InsertPeakKeeps, RaisePeakKeeps,
     PeakFailsKeeps, CompareKeeps, LogKeeps, LogFailsKeeps
<1> QED BY <1>1, OthersKeep DEF M!Next

\* Only overlapping polls make an event repeat the one before it.
THEOREM EventsAreTransitions ==
  ASSUME M!MonitorConstants
  PROVE  M!FairSpec => [](M!TypeOK /\ M!RepeatTakesARace)
<1>1. M!Init => MonitorInv
  BY MonitorStarts
<1>2. MonitorInv /\ [M!Next]_(M!vars) => MonitorInv'
  BY MonitorKept
<1>3. MonitorInv => M!TypeOK /\ M!RepeatTakesARace
  BY DEF MonitorInv
<1> QED BY <1>1, <1>2, <1>3, PTL DEF M!FairSpec

\* The persisted peak falls only when polls overlap.
LEMMA PeakStep ==
  ASSUME M!MonitorConstants
  PROVE  MonitorInv /\ [M!Next]_(M!vars) => [peak # None /\ peak' < peak => overlapped]_peak
<1> SUFFICES ASSUME MonitorInv, [M!Next]_(M!vars), ~overlapped, peak # None, peak' # peak
             PROVE  ~(peak' < peak)
  OBVIOUS
<1>1. PICK p \in Polls : M!InsertPeak(p) \/ M!RaisePeak(p)
  BY DEF M!Next, M!vars, M!Read, M!ReadPeak, M!ComparePeak, M!PeakFails, M!Compare, M!Log,
         M!LogFails, M!AccountChanges, M!Restart
<1>2. ~M!InsertPeak(p)
  BY DEF M!InsertPeak, MonitorInv, PeaksFit
<1>3. peak' = poll[p].worth /\ poll[p].worth > peak
  BY <1>1, <1>2 DEF M!RaisePeak, MonitorInv, PeaksFit
<1>4. peak \in Nat /\ peak' \in Nat
  <2>1. poll[p].worth \in Worths \cup {Capital, None} /\ poll[p].worth # None
    BY <1>1, <1>2 DEF MonitorInv, M!TypeOK, WorthsFit, M!RaisePeak
  <2> QED BY <1>3, <2>1 DEF MonitorInv, M!TypeOK, M!MonitorConstants
<1> QED BY <1>3, <1>4

-----------------------------------------------------------------------------
(* DailySnapshot.                                                          *)

\* A capture under way is one of today's, of a day of trading that has no
\* record yet, and today's hour has come.
SnapshotInv ==
  /\ date \in 0 .. LastDay /\ hour \in 0 .. 2
  /\ frozen = [d \in 0 .. LastDay |-> frozen[d]]
  /\ capture = [at |-> capture.at, day |-> capture.day, top |-> capture.top]
  /\ capture.at # "idle" =>
       capture.day = date /\ hour # 0 /\ date \notin Weekend /\ frozen[date] = None

LEMMA SnapshotStarts == D!Init => SnapshotInv
BY SnapshotAssumption DEF D!SnapshotConstants, D!Init, SnapshotInv, D!NoCapture

LEMMA SnapshotKept == SnapshotInv /\ [D!Next]_(D!vars) => SnapshotInv'
<1> SUFFICES ASSUME SnapshotInv, [D!Next]_(D!vars) PROVE SnapshotInv'
  OBVIOUS
<1> USE DEF SnapshotInv
<1>1. CASE D!Scan
  BY <1>1 DEF D!Scan
<1>2. CASE D!Start
  <2>1. capture' = [[D!NoCapture EXCEPT !.at = "checked"] EXCEPT !.day = date]
    BY <1>2 DEF D!Start
  <2>2. capture' = [at |-> "checked", day |-> date, top |-> None]
    BY <2>1 DEF D!NoCapture
  <2>3. /\ UNCHANGED <<date, hour, frozen>> /\ hour = 1
        /\ date \notin Weekend /\ frozen[date] = None
    BY <1>2 DEF D!Start
  <2> QED BY <2>2, <2>3
<1>3. CASE D!ReadTable
  <2>1. capture.at # "idle"
    BY <1>3 DEF D!ReadTable
  <2>2. UNCHANGED <<date, hour, frozen>>
    BY <1>3 DEF D!ReadTable
  <2>3. \/ capture' = D!NoCapture
        \/ \E top : capture' = [capture EXCEPT !.at = "read", !.top = top]
    BY <1>3, Zenon DEF D!ReadTable
  <2>4. CASE capture' = D!NoCapture
    BY <2>2, <2>4 DEF D!NoCapture
  <2>5. ASSUME NEW top, capture' = [capture EXCEPT !.at = "read", !.top = top]
        PROVE  SnapshotInv'
    <3>1. capture' = [at |-> "read", day |-> capture.day, top |-> top]
      BY <2>5
    <3> QED BY <2>1, <2>2, <3>1
  <2> QED BY <2>3, <2>4, <2>5
<1>4. CASE D!Freeze
  BY <1>4 DEF D!Freeze, D!NoCapture
<1>5. CASE D!CutOff
  BY <1>5 DEF D!CutOff, D!NoCapture
<1>6. CASE D!TimePasses
  BY <1>6, SnapshotAssumption DEF D!SnapshotConstants, D!TimePasses
<1>7. CASE UNCHANGED D!vars
  BY <1>7 DEF D!vars
<1> QED BY <1>1, <1>2, <1>3, <1>4, <1>5, <1>6, <1>7 DEF D!Next

\* What is frozen stays, and is frozen in its day.
LEMMA FrozenStays ==
  SnapshotInv /\ [D!Next]_(D!vars) =>
    [\A d \in 0 .. LastDay :
       /\ frozen[d] # None => frozen'[d] = frozen[d]
       /\ frozen'[d] # frozen[d] => d = date /\ hour # 0 /\ d \notin Weekend]_(D!vars)
<1> SUFFICES ASSUME SnapshotInv, D!Next, NEW d \in 0 .. LastDay
             PROVE  /\ frozen[d] # None => frozen'[d] = frozen[d]
                    /\ frozen'[d] # frozen[d] => d = date /\ hour # 0 /\ d \notin Weekend
  BY Zenon
<1>1. CASE D!Freeze
  BY <1>1 DEF D!Freeze, SnapshotInv
<1>2. CASE ~D!Freeze
  BY <1>2 DEF D!Next, D!Scan, D!Start, D!ReadTable, D!CutOff, D!TimePasses
<1> QED BY <1>1, <1>2

SnapRows ==
  [ticker : D!Tickers, action : Actions, score : Scores \cup {None},
   day : 0 .. LastDay, hour : 0 .. 2]

\* No side of a record is longer than the top.
FitsTop(top) == \A a \in Actions : D!Cardinality(top[a]) <= TopN

\* A row is not of the future.
Recorded(q, d, h) == q.day < d \/ (q.day = d /\ q.hour <= h)

RecordInv ==
  /\ table \in Seq(SnapRows) /\ Len(table) <= MaxRows
  /\ capture.at \in {"idle", "checked", "read"}
  /\ \A i \in DOMAIN table : Recorded(table[i], date, hour)
  /\ capture.at = "read" => D!Timely(capture.day, capture.top) /\ FitsTop(capture.top)
  /\ \A d \in 0 .. LastDay : frozen[d] # None =>
       /\ D!Timely(d, frozen[d]) /\ FitsTop(frozen[d])
       /\ d < date \/ (d = date /\ hour # 0)

LEMMA RecordsMean == SnapshotInv /\ RecordInv => D!NoHindsight /\ D!TypeOK
BY DEF SnapshotInv, RecordInv, FitsTop, D!NoHindsight, D!TypeOK

LEMMA RecordsStart == ASSUME D!SnapshotConstants, D!Init PROVE RecordInv
BY DEF D!Init, RecordInv, D!NoCapture, D!SnapshotConstants

\* The rows of a list with one more in its place.
LEMMA InsertFits ==
  ASSUME NEW T, NEW s \in Seq(T), NEW e \in T, NEW i \in 1 .. Len(s) + 1
  PROVE  LET n == D!InsertAt(s, i, e)
         IN  /\ n \in Seq(T) /\ Len(n) = Len(s) + 1
             /\ \A j \in DOMAIN n : n[j] = e \/ \E k \in DOMAIN s : n[j] = s[k]
             /\ \A k \in DOMAIN s : \E j \in DOMAIN n : n[j] = s[k]
<1> DEFINE a == SubSeq(s, 1, i - 1)
           b == SubSeq(s, i, Len(s))
           n == (a \o <<e>>) \o b
<1>0. i \in Nat /\ i >= 1 /\ i <= Len(s) + 1 /\ Len(s) \in Nat
  OBVIOUS
<1>1. /\ a \in Seq(T) /\ Len(a) = i - 1 /\ \A j \in 1 .. i - 1 : a[j] = s[j]
      /\ b \in Seq(T) /\ Len(b) = Len(s) - i + 1
      /\ \A j \in 1 .. Len(s) - i + 1 : b[j] = s[i + j - 1]
  OBVIOUS
<1>2. D!InsertAt(s, i, e) = n
  BY DEF D!InsertAt
<1> HIDE DEF a, b
<1>3. /\ n \in Seq(T) /\ Len(n) = Len(s) + 1
      /\ \A j \in 1 .. Len(s) + 1 :
           n[j] = IF j < i THEN a[j] ELSE IF j = i THEN e ELSE b[j - i]
  <2> DEFINE m == a \o <<e>>
  <2>1. m \in Seq(T) /\ Len(m) = i /\ \A j \in 1 .. i : m[j] = IF j < i THEN a[j] ELSE e
    <3>1. e \in T /\ i \in 1 .. Len(s) + 1 /\ s \in Seq(T)
      OBVIOUS
    <3>2. a \in Seq(T) /\ Len(a) = i - 1 /\ i \in Nat
      BY <1>1, <3>1
    <3>3. m \in Seq(T) /\ Len(m) = i
      BY ONLY <3>1, <3>2 DEF m
    <3>4. \A j \in 1 .. i : m[j] = IF j < i THEN a[j] ELSE e
      BY ONLY <3>1, <3>2 DEF m
    <3> QED BY <3>3, <3>4
  <2> HIDE DEF m
  <2>2. m \in Seq(T) /\ b \in Seq(T) /\ Len(m) = i /\ Len(b) = Len(s) - i + 1
    BY <1>1, <2>1
  <2> DEFINE w == m \o b
  <2>3. w \in Seq(T) /\ Len(w) = Len(s) + 1
    BY <1>0, <2>2
  <2>4. \A j \in 1 .. Len(m) + Len(b) : w[j] = IF j <= Len(m) THEN m[j] ELSE b[j - Len(m)]
    BY <2>2
  <2>5. n = w
    BY DEF m
  <2> HIDE DEF w
  <2>6. ASSUME NEW j \in 1 .. Len(s) + 1
        PROVE  w[j] = IF j < i THEN a[j] ELSE IF j = i THEN e ELSE b[j - i]
    <3>1. Len(s) \in Nat /\ Len(m) + Len(b) = Len(s) + 1 /\ j \in 1 .. Len(m) + Len(b)
      BY <1>0, <2>2
    <3>2. w[j] = IF j <= i THEN m[j] ELSE b[j - i]
      BY <2>2, <2>4, <3>1
    <3> QED BY <1>0, <2>1, <3>2
  <2> QED BY <2>3, <2>5, <2>6
<1> HIDE DEF n
<1>4. ASSUME NEW j \in DOMAIN n PROVE n[j] = e \/ \E k \in DOMAIN s : n[j] = s[k]
  <2>1. j \in 1 .. Len(s) + 1
    BY <1>3
  <2>2. CASE j < i
    <3>1. j \in 1 .. i - 1 /\ j \in DOMAIN s
      BY <2>1, <2>2
    <3>2. n[j] = a[j]
      BY <1>3, <2>1, <2>2
    <3> QED BY <1>1, <3>1, <3>2
  <2>3. CASE j = i
    BY <1>3, <2>1, <2>3
  <2>4. CASE j > i
    <3>1. j - i \in 1 .. Len(s) - i + 1 /\ j - 1 \in DOMAIN s /\ i + (j - i) - 1 = j - 1
      BY <2>1, <2>4
    <3>2. n[j] = b[j - i]
      BY <1>3, <2>1, <2>4
    <3>3. b[j - i] = s[j - 1]
      BY <1>1, <3>1
    <3> QED BY <3>1, <3>2, <3>3
  <2> QED BY <2>1, <2>2, <2>3, <2>4
<1>5. ASSUME NEW k \in DOMAIN s PROVE \E j \in DOMAIN n : n[j] = s[k]
  <2>1. CASE k < i
    <3>1. k \in 1 .. i - 1 /\ k \in 1 .. Len(s) + 1 /\ k \in DOMAIN n
      BY <1>3, <2>1
    <3>2. n[k] = a[k]
      BY <1>3, <2>1, <3>1
    <3> QED BY <1>1, <3>1, <3>2
  <2>2. CASE k >= i
    <3>1. k + 1 \in DOMAIN n /\ k + 1 - i \in 1 .. Len(s) - i + 1 /\ i + (k + 1 - i) - 1 = k
      BY <1>3, <2>2
    <3>2. n[k + 1] = b[k + 1 - i]
      BY <1>3, <2>2, <3>1
    <3> QED BY <1>1, <3>1, <3>2
  <2> QED BY <2>1, <2>2
<1> QED BY <1>2, <1>3, <1>4, <1>5
\* The first appearance of a signal is one of its scored rows, none is older, and there
\* is one if there is any such row.
LEMMA EarliestIs ==
  ASSUME D!SnapshotConstants, table \in Seq(SnapRows), NEW d, NEW t, NEW a
  PROVE  LET e == D!Earliest(d, t, a)
         IN  /\ e # None =>
                  /\ e \in SnapRows /\ e \in D!Scored(d) /\ e.ticker = t /\ e.action = a
                  /\ \A q \in D!Scored(d) : q.ticker = t /\ q.action = a => ~D!Before(q, e)
             /\ (\E q \in D!Scored(d) : q.ticker = t /\ q.action = a) => e # None
<1> DEFINE found == {i \in DOMAIN table : /\ table[i].day = d /\ table[i].score # None
                                          /\ table[i].ticker = t /\ table[i].action = a}
           first == {i \in found : \A j \in found : ~D!Before(table[j], table[i])}
           e == D!Earliest(d, t, a)
<1>1. e = IF found = {} THEN None ELSE table[D!Min(first)]
  BY DEF D!Earliest
<1>2. \A i \in DOMAIN table : table[i] \in SnapRows /\ i \in Nat
  OBVIOUS
<1>3. \A q \in D!Scored(d) : q.ticker = t /\ q.action = a => \E i \in found : q = table[i]
  BY DEF D!Scored, D!ToSet
<1>4. \A i \in found : /\ table[i] \in SnapRows /\ table[i] \in D!Scored(d) /\ i \in Nat
                       /\ table[i].ticker = t /\ table[i].action = a /\ table[i].day = d
                       /\ table[i].hour \in Nat
  BY <1>2 DEF D!Scored, D!ToSet, SnapRows
<1> HIDE DEF found, e
<1>5. ASSUME found # {}
      PROVE  D!Min(first) \in first
  <2> DEFINE hours == {table[i].hour : i \in found}
  <2>1. hours \in SUBSET Nat /\ hours # {}
    BY <1>4, <1>5
  <2>2. \E h \in hours : \A y \in hours : h <= y
    <3> HIDE DEF hours
    <3> QED BY <2>1, LeastOfSet
  <2>3. PICK i \in found : \A j \in found : table[i].hour <= table[j].hour
    BY <2>2
  <2>4. \A j \in found : ~D!Before(table[j], table[i])
    <3> SUFFICES ASSUME NEW j \in found PROVE ~D!Before(table[j], table[i])
      OBVIOUS
    <3>1. /\ table[j].hour \in Nat /\ table[i].hour \in Nat /\ table[i].hour <= table[j].hour
          /\ table[j].day = d /\ table[i].day = d /\ d \in Int
      BY <1>4, <2>3 DEF SnapRows
    <3> QED BY <3>1 DEF D!Before
  <2>5. first # {} /\ first \in SUBSET Nat
    BY <1>4, <2>4
  <2> HIDE DEF first
  <2> QED BY <2>5, LeastOfSet DEF D!Min
<1>6. ASSUME found # {} PROVE e \in SnapRows /\ e # None
  BY <1>1, <1>4, <1>5, <1>6 DEF D!SnapshotConstants, SnapRows
<1>7. ASSUME e # None
      PROVE  /\ e \in SnapRows /\ e \in D!Scored(d) /\ e.ticker = t /\ e.action = a
             /\ \A q \in D!Scored(d) : q.ticker = t /\ q.action = a => ~D!Before(q, e)
  <2>1. found # {} /\ e = table[D!Min(first)] /\ D!Min(first) \in first
    BY <1>1, <1>5, <1>7
  <2>2. PICK i \in found : e = table[i] /\ \A j \in found : ~D!Before(table[j], table[i])
    BY <2>1
  <2> HIDE DEF first
  <2> QED BY <1>3, <1>4, <2>2
<1>8. ASSUME NEW q \in D!Scored(d), q.ticker = t, q.action = a PROVE e # None
  BY <1>3, <1>6, <1>8
<1> QED BY <1>7, <1>8 DEF e

\* Different tickers have different places in the order.
LEMMA PlacesDiffer ==
  ASSUME D!SnapshotConstants, NEW t \in D!Tickers, NEW u \in D!Tickers
  PROVE  /\ D!SelectInSeq(Ranked, LAMBDA x : x = t) \in Nat
         /\ D!SelectInSeq(Ranked, LAMBDA x : x = t) = D!SelectInSeq(Ranked, LAMBDA x : x = u)
              => t = u
<1>1. ASSUME NEW v \in D!Tickers
      PROVE  LET n == D!SelectInSeq(Ranked, LAMBDA x : x = v) IN n \in Nat /\ Ranked[n] = v
  <2> DEFINE I == {i \in 1 .. Len(Ranked) : Ranked[i] = v}
  <2>1. DOMAIN Ranked = 1 .. Len(Ranked) /\ Len(Ranked) \in Nat
    BY DEF D!SnapshotConstants
  <2>2. I # {} /\ I \in SUBSET Nat /\ \A i \in I : Ranked[i] = v
    BY <2>1 DEF D!Tickers, D!ToSet
  <2>3. D!SelectInSeq(Ranked, LAMBDA x : x = v) = D!Min(I)
    BY <2>2 DEF D!SelectInSeq
  <2> HIDE DEF I
  <2>4. D!Min(I) \in I
    BY <2>2, LeastOfSet DEF D!Min
  <2> QED BY <2>2, <2>3, <2>4
<1> QED BY <1>1

\* The ranking is strict, and of two rows of different tickers one is better.
LEMMA RanksAreStrict ==
  ASSUME D!SnapshotConstants, NEW q \in SnapRows, NEW r \in SnapRows, NEW p \in SnapRows,
         q.score # None, r.score # None, p.score # None
  PROVE  /\ ~D!Better(r, r)
         /\ D!Better(q, r) /\ D!Better(r, p) => D!Better(q, p)
         /\ q.ticker # r.ticker => D!Better(q, r) \/ D!Better(r, q)
         /\ D!Better(q, r) /\ p.score < r.score => D!Better(q, p)
         /\ r.score > q.score => D!Better(r, q)
<1> DEFINE place(v) == D!SelectInSeq(Ranked, LAMBDA x : x = v)
<1>1. {q.score, r.score, p.score} \subseteq Int
  BY DEF SnapRows, D!SnapshotConstants
<1>2. {q.ticker, r.ticker, p.ticker} \subseteq D!Tickers
  BY DEF SnapRows
<1>3. \A t, u \in D!Tickers : place(t) \in Nat /\ (place(t) = place(u) => t = u)
  BY PlacesDiffer
<1>4. \A x, y : D!Better(x, y) <=>
        (x.score > y.score \/ (x.score = y.score /\ place(x.ticker) < place(y.ticker)))
  BY DEF D!Better
<1> HIDE DEF place
<1> QED BY <1>1, <1>2, <1>3, <1>4
LEMMA TickersAreFinite == ASSUME D!SnapshotConstants PROVE IsFiniteSet(D!Tickers)
<1> DEFINE n == Len(Ranked)
<1>1. n \in Nat /\ DOMAIN Ranked = 1 .. n /\ Ranked \in [1 .. n -> D!Tickers]
  BY DEF D!SnapshotConstants
<1>2. \A t \in D!Tickers : \E i \in 1 .. n : Ranked[i] = t
  BY <1>1 DEF D!Tickers, D!ToSet
<1>3. Ranked \in Surjection(1 .. n, D!Tickers)
  BY <1>1, <1>2 DEF Surjection
<1> QED BY <1>1, <1>3, FS_Interval, FS_Surjection

LEMMA CountsAgree == \A S : D!Cardinality(S) = Cardinality(S)
BY DEF D!Cardinality, D!IsFiniteSet, Cardinality, IsFiniteSet

\* The first appearances of a day, and how they rank.
Firsts(d, a) == {D!Earliest(d, t, a) : t \in D!Tickers} \ {None}
Ahead(d, a, r) == {q \in Firsts(d, a) : D!Better(q, r)}

LEMMA FirstsAre ==
  ASSUME D!SnapshotConstants, table \in Seq(SnapRows), NEW d, NEW a
  PROVE  /\ IsFiniteSet(Firsts(d, a))
         /\ \A r \in Firsts(d, a) :
              /\ r \in SnapRows /\ r \in D!Scored(d) /\ r.score # None /\ r.action = a
              /\ r = D!Earliest(d, r.ticker, a)
              /\ \A q \in D!Scored(d) : q.ticker = r.ticker /\ q.action = a => ~D!Before(q, r)
<1>1. ASSUME NEW r \in Firsts(d, a)
      PROVE  /\ r \in SnapRows /\ r \in D!Scored(d) /\ r.score # None /\ r.action = a
             /\ r = D!Earliest(d, r.ticker, a)
             /\ \A q \in D!Scored(d) : q.ticker = r.ticker /\ q.action = a => ~D!Before(q, r)
  <2>1. PICK t \in D!Tickers : r = D!Earliest(d, t, a) /\ r # None
    BY DEF Firsts
  <2>2. /\ r \in SnapRows /\ r \in D!Scored(d) /\ r.ticker = t /\ r.action = a
        /\ \A q \in D!Scored(d) : q.ticker = t /\ q.action = a => ~D!Before(q, r)
    BY <2>1, EarliestIs
  <2> QED BY <2>1, <2>2 DEF D!Scored
<1> DEFINE f == [r \in Firsts(d, a) |-> r.ticker]
<1>2. f \in Injection(Firsts(d, a), D!Tickers)
  <2>1. \A r \in Firsts(d, a) : f[r] = r.ticker /\ r.ticker \in D!Tickers
    BY <1>1 DEF SnapRows
  <2>2. \A r, q \in Firsts(d, a) : f[r] = f[q] => r = q
    BY <1>1, <2>1
  <2>3. f \in [Firsts(d, a) -> D!Tickers]
    BY <2>1
  <2> HIDE DEF f
  <2> QED BY <2>2, <2>3 DEF Injection, IsInjective
<1> HIDE DEF f
<1>3. IsFiniteSet(Firsts(d, a))
  BY <1>2, TickersAreFinite, FS_Injection
<1> QED BY <1>1, <1>3

\* A side of the day's best is no longer than it may be: each in it has another number
\* of betters.
LEMMA TopFits ==
  ASSUME D!SnapshotConstants, table \in Seq(SnapRows), NEW d
  PROVE  FitsTop(D!Top(d))
<1> SUFFICES ASSUME NEW a \in Actions PROVE Cardinality(D!Top(d)[a]) <= TopN
  BY CountsAgree DEF FitsTop
<1> DEFINE B == D!Top(d)[a]
           f == [r \in B |-> Cardinality(Ahead(d, a, r))]
<1>1. B = {r \in Firsts(d, a) : Cardinality(Ahead(d, a, r)) < TopN}
  BY CountsAgree DEF D!Top, Firsts, Ahead
<1>2. \A r \in Firsts(d, a) : IsFiniteSet(Ahead(d, a, r)) /\ Cardinality(Ahead(d, a, r)) \in Nat
  <2> SUFFICES ASSUME NEW r \in Firsts(d, a)
               PROVE  IsFiniteSet(Ahead(d, a, r)) /\ Cardinality(Ahead(d, a, r)) \in Nat
    OBVIOUS
  <2>1. Ahead(d, a, r) \in SUBSET Firsts(d, a)
    BY DEF Ahead
  <2> QED BY <2>1, FirstsAre, FS_Subset, FS_CardinalityType
<1>3. ASSUME NEW q \in Firsts(d, a), NEW r \in Firsts(d, a), D!Better(q, r)
      PROVE  Cardinality(Ahead(d, a, q)) < Cardinality(Ahead(d, a, r))
  <2>1. \A x \in Firsts(d, a) : x \in SnapRows /\ x.score # None
    BY FirstsAre
  <2>2. Ahead(d, a, q) \subseteq Ahead(d, a, r)
    BY <1>3, <2>1, RanksAreStrict DEF Ahead
  <2>3. q \in Ahead(d, a, r) /\ q \notin Ahead(d, a, q)
    BY <1>3, <2>1, RanksAreStrict DEF Ahead
  <2> QED BY <1>2, <2>2, <2>3, FS_Subset
<1>4. ASSUME NEW q \in B, NEW r \in B, f[q] = f[r] PROVE q = r
  <2>1. /\ q \in SnapRows /\ q.score # None /\ q = D!Earliest(d, q.ticker, a) /\ q \in Firsts(d, a)
        /\ r \in SnapRows /\ r.score # None /\ r = D!Earliest(d, r.ticker, a) /\ r \in Firsts(d, a)
    BY <1>1, FirstsAre
  <2>2. q.ticker # r.ticker => D!Better(q, r) \/ D!Better(r, q)
    BY <2>1, RanksAreStrict
  <2>3. ~D!Better(q, r) /\ ~D!Better(r, q)
    BY <1>2, <1>3, <1>4, <2>1
  <2> QED BY <2>1, <2>2, <2>3
<1>5. f \in Injection(B, 0 .. TopN - 1)
  <2>1. TopN \in Nat
    BY DEF D!SnapshotConstants
  <2>2. f \in [B -> 0 .. TopN - 1]
    BY <1>1, <1>2, <2>1
  <2> HIDE DEF f, B
  <2> QED BY <1>4, <2>2 DEF Injection, IsInjective
<1> HIDE DEF f, B
<1>6. /\ IsFiniteSet(0 .. TopN - 1) /\ Cardinality(0 .. TopN - 1) = TopN
  <2>1. TopN \in Nat
    BY DEF D!SnapshotConstants
  <2> QED BY <2>1, FS_Interval
<1>7. Cardinality(B) <= TopN
  BY <1>5, <1>6, FS_Injection
<1> QED BY <1>7 DEF B

\* Nobody is left out who was ahead of one that is in.
LEMMA TopIsTimely ==
  ASSUME D!SnapshotConstants, table \in Seq(SnapRows), NEW d
  PROVE  D!Timely(d, D!Top(d))
<1> SUFFICES ASSUME NEW a \in Actions, NEW r \in D!Top(d)[a]
             PROVE  /\ r \in D!Scored(d) /\ r.action = a
                    /\ \A q \in D!Scored(d) : q.ticker = r.ticker /\ q.action = a => ~D!Before(q, r)
                    /\ \A t \in D!Tickers :
                         LET rows == {q \in D!Scored(d) : q.ticker = t /\ q.action = a} IN
                           rows # {} /\ (\A q \in rows : q.hour = 0 /\ q.score > r.score) =>
                             \E p \in D!Top(d)[a] : p.ticker = t
  BY DEF D!Timely
<1>1. D!Top(d)[a] = {x \in Firsts(d, a) : Cardinality(Ahead(d, a, x)) < TopN}
  BY CountsAgree DEF D!Top, Firsts, Ahead
<1>2. /\ r \in Firsts(d, a) /\ Cardinality(Ahead(d, a, r)) < TopN
      /\ r \in SnapRows /\ r \in D!Scored(d) /\ r.score # None /\ r.action = a
      /\ \A q \in D!Scored(d) : q.ticker = r.ticker /\ q.action = a => ~D!Before(q, r)
  BY <1>1, FirstsAre
<1>3. ASSUME NEW t \in D!Tickers, NEW z \in D!Scored(d), z.ticker = t, z.action = a,
             \A q \in D!Scored(d) : q.ticker = t /\ q.action = a => q.score > r.score
      PROVE  \E p \in D!Top(d)[a] : p.ticker = t
  <2> DEFINE p == D!Earliest(d, t, a)
  <2>1. p # None
    BY <1>3, EarliestIs
  <2>2. p \in Firsts(d, a)
    BY <2>1 DEF Firsts
  <2>3. p \in SnapRows /\ p \in D!Scored(d) /\ p.ticker = t /\ p.action = a
    BY <2>1, EarliestIs
  <2> HIDE DEF p
  <2>4. p.score # None /\ p.score > r.score
    BY <1>3, <2>3 DEF D!Scored
  <2>5. Ahead(d, a, p) \in SUBSET Ahead(d, a, r)
    <3> SUFFICES ASSUME NEW q \in Firsts(d, a), D!Better(q, p) PROVE D!Better(q, r)
      BY DEF Ahead
    <3>1. q \in SnapRows /\ q.score # None
      BY FirstsAre
    <3>2. {q.score, p.score, r.score} \subseteq Int
      BY <1>2, <2>3, <2>4, <3>1 DEF SnapRows, D!SnapshotConstants
    <3>3. q.score >= p.score
      BY <3>2 DEF D!Better
    <3> QED BY <2>4, <3>2, <3>3 DEF D!Better
  <2>6. Cardinality(Ahead(d, a, p)) < TopN
    <3>1. IsFiniteSet(Firsts(d, a)) /\ Ahead(d, a, r) \in SUBSET Firsts(d, a)
      BY FirstsAre DEF Ahead
    <3>2. IsFiniteSet(Ahead(d, a, r))
      BY <3>1, FS_Subset
    <3>3. /\ Cardinality(Ahead(d, a, p)) <= Cardinality(Ahead(d, a, r))
          /\ IsFiniteSet(Ahead(d, a, p))
      BY <2>5, <3>2, FS_Subset
    <3>4. /\ Cardinality(Ahead(d, a, p)) \in Nat /\ Cardinality(Ahead(d, a, r)) \in Nat
          /\ TopN \in Nat
      BY <3>2, <3>3, FS_CardinalityType DEF D!SnapshotConstants
    <3> QED BY <1>2, <3>3, <3>4
  <2> QED BY <1>1, <2>2, <2>3, <2>6
<1> QED BY <1>2, <1>3
\* What is recorded after a record was read cannot show that it should be another.
LEMMA TimelyStays ==
  ASSUME D!SnapshotConstants, SnapshotInv, RecordInv, D!Scan, NEW d, NEW record,
         D!Timely(d, record), d < date \/ (d = date /\ hour # 0)
  PROVE  D!Timely(d, record)'
<1>1. PICK t \in D!Tickers, a \in Actions, s \in Scores \cup {None}, i \in 1 .. Len(table) + 1 :
        table' = D!InsertAt(table, i, [ticker |-> t, action |-> a, score |-> s,
                                       day |-> date, hour |-> hour])
  BY DEF D!Scan
<1> DEFINE e == [ticker |-> t, action |-> a, score |-> s, day |-> date, hour |-> hour]
<1>2. e \in SnapRows /\ e.day = date /\ e.hour = hour
  BY DEF SnapRows, SnapshotInv
<1> HIDE DEF e
<1>3. /\ \A j \in DOMAIN table' : table'[j] = e \/ \E k \in DOMAIN table : table'[j] = table[k]
      /\ \A k \in DOMAIN table : \E j \in DOMAIN table' : table'[j] = table[k]
  BY <1>1, <1>2, InsertFits DEF RecordInv, e
<1>4. /\ D!Scored(d) \subseteq D!Scored(d)' /\ D!Scored(d)' \subseteq D!Scored(d) \cup {e}
      /\ e \in D!Scored(d)' => e.day = d
  BY <1>3 DEF D!Scored, D!ToSet
<1>5. ASSUME NEW r \in D!Scored(d) PROVE ~(e.day = d /\ D!Before(e, r))
  <2>1. /\ Recorded(r, date, hour) /\ r.day = d /\ r \in SnapRows
    BY DEF RecordInv, D!Scored, D!ToSet
  <2> QED BY <1>2, <2>1 DEF Recorded, D!Before, SnapRows, SnapshotInv
<1>6. e.day = d => e.hour # 0
  <2>1. date \in Int
    BY DEF SnapshotInv
  <2> QED BY <1>2, <2>1
<1>7. ASSUME NEW x \in Actions, NEW r \in record[x]
      PROVE  /\ r \in D!Scored(d)' /\ r.action = x
             /\ \A q \in D!Scored(d)' : q.ticker = r.ticker /\ q.action = x => ~D!Before(q, r)
             /\ \A u \in D!Tickers :
                  LET rows == {q \in D!Scored(d)' : q.ticker = u /\ q.action = x} IN
                    rows # {} /\ (\A q \in rows : q.hour = 0 /\ q.score > r.score) =>
                      \E p \in record[x] : p.ticker = u
  <2>1. /\ r \in D!Scored(d) /\ r.action = x
        /\ \A q \in D!Scored(d) : q.ticker = r.ticker /\ q.action = x => ~D!Before(q, r)
    BY DEF D!Timely
  <2>2. \A q \in D!Scored(d)' : q.ticker = r.ticker /\ q.action = x => ~D!Before(q, r)
    BY <1>4, <1>5, <2>1
  <2>3. ASSUME NEW u \in D!Tickers, NEW z \in D!Scored(d)', z.ticker = u, z.action = x,
               \A q \in D!Scored(d)' :
                 q.ticker = u /\ q.action = x => q.hour = 0 /\ q.score > r.score
        PROVE  \E p \in record[x] : p.ticker = u
    <3>1. z # e /\ z \in D!Scored(d)
      BY <1>4, <1>6, <2>3
    <3>2. \A q \in D!Scored(d) : q.ticker = u /\ q.action = x => q.hour = 0 /\ q.score > r.score
      BY <1>4, <2>3
    <3>3. LET rows == {q \in D!Scored(d) : q.ticker = u /\ q.action = x} IN
            rows # {} /\ (\A q \in rows : q.hour = 0 /\ q.score > r.score) =>
              \E p \in record[x] : p.ticker = u
      BY DEF D!Timely
    <3> QED BY <2>3, <3>1, <3>2, <3>3
  <2> QED BY <1>4, <2>1, <2>2, <2>3
<1>8. D!Timely(d, record)' <=>
        \A x \in Actions : \A r \in record[x] :
          /\ r \in D!Scored(d)' /\ r.action = x
          /\ \A q \in D!Scored(d)' : q.ticker = r.ticker /\ q.action = x => ~D!Before(q, r)
          /\ \A u \in D!Tickers :
               LET rows == {q \in D!Scored(d)' : q.ticker = u /\ q.action = x} IN
                 rows # {} /\ (\A q \in rows : q.hour = 0 /\ q.score > r.score) =>
                   \E p \in record[x] : p.ticker = u
  BY DEF D!Timely, D!Before
<1> QED BY <1>7, <1>8

LEMMA SameRows == table' = table => \A d, record : D!Timely(d, record)' = D!Timely(d, record)
BY DEF D!Timely, D!Scored, D!ToSet, D!Before

LEMMA RecordsKept ==
  ASSUME D!SnapshotConstants, SnapshotInv, RecordInv, [D!Next]_(D!vars)
  PROVE  RecordInv'
<1> USE DEF RecordInv
<1>0. LastDay \in Nat /\ date \in Int /\ hour \in Int
  BY DEF D!SnapshotConstants, SnapshotInv
<1>1. CASE D!Scan
  <2>1. PICK t \in D!Tickers, a \in Actions, s \in Scores \cup {None}, i \in 1 .. Len(table) + 1 :
          table' = D!InsertAt(table, i, [ticker |-> t, action |-> a, score |-> s,
                                         day |-> date, hour |-> hour])
    BY <1>1 DEF D!Scan
  <2> DEFINE e == [ticker |-> t, action |-> a, score |-> s, day |-> date, hour |-> hour]
  <2>2. e \in SnapRows /\ Recorded(e, date, hour)
    BY <1>0 DEF SnapRows, SnapshotInv, Recorded
  <2> HIDE DEF e
  <2>3. /\ table' \in Seq(SnapRows) /\ Len(table') = Len(table) + 1
        /\ \A j \in DOMAIN table' : table'[j] = e \/ \E k \in DOMAIN table : table'[j] = table[k]
    BY <2>1, <2>2, InsertFits DEF e
  <2>4. Len(table) < MaxRows /\ UNCHANGED <<date, hour, frozen, capture>>
    BY <1>1 DEF D!Scan
  <2>5. Len(table') <= MaxRows
    BY <2>3, <2>4 DEF D!SnapshotConstants
  <2>6. \A j \in DOMAIN table' : Recorded(table'[j], date, hour)
    BY <2>2, <2>3
  <2>7. capture.at = "read" => D!Timely(capture.day, capture.top)'
    BY <1>1, <2>4, TimelyStays DEF SnapshotInv
  <2>8. \A d \in 0 .. LastDay : frozen[d] # None => D!Timely(d, frozen[d])'
    BY <1>1, <2>4, TimelyStays
  <2> QED BY <2>3, <2>4, <2>5, <2>6, <2>7, <2>8 DEF FitsTop
<1>2. CASE D!Start
  BY <1>2, SameRows DEF D!Start, D!NoCapture, SnapshotInv, FitsTop
<1>3. CASE D!ReadTable
  <2> DEFINE top == D!Top(capture.day)
  <2>1. D!Timely(capture.day, top) /\ FitsTop(top)
    BY TopIsTimely, TopFits
  <2> HIDE DEF top
  <2>2. /\ \/ capture' = D!NoCapture
           \/ capture' = [capture EXCEPT !.at = "read", !.top = top]
        /\ UNCHANGED <<date, hour, table, frozen>>
    BY <1>3 DEF D!ReadTable, top
  <2>3. \/ capture' = D!NoCapture
        \/ capture' = [at |-> "read", day |-> capture.day, top |-> top]
    BY <2>2 DEF SnapshotInv
  <2> QED BY <2>1, <2>2, <2>3, SameRows DEF D!NoCapture, FitsTop
<1>4. CASE D!Freeze
  <2>1. UNCHANGED <<date, hour, table>> /\ capture' = D!NoCapture
        /\ frozen' = [frozen EXCEPT ![capture.day] = capture.top] /\ capture.at = "read"
    BY <1>4 DEF D!Freeze
  <2>2. capture.day = date /\ hour # 0 /\ date \in 0 .. LastDay
    BY <2>1 DEF SnapshotInv
  <2>3. \A d \in 0 .. LastDay : frozen'[d] = IF d = date THEN capture.top ELSE frozen[d]
    BY <2>1, <2>2 DEF SnapshotInv
  <2>4. \A d \in 0 .. LastDay : frozen'[d] # None =>
          /\ D!Timely(d, frozen'[d]) /\ FitsTop(frozen'[d])
          /\ d < date \/ (d = date /\ hour # 0)
    BY <2>1, <2>2, <2>3
  <2>5. \A d \in 0 .. LastDay : frozen'[d] # None => D!Timely(d, frozen[d])'
    BY <2>1, <2>4, SameRows
  <2> QED BY <2>1, <2>4, <2>5 DEF D!NoCapture, FitsTop
<1>5. CASE D!CutOff
  BY <1>5, SameRows DEF D!CutOff, D!NoCapture, FitsTop
<1>6. CASE D!TimePasses
  <2>1. UNCHANGED <<table, frozen, capture>> /\ date' \in Int /\ hour' \in Int
        /\ \/ date' = date /\ hour' = hour + 1
           \/ date' = date + 1 /\ hour' = 0
    BY <1>0, <1>6 DEF D!TimePasses
  <2>2. \A i \in DOMAIN table : Recorded(table[i], date', hour')
    <3> SUFFICES ASSUME NEW i \in DOMAIN table PROVE Recorded(table[i], date', hour')
      OBVIOUS
    <3>0. table[i] \in SnapRows
      OBVIOUS
    <3>1. table[i].day \in Int /\ table[i].hour \in Int /\ Recorded(table[i], date, hour)
      BY <1>0, <3>0 DEF SnapRows
    <3> QED BY <1>0, <2>1, <3>1 DEF Recorded, SnapshotInv
  <2>3. \A d \in 0 .. LastDay : frozen[d] # None =>
          d < date' \/ (d = date' /\ hour' # 0)
    BY <1>0, <2>1 DEF SnapshotInv
  <2> QED BY <2>1, <2>2, <2>3, SameRows DEF FitsTop
<1>7. CASE UNCHANGED D!vars
  BY <1>7, SameRows DEF D!vars, FitsTop
<1> QED BY <1>1, <1>2, <1>3, <1>4, <1>5, <1>6, <1>7 DEF D!Next

-----------------------------------------------------------------------------
(* Excursions.                                                             *)

TradeRecords ==
  [plan : TradePlans, born : Nat, reason : E!Reasons \cup {None}, mfe : Int \cup {None},
   mae : Int \cup {None}, up : Int, down : Int, profit : Int \cup {None}]

\* What is measured of a row is within what its own share went through.
OwnMeasure(q, o, m, r) ==
  q.plan.kind \in {"equity_long", "equity_short"} =>
    /\ r \notin m.track => q.up <= o.up /\ q.down >= o.down
    /\ r \notin m.poll /\ q.mfe # None => q.mfe <= o.up /\ q.mae >= o.down

\* What a row's own share would bring at a price.
OwnMark(q, p) == (p - EntryPrice) * E!Sign(q.plan)

\* The executions since a row was entered.
Since(q, hist) == {hist[i] : i \in q.born + 1 .. Len(hist)}

TradesTyped ==
  /\ market \in Quotes /\ holding \in -MaxHeld .. MaxHeld
  /\ option \in OptionMarks \cup {None}
  /\ fills \in Seq(Quotes) /\ Len(fills) <= MaxFills
  /\ trade \in [TradeRows -> TradeRecords \cup {None}]
  /\ own \in [TradeRows -> [up : Int, down : Int]]
  /\ mixed \in [track : SUBSET TradeRows, poll : SUBSET TradeRows]
  /\ missing \subseteq E!Open
  /\ \A r \in TradeRows : trade[r] # None =>
       trade[r].down <= 0 /\ trade[r].up >= 0 /\ (trade[r].mfe = None <=> trade[r].mae = None)

ExcursionInv ==
  /\ TradesTyped
  /\ \A r \in TradeRows : own[r].up >= 0 /\ own[r].down <= 0
  /\ \A r \in TradeRows : trade[r] # None =>
       /\ trade[r].born <= Len(fills)
       /\ trade[r].reason = None /\ trade[r].plan.kind \in {"equity_long", "equity_short"} =>
            own[r].up >= OwnMark(trade[r], market) /\ own[r].down <= OwnMark(trade[r], market)
       /\ OwnMeasure(trade[r], own[r], mixed, r)
       /\ E!Earned(trade[r], Since(trade[r], fills))

LEMMA TradesAreMeasuredBy == ExcursionInv => E!TradesAreMeasured /\ E!TypeOK
<1> SUFFICES ASSUME ExcursionInv PROVE E!TradesAreMeasured /\ E!TypeOK
  OBVIOUS
<1>1. E!ExcursionIsOwn
  BY DEF ExcursionInv, OwnMeasure, E!ExcursionIsOwn, E!IsEquity
<1>2. E!LabelsAreEarned
  BY DEF ExcursionInv, Since, E!LabelsAreEarned
<1>3. E!TypeOK
  <2>1. \A r \in TradeRows : trade[r] # None => trade[r].plan \in TradePlans
    BY DEF ExcursionInv, TradesTyped, TradeRecords
  <2> QED BY <2>1 DEF ExcursionInv, TradesTyped, E!TypeOK
<1> QED BY <1>1, <1>2, <1>3 DEF E!TradesAreMeasured

LEMMA ExcursionsStart == ASSUME E!ExcursionConstants, E!Init PROVE ExcursionInv
<1>1. TradesTyped
  BY DEF TradesTyped, E!Init, E!ExcursionConstants, E!Open
<1> QED BY <1>1 DEF ExcursionInv, E!Init

LEMMA MostOfThree ==
  ASSUME NEW a \in Int, NEW b \in Int, NEW c \in Int
  PROVE  /\ E!Max({a, b, c}) \in {a, b, c}
         /\ E!Max({a, b, c}) >= a /\ E!Max({a, b, c}) >= b /\ E!Max({a, b, c}) >= c
         /\ E!Min({a, b, c}) \in {a, b, c}
         /\ E!Min({a, b, c}) <= a /\ E!Min({a, b, c}) <= b /\ E!Min({a, b, c}) <= c
<1>1. \E x \in {a, b, c} : \A y \in {a, b, c} : x >= y
  OBVIOUS
<1>2. \E x \in {a, b, c} : \A y \in {a, b, c} : x <= y
  OBVIOUS
<1> QED BY <1>1, <1>2 DEF E!Max, E!Min

LEMMA MostOfTwo ==
  ASSUME NEW a \in Int, NEW b \in Int
  PROVE  /\ E!Max({a, b}) \in {a, b} /\ E!Max({a, b}) >= a /\ E!Max({a, b}) >= b
         /\ E!Min({a, b}) \in {a, b} /\ E!Min({a, b}) <= a /\ E!Min({a, b}) <= b
<1>1. {a, b} = {a, b, b}
  OBVIOUS
<1> QED BY <1>1, MostOfThree

LEMMA EarnedMore ==
  ASSUME NEW q, NEW some, NEW more, some \subseteq more, E!Earned(q, some)
  PROVE  E!Earned(q, more)
BY DEF E!Earned

\* An execution more leaves what was earned earned.
LEMMA EarnedLater ==
  ASSUME NEW q \in TradeRecords, NEW hist \in Seq(Quotes), NEW p \in Quotes,
         E!Earned(q, Since(q, hist))
  PROVE  E!Earned(q, Since(q, Append(hist, p)))
<1>1. Since(q, hist) \subseteq Since(q, Append(hist, p))
  <2> SUFFICES ASSUME NEW i \in q.born + 1 .. Len(hist)
               PROVE  \E k \in q.born + 1 .. Len(Append(hist, p)) : Append(hist, p)[k] = hist[i]
    BY DEF Since
  <2>1. q.born \in Nat
    BY DEF TradeRecords
  <2>2. i \in 1 .. Len(hist) /\ i \in q.born + 1 .. Len(Append(hist, p))
    BY <2>1
  <2>3. Append(hist, p)[i] = hist[i]
    BY <2>2
  <2> QED BY <2>2, <2>3
<1> QED BY <1>1, EarnedMore

\* Only the plan, the entry, the reason and the profit tell what is earned.
LEMMA EarnedSame ==
  ASSUME NEW q, NEW w, NEW since, E!Earned(q, since),
         w.plan = q.plan, w.reason = q.reason, w.profit = q.profit
  PROVE  E!Earned(w, since)
BY DEF E!Earned
\* Equal parts sum to their product.
LEMMA SumsOfSame ==
  ASSUME NEW S, IsFiniteSet(S), NEW f, NEW n \in Int, \A x \in S : f[x] = n
  PROVE  SumFunctionOnSet(f, S) = n * Cardinality(S)
<1> DEFINE good == {s \in SUBSET S : SumFunctionOnSet(f, s) = n * Cardinality(s)}
<1>1. ASSUME NEW s \in SUBSET S, \A u \in SUBSET s : u # s => u \in good
      PROVE  s \in good
  <2>1. IsFiniteSet(s) /\ \A x \in s : f[x] \in Int /\ f[x] = n
    BY FS_Subset
  <2>2. CASE s = {}
    <3>1. Cardinality(s) = 0 /\ SumFunctionOnSet(f, s) = 0
      BY <2>1, <2>2, SumsOfParts, FS_EmptySet
    <3> QED BY <3>1
  <2>3. CASE s # {}
    <3>1. PICK x \in s : TRUE
      BY <2>3
    <3>2. SumFunctionOnSet(f, s \ {x}) = n * Cardinality(s \ {x})
      <4>1. s \ {x} \in SUBSET s /\ s \ {x} # s
        BY <3>1
      <4> QED BY <1>1, <4>1
    <3>3. SumFunctionOnSet(f, s) = n + SumFunctionOnSet(f, s \ {x})
      BY <2>1, <3>1, SumsOfParts
    <3>4. Cardinality(s) \in Nat /\ Cardinality(s \ {x}) = Cardinality(s) - 1
      BY <2>1, <3>1, FS_RemoveElement, FS_CardinalityType
    <3>5. \A i, j \in Int : i + i * (j - 1) = i * j
      OBVIOUS
    <3> QED BY <3>2, <3>3, <3>4, <3>5
  <2> QED BY <2>2, <2>3
<1>2. good \in SUBSET (SUBSET S)
  OBVIOUS
<1> HIDE DEF good
<1>3. S \in good
  BY <1>1, <1>2, SubsetsBySet
<1> QED BY <1>3 DEF good

\* The mean of some prices, rounded down, lies between two of them.
LEMMA MeanIsBetween ==
  ASSUME NEW s \in Seq(Int), s # <<>>
  PROVE  LET mean == E!FoldSeq(LAMBDA f, sum : f + sum, 0, s) \div Len(s)
         IN  /\ mean \in Int
             /\ \E i \in 1 .. Len(s) : s[i] <= mean
             /\ \E i \in 1 .. Len(s) : s[i] >= mean
<1> DEFINE total == SumFunctionOnSet(s, DOMAIN s)
           mean == total \div Len(s)
<1>1. E!FoldSeq(LAMBDA f, sum : f + sum, 0, s) = total
  BY DEF E!FoldSeq, E!FoldFunction, E!FoldFunctionOnSet, E!MapThenFoldSet,
         SumFunctionOnSet, FoldFunctionOnSet, MapThenFoldSet
<1>2. /\ DOMAIN s = 1 .. Len(s) /\ Len(s) \in Nat /\ Len(s) > 0
      /\ \A x \in DOMAIN s : s[x] \in Int
  OBVIOUS
<1>3. IsFiniteSet(DOMAIN s) /\ Cardinality(DOMAIN s) = Len(s)
  BY <1>2, FS_Interval
<1>4. total \in Int
  BY <1>2, <1>3, SumsOfParts
<1>5. /\ mean \in Int /\ Len(s) * mean <= total /\ total < Len(s) * mean + Len(s)
  <2> HIDE DEF total
  <2>1. \A p \in Int, q \in Nat :
          q > 0 => p \div q \in Int /\ q * (p \div q) <= p /\ p < q * (p \div q) + q
    OBVIOUS
  <2> QED BY <2>1, <1>2, <1>4
<1>6. ASSUME NEW n \in Int
      PROVE  /\ (\A x \in DOMAIN s : s[x] <= n) => total <= n * Len(s)
             /\ (\A x \in DOMAIN s : s[x] >= n) => total >= n * Len(s)
  <2> DEFINE flat == [x \in DOMAIN s |-> n]
  <2>1. SumFunctionOnSet(flat, DOMAIN s) = n * Len(s)
    <3>1. \A x \in DOMAIN s : flat[x] = n
      OBVIOUS
    <3> HIDE DEF flat
    <3> QED BY <1>3, <3>1, SumsOfSame
  <2>2. (\A x \in DOMAIN s : s[x] <= n) => total <= SumFunctionOnSet(flat, DOMAIN s)
    <3> SUFFICES ASSUME \A x \in DOMAIN s : s[x] <= n
                 PROVE  total <= SumFunctionOnSet(flat, DOMAIN s)
      OBVIOUS
    <3>1. \A x \in DOMAIN s : s[x] \in Int /\ flat[x] \in Int /\ s[x] <= flat[x]
      BY <1>2
    <3> HIDE DEF flat
    <3> QED BY <1>3, <3>1, SumsAreMonotone
  <2>3. (\A x \in DOMAIN s : s[x] >= n) => SumFunctionOnSet(flat, DOMAIN s) <= total
    <3> SUFFICES ASSUME \A x \in DOMAIN s : s[x] >= n
                 PROVE  SumFunctionOnSet(flat, DOMAIN s) <= total
      OBVIOUS
    <3>1. \A x \in DOMAIN s : flat[x] \in Int /\ s[x] \in Int /\ flat[x] <= s[x]
      BY <1>2
    <3> HIDE DEF flat
    <3> QED BY <1>3, <3>1, SumsAreMonotone
  <2>4. SumFunctionOnSet(flat, DOMAIN s) \in Int
    <3>1. n * Len(s) \in Int
      BY <1>2
    <3> QED BY <2>1, <3>1
  <2> HIDE DEF flat, total
  <2> QED BY <2>1, <2>2, <2>3, <2>4, <1>4
<1> HIDE DEF total, mean
<1>7. \A l \in Nat, m \in Int : /\ (m + 1) * l = l * m + l
                                /\ (m - 1) * l = l * m - l
                                /\ l * m \in Int
  OBVIOUS
<1>8. \E i \in 1 .. Len(s) : s[i] <= mean
  <2> SUFFICES ASSUME \A x \in DOMAIN s : ~ (s[x] <= mean) PROVE FALSE
    BY <1>2
  <2>1. mean + 1 \in Int /\ \A x \in DOMAIN s : s[x] >= mean + 1
    BY <1>2, <1>5
  <2>2. total >= (mean + 1) * Len(s)
    BY <1>6, <2>1
  <2> QED BY <2>2, <1>2, <1>4, <1>5, <1>7
<1>9. \E i \in 1 .. Len(s) : s[i] >= mean
  <2> SUFFICES ASSUME \A x \in DOMAIN s : ~ (s[x] >= mean) PROVE FALSE
    BY <1>2
  <2>1. mean - 1 \in Int /\ \A x \in DOMAIN s : s[x] <= mean - 1
    BY <1>2, <1>5
  <2>2. total <= (mean - 1) * Len(s)
    BY <1>6, <2>1
  <2> QED BY <2>2, <1>2, <1>4, <1>5, <1>7
<1> QED BY <1>1, <1>5, <1>8, <1>9 DEF mean

\* The executions since the entry, as a sequence, are those of the set.
LEMMA SinceIsASequence ==
  ASSUME NEW q \in TradeRecords, NEW hist \in Seq(Quotes)
  PROVE  LET s == SubSeq(hist, q.born + 1, Len(hist))
         IN  s \in Seq(Quotes) /\ \A i \in 1 .. Len(s) : s[i] \in Since(q, hist)
<1> DEFINE b == q.born
           s == SubSeq(hist, b + 1, Len(hist))
<1>1. b \in Nat
  BY DEF TradeRecords
<1> HIDE DEF b
<1>2. s \in Seq(Quotes)
  BY <1>1
<1>3. \A i \in 1 .. Len(s) : b + i \in b + 1 .. Len(hist) /\ s[i] = hist[b + i]
  BY <1>1
<1> QED BY <1>2, <1>3 DEF b, Since
\* A level far enough from the entry stays on its side, whatever the tolerance.
LEMMA TolerancesAreSmall ==
  ASSUME E!ExcursionConstants, NEW plan \in TradePlans, NEW exit \in Int,
         plan.kind \in {"equity_long", "equity_short"}
  PROVE  /\ /\ E!HitStop(plan, exit)
            /\ 10000 * E!Max({plan.stop - EntryPrice, EntryPrice - plan.stop}) > 26 * EntryPrice
            => (exit - EntryPrice) * E!Sign(plan) < 0
         /\ /\ E!HitTarget(plan, exit)
            /\ 10000 * E!Max({plan.target - EntryPrice, EntryPrice - plan.target})
                 > 26 * EntryPrice
            => (exit - EntryPrice) * E!Sign(plan) > 0
<1>1. EntryPrice \in Nat /\ EntryPrice > 0
  BY DEF E!ExcursionConstants
<1>2. ASSUME NEW p \in Int
      PROVE  E!Max({p - EntryPrice, EntryPrice - p}) \in {p - EntryPrice, EntryPrice - p}
  <2> DEFINE i == p - EntryPrice
             j == EntryPrice - p
  <2>1. i \in Int /\ j \in Int
    BY <1>1
  <2> HIDE DEF i, j
  <2>2. E!Max({i, j}) \in {i, j}
    BY <2>1, MostOfTwo
  <2> QED BY <2>2 DEF i, j
<1>3. E!HitStop(plan, exit) => plan.stop \in Int
  BY DEF E!HitStop, E!StopIsReal, E!ExcursionConstants
<1>4. E!HitTarget(plan, exit) => plan.target \in Int
  BY DEF E!HitTarget, E!ExcursionConstants
<1>5. CASE plan.kind = "equity_long"
  <2>1. E!Sign(plan) = 1 /\ ~ (plan.kind = "equity_short")
    BY <1>5 DEF E!Sign
  <2>2. E!HitStop(plan, exit) =>
          (EntryPrice - plan.stop) * 1000 >= EntryPrice /\ exit * 10000 <= plan.stop * 10025
    BY <1>1, <1>3, <2>1 DEF E!HitStop, E!StopIsReal
  <2>3. E!HitTarget(plan, exit) =>
          plan.target - EntryPrice > 0 /\ exit * 10000 >= plan.target * 9975
    BY <1>1, <1>4, <2>1 DEF E!HitTarget
  <2>4. (exit - EntryPrice) * E!Sign(plan) = exit - EntryPrice
    BY <1>1, <2>1
  <2>5. ASSUME E!HitStop(plan, exit),
               10000 * E!Max({plan.stop - EntryPrice, EntryPrice - plan.stop}) > 26 * EntryPrice
        PROVE  (exit - EntryPrice) * E!Sign(plan) < 0
    <3> DEFINE m == E!Max({plan.stop - EntryPrice, EntryPrice - plan.stop})
    <3>1. plan.stop \in Int
      BY <1>3, <2>5
    <3>2. m \in {plan.stop - EntryPrice, EntryPrice - plan.stop}
      BY <1>2, <3>1, Zenon
    <3> HIDE DEF m
    <3>3. 10000 * m > 26 * EntryPrice
      BY <2>5 DEF m
    <3>4. exit - EntryPrice < 0
      BY <1>1, <2>2, <2>5, <3>1, <3>2, <3>3
    <3> QED BY <2>4, <3>4
  <2>6. ASSUME E!HitTarget(plan, exit),
               10000 * E!Max({plan.target - EntryPrice, EntryPrice - plan.target})
                 > 26 * EntryPrice
        PROVE  (exit - EntryPrice) * E!Sign(plan) > 0
    <3> DEFINE m == E!Max({plan.target - EntryPrice, EntryPrice - plan.target})
    <3>1. plan.target \in Int
      BY <1>4, <2>6
    <3>2. m \in {plan.target - EntryPrice, EntryPrice - plan.target}
      BY <1>2, <3>1, Zenon
    <3> HIDE DEF m
    <3>3. 10000 * m > 26 * EntryPrice
      BY <2>6 DEF m
    <3>4. exit - EntryPrice > 0
      BY <1>1, <2>3, <2>6, <3>1, <3>2, <3>3
    <3> QED BY <2>4, <3>4
  <2> QED BY <2>5, <2>6
<1>6. CASE plan.kind = "equity_short"
  <2>1. E!Sign(plan) = -1
    BY <1>6 DEF E!Sign
  <2>2. E!HitStop(plan, exit) =>
          (plan.stop - EntryPrice) * 1000 >= EntryPrice /\ exit * 10000 >= plan.stop * 9975
    BY <1>1, <1>3, <1>6, <2>1 DEF E!HitStop, E!StopIsReal
  <2>3. E!HitTarget(plan, exit) =>
          EntryPrice - plan.target > 0 /\ exit * 10000 <= plan.target * 10025
    BY <1>1, <1>4, <1>6, <2>1 DEF E!HitTarget
  <2>4. (exit - EntryPrice) * E!Sign(plan) = EntryPrice - exit
    BY <1>1, <2>1
  <2>5. ASSUME E!HitStop(plan, exit),
               10000 * E!Max({plan.stop - EntryPrice, EntryPrice - plan.stop}) > 26 * EntryPrice
        PROVE  (exit - EntryPrice) * E!Sign(plan) < 0
    <3> DEFINE m == E!Max({plan.stop - EntryPrice, EntryPrice - plan.stop})
    <3>1. plan.stop \in Int
      BY <1>3, <2>5
    <3>2. m \in {plan.stop - EntryPrice, EntryPrice - plan.stop}
      BY <1>2, <3>1, Zenon
    <3> HIDE DEF m
    <3>3. 10000 * m > 26 * EntryPrice
      BY <2>5 DEF m
    <3>4. EntryPrice - exit < 0
      BY <1>1, <2>2, <2>5, <3>1, <3>2, <3>3
    <3> QED BY <2>4, <3>4
  <2>6. ASSUME E!HitTarget(plan, exit),
               10000 * E!Max({plan.target - EntryPrice, EntryPrice - plan.target})
                 > 26 * EntryPrice
        PROVE  (exit - EntryPrice) * E!Sign(plan) > 0
    <3> DEFINE m == E!Max({plan.target - EntryPrice, EntryPrice - plan.target})
    <3>1. plan.target \in Int
      BY <1>4, <2>6
    <3>2. m \in {plan.target - EntryPrice, EntryPrice - plan.target}
      BY <1>2, <3>1, Zenon
    <3> HIDE DEF m
    <3>3. 10000 * m > 26 * EntryPrice
      BY <2>6 DEF m
    <3>4. EntryPrice - exit > 0
      BY <1>1, <2>3, <2>6, <3>1, <3>2, <3>3
    <3> QED BY <2>4, <3>4
  <2> QED BY <2>5, <2>6
<1> QED BY <1>5, <1>6

\* A level that was touched at some price is touched at one further on.
LEMMA HitsGoFurther ==
  ASSUME E!ExcursionConstants, NEW plan \in TradePlans, NEW exit \in Int,
         NEW since \in SUBSET Int, \E f \in since : f <= exit, \E f \in since : f >= exit
  PROVE  /\ E!HitStop(plan, exit) => \E f \in since : E!HitStop(plan, f)
         /\ E!HitTarget(plan, exit) => \E f \in since : E!HitTarget(plan, f)
<1>1. PICK low \in since : low <= exit
  OBVIOUS
<1>2. PICK high \in since : high >= exit
  OBVIOUS
<1>3. E!HitStop(plan, exit) => E!HitStop(plan, low) \/ E!HitStop(plan, high)
  BY <1>1, <1>2 DEF E!HitStop, E!StopIsReal, E!ExcursionConstants
<1>4. E!HitTarget(plan, exit) => E!HitTarget(plan, low) \/ E!HitTarget(plan, high)
  BY <1>1, <1>2 DEF E!HitTarget, E!ExcursionConstants
<1> QED BY <1>1, <1>2, <1>3, <1>4

\* The label of a close is one that its executions earn.
LEMMA ClosesEarn ==
  ASSUME E!ExcursionConstants, NEW q \in TradeRecords, NEW exit \in Int,
         q.plan.kind \in {"equity_long", "equity_short"},
         NEW since \in SUBSET Int, \E f \in since : f <= exit, \E f \in since : f >= exit,
         NEW w, w.plan = q.plan, w.reason = E!Label(q.plan, exit),
         w.profit = (exit - EntryPrice) * E!Sign(q.plan)
  PROVE  E!Earned(w, since) /\ w.reason \in E!Reasons
<1> DEFINE plan == q.plan
<1>1. plan \in TradePlans
  BY DEF TradeRecords
<1>2. /\ E!Label(plan, exit) = "stop_hit" => E!HitStop(plan, exit)
      /\ E!Label(plan, exit) = "target_hit" => E!HitTarget(plan, exit)
      /\ E!Label(plan, exit) \in E!Reasons
  <2>1. E!HitStop(plan, exit) \in BOOLEAN /\ E!HitTarget(plan, exit) \in BOOLEAN
    BY DEF E!HitStop, E!HitTarget
  <2>2. plan.kind # "put"
    OBVIOUS
  <2> HIDE DEF plan
  <2> QED BY <2>1, <2>2 DEF E!Label, E!Reasons
<1>3. E!HitStop(plan, exit) => E!StopIsReal(plan)
  BY DEF E!HitStop
<1>4. /\ E!HitStop(plan, exit) => \E f \in since : E!HitStop(plan, f)
      /\ E!HitTarget(plan, exit) => \E f \in since : E!HitTarget(plan, f)
  BY <1>1, HitsGoFurther
<1>5. /\ /\ E!HitStop(plan, exit)
         /\ 10000 * E!Max({plan.stop - EntryPrice, EntryPrice - plan.stop}) > 26 * EntryPrice
         => w.profit < 0
      /\ /\ E!HitTarget(plan, exit)
         /\ 10000 * E!Max({plan.target - EntryPrice, EntryPrice - plan.target}) > 26 * EntryPrice
         => w.profit > 0
  BY <1>1, TolerancesAreSmall
<1>6. w.plan = plan /\ w.reason = E!Label(plan, exit)
  OBVIOUS
<1> HIDE DEF plan
<1> QED BY <1>2, <1>3, <1>4, <1>5, <1>6 DEF E!Earned
LEMMA EnterKeeps ==
  ASSUME E!ExcursionConstants, ExcursionInv,
         NEW r \in TradeRows, trade[r] = None, NEW plan \in TradePlans, E!Enter(r, plan)
  PROVE  ExcursionInv'
<1> DEFINE fresh == [plan |-> plan, born |-> Len(fills), reason |-> None, mfe |-> None,
                     mae |-> None, up |-> 0, down |-> 0, profit |-> None]
<1>1. /\ market = EntryPrice /\ trade' = [trade EXCEPT ![r] = fresh]
      /\ UNCHANGED <<market, option, fills, missing, own, mixed>>
  BY DEF E!Enter
<1>2. fresh \in TradeRecords
  BY DEF TradeRecords, E!Reasons, ExcursionInv, TradesTyped
<1>3. holding' \in -MaxHeld .. MaxHeld
  <2>1. E!Sign(plan) \in {-1, 1} /\ holding \in Int /\ MaxHeld \in Nat
    BY DEF E!Sign, ExcursionInv, TradesTyped, E!ExcursionConstants
  <2>2. CASE plan.kind = "put"
    BY <2>2 DEF E!Enter, ExcursionInv, TradesTyped
  <2>3. CASE plan.kind # "put"
    <3>1. holding' = holding + E!Sign(plan) /\ holding' * E!Sign(plan) \in 1 .. MaxHeld
      BY <2>3 DEF E!Enter
    <3>2. \A h \in Int : h * 1 = h /\ h * (-1) = -h
      OBVIOUS
    <3>3. holding' \in Int
      BY <2>1, <3>1
    <3>4. holding' \in 1 .. MaxHeld \/ -holding' \in 1 .. MaxHeld
      BY <2>1, <3>1, <3>2, <3>3
    <3>5. \A h \in Int, m \in Nat : h \in 1 .. m \/ -h \in 1 .. m => h \in -m .. m
      OBVIOUS
    <3> QED BY <2>1, <3>3, <3>4, <3>5
  <2> QED BY <2>2, <2>3
<1>4. /\ trade \in [TradeRows -> TradeRecords \cup {None}]
      /\ trade' \in [TradeRows -> TradeRecords \cup {None}]
      /\ trade'[r] = fresh /\ \A x \in TradeRows \ {r} : trade'[x] = trade[x]
  BY <1>1, <1>2 DEF ExcursionInv, TradesTyped
<1>5. TradesTyped'
  <2>1. missing' \subseteq E!Open'
    BY <1>1, <1>4 DEF ExcursionInv, TradesTyped, E!Open
  <2>2. \A x \in TradeRows : trade'[x] # None =>
          /\ trade'[x].down <= 0 /\ trade'[x].up >= 0
          /\ (trade'[x].mfe = None <=> trade'[x].mae = None)
    <3>1. \A x \in TradeRows \ {r} : trade'[x] # None =>
            /\ trade'[x].down <= 0 /\ trade'[x].up >= 0
            /\ (trade'[x].mfe = None <=> trade'[x].mae = None)
      <4> HIDE DEF fresh
      <4> QED BY <1>4 DEF ExcursionInv, TradesTyped
    <3>2. fresh.down = 0 /\ fresh.up = 0 /\ fresh.mfe = None /\ fresh.mae = None
      OBVIOUS
    <3> HIDE DEF fresh
    <3> QED BY <1>4, <3>1, <3>2
  <2> HIDE DEF fresh
  <2> QED BY <1>1, <1>3, <1>4, <2>1, <2>2 DEF ExcursionInv, TradesTyped
<1>6. ASSUME NEW x \in TradeRows, trade'[x] # None
      PROVE  /\ trade'[x].born <= Len(fills)
             /\ trade'[x].reason = None /\ trade'[x].plan.kind \in {"equity_long", "equity_short"}
                =>
                  /\ own[x].up >= OwnMark(trade'[x], market)
                  /\ own[x].down <= OwnMark(trade'[x], market)
             /\ OwnMeasure(trade'[x], own[x], mixed, x)
             /\ E!Earned(trade'[x], Since(trade'[x], fills))
  <2>1. CASE x # r
    BY <1>4, <1>6, <2>1 DEF ExcursionInv
  <2>2. CASE x = r
    <3>1. Len(fills) \in Nat /\ own[x].up >= 0 /\ own[x].down <= 0 /\ EntryPrice \in Int
      BY DEF ExcursionInv, TradesTyped, E!ExcursionConstants
    <3>2. trade'[x] = fresh
      BY <1>4, <2>2
    <3>3. E!Sign(fresh.plan) \in {-1, 1}
      BY DEF E!Sign
    <3>4. OwnMark(fresh, market) = 0
      BY <1>1, <3>1, <3>3 DEF OwnMark
    <3>5. OwnMeasure(fresh, own[x], mixed, x)
      BY <3>1 DEF OwnMeasure
    <3>6. E!Earned(fresh, Since(fresh, fills))
      <4>1. None \notin {"stop_hit", "target_hit"}
        BY DEF E!ExcursionConstants, E!Reasons
      <4> QED BY <4>1 DEF E!Earned
    <3>7. fresh.born = Len(fills)
      OBVIOUS
    <3> HIDE DEF fresh
    <3> QED BY <3>1, <3>2, <3>4, <3>5, <3>6, <3>7
  <2> QED BY <2>1, <2>2
<1> HIDE DEF fresh
<1>7. \A x \in TradeRows : own'[x].up >= 0 /\ own'[x].down <= 0
  BY <1>1 DEF ExcursionInv
<1> QED BY <1>1, <1>5, <1>6, <1>7 DEF ExcursionInv

LEMMA PriceMovesKeeps ==
  ASSUME E!ExcursionConstants, ExcursionInv, NEW p \in Quotes, E!PriceMoves(p)
  PROVE  ExcursionInv'
<1>1. /\ market' = p /\ UNCHANGED <<holding, option, fills, trade, missing, mixed>>
      /\ own' = [r \in TradeRows |->
           IF r \notin E!Open \/ ~E!IsEquity(r) THEN own[r]
           ELSE LET mark == (p - EntryPrice) * E!Sign(trade[r].plan)
                IN  [up |-> E!Max({own[r].up, mark}), down |-> E!Min({own[r].down, mark})]]
  BY DEF E!PriceMoves
<1>2. ASSUME NEW r \in TradeRows
      PROVE  /\ own[r] \in [up : Int, down : Int] /\ own'[r] \in [up : Int, down : Int]
             /\ own'[r].up >= own[r].up /\ own'[r].down <= own[r].down
             /\ r \in E!Open /\ E!IsEquity(r) =>
                  own'[r].up >= OwnMark(trade[r], p) /\ own'[r].down <= OwnMark(trade[r], p)
  <2>1. own[r] \in [up : Int, down : Int]
    BY DEF ExcursionInv, TradesTyped
  <2>2. CASE r \notin E!Open \/ ~E!IsEquity(r)
    <3>1. own'[r] = own[r]
      BY <1>1, <2>2
    <3> QED BY <2>1, <2>2, <3>1
  <2>3. CASE r \in E!Open /\ E!IsEquity(r)
    <3> DEFINE mark == (p - EntryPrice) * E!Sign(trade[r].plan)
    <3>1. mark \in Int
      <4>1. E!Sign(trade[r].plan) \in {-1, 1}
        BY DEF E!Sign
      <4>2. p - EntryPrice \in Int
        BY DEF E!ExcursionConstants
      <4> QED BY <4>1, <4>2
    <3>2. own'[r] = [up |-> E!Max({own[r].up, mark}), down |-> E!Min({own[r].down, mark})]
      BY <1>1, <2>3
    <3>3. mark = OwnMark(trade[r], p)
      BY DEF OwnMark
    <3> HIDE DEF mark
    <3>4. /\ E!Max({own[r].up, mark}) \in Int /\ E!Max({own[r].up, mark}) >= own[r].up
          /\ E!Max({own[r].up, mark}) >= mark
          /\ E!Min({own[r].down, mark}) \in Int /\ E!Min({own[r].down, mark}) <= own[r].down
          /\ E!Min({own[r].down, mark}) <= mark
      <4>1. own[r].up \in Int /\ own[r].down \in Int
        BY <2>1
      <4>2. PICK u, d : u = own[r].up /\ d = own[r].down
        OBVIOUS
      <4>3. u \in Int /\ d \in Int
        BY <4>1, <4>2
      <4>4. /\ E!Max({u, mark}) \in {u, mark} /\ E!Max({u, mark}) >= u /\ E!Max({u, mark}) >= mark
            /\ E!Min({d, mark}) \in {d, mark} /\ E!Min({d, mark}) <= d /\ E!Min({d, mark}) <= mark
        BY <3>1, <4>3, MostOfTwo
      <4>5. E!Max({u, mark}) \in Int /\ E!Min({d, mark}) \in Int
        BY <3>1, <4>3, <4>4
      <4> QED BY <4>2, <4>4, <4>5
    <3> QED BY <2>1, <3>2, <3>3, <3>4
  <2> QED BY <2>2, <2>3
<1>3. own' \in [TradeRows -> [up : Int, down : Int]]
  BY <1>1, <1>2
<1>4. TradesTyped'
  <2>1. E!Open' = E!Open
    BY <1>1 DEF E!Open
  <2> QED BY <1>1, <1>3, <2>1 DEF ExcursionInv, TradesTyped
<1>5. \A r \in TradeRows : own'[r].up >= 0 /\ own'[r].down <= 0
  BY <1>2 DEF ExcursionInv
<1>6. ASSUME NEW r \in TradeRows, trade[r] # None
      PROVE  /\ trade[r].reason = None /\ trade[r].plan.kind \in {"equity_long", "equity_short"} =>
                  own'[r].up >= OwnMark(trade[r], p) /\ own'[r].down <= OwnMark(trade[r], p)
             /\ OwnMeasure(trade[r], own'[r], mixed, r)
  <2>1. trade[r].reason = None /\ trade[r].plan.kind \in {"equity_long", "equity_short"}
          => r \in E!Open /\ E!IsEquity(r)
    BY <1>6 DEF E!Open, E!IsEquity
  <2>2. OwnMeasure(trade[r], own'[r], mixed, r)
    <3>1. OwnMeasure(trade[r], own[r], mixed, r)
      BY <1>6 DEF ExcursionInv
    <3>2. /\ trade[r].up \in Int /\ trade[r].down \in Int
          /\ trade[r].mfe \in Int \cup {None} /\ trade[r].mae \in Int \cup {None}
          /\ (trade[r].mfe = None <=> trade[r].mae = None)
      BY <1>6 DEF ExcursionInv, TradesTyped, TradeRecords
    <3> QED BY <1>2, <3>1, <3>2 DEF OwnMeasure
  <2> QED BY <1>2, <2>1, <2>2
<1> QED BY <1>1, <1>4, <1>5, <1>6 DEF ExcursionInv

LEMMA OthersKeepTrades ==
  ASSUME E!ExcursionConstants, ExcursionInv,
         E!OptionMoves \/ E!ShareCloses \/ UNCHANGED E!vars
  PROVE  ExcursionInv'
<1>1. CASE E!OptionMoves
  <2>1. /\ option' \in OptionMarks \cup {None}
        /\ UNCHANGED <<market, holding, fills, trade, missing, own, mixed>>
    BY <1>1 DEF E!OptionMoves
  <2> QED BY <2>1 DEF ExcursionInv, TradesTyped, E!Open
<1>2. CASE E!ShareCloses
  <2>1. /\ holding # 0 /\ Len(fills) < MaxFills
        /\ holding' = IF holding > 0 THEN holding - 1 ELSE holding + 1
        /\ fills' = Append(fills, market)
        /\ UNCHANGED <<market, option, trade, missing, own, mixed>>
    BY <1>2 DEF E!ShareCloses, E!Held
  <2>2. /\ fills \in Seq(Quotes) /\ market \in Quotes
        /\ fills' \in Seq(Quotes) /\ Len(fills') = Len(fills) + 1 /\ Len(fills') <= MaxFills
    BY <2>1 DEF ExcursionInv, TradesTyped, E!ExcursionConstants
  <2>3. holding' \in -MaxHeld .. MaxHeld
    BY <2>1 DEF ExcursionInv, TradesTyped, E!ExcursionConstants
  <2>4. TradesTyped'
    BY <2>1, <2>2, <2>3 DEF ExcursionInv, TradesTyped, E!Open
  <2>5. ASSUME NEW r \in TradeRows, trade[r] # None
        PROVE  trade[r].born <= Len(fills') /\ E!Earned(trade[r], Since(trade[r], fills'))
    <3>1. /\ trade[r] \in TradeRecords /\ trade[r].born <= Len(fills)
          /\ E!Earned(trade[r], Since(trade[r], fills))
      BY <2>5 DEF ExcursionInv, TradesTyped
    <3>2. trade[r].born \in Nat
      BY <3>1 DEF TradeRecords
    <3>3. E!Earned(trade[r], Since(trade[r], Append(fills, market)))
      BY <2>2, <3>1, EarnedLater
    <3> QED BY <2>1, <2>2, <3>1, <3>2, <3>3
  <2> QED BY <2>1, <2>4, <2>5 DEF ExcursionInv
<1>3. CASE UNCHANGED E!vars
  BY <1>3 DEF E!vars, ExcursionInv, TradesTyped, E!Open
<1> QED BY <1>1, <1>2, <1>3

LEMMA NoneIsNoTrade == ASSUME E!ExcursionConstants PROVE None \notin TradeRecords /\ None \notin Int
BY DEF E!ExcursionConstants, TradeRecords

\* What a pass reads as the mark of all that is held is a number; with nothing but
\* shares it is theirs.
LEMMA MarksFit ==
  ASSUME E!ExcursionConstants, TradesTyped, NEW marked \in SUBSET {"shares", "option"},
         E!UnderlyingMark(marked) # None
  PROVE  /\ E!UnderlyingMark(marked) \in Int
         /\ option = None => E!Held /\ E!UnderlyingMark(marked) = E!SharesMark
<1> DEFINE parts == (IF E!Held /\ "shares" \in marked THEN {"shares"} ELSE {})
                    \cup (IF option # None /\ "option" \in marked THEN {"option"} ELSE {})
           marks == [shares |-> E!SharesMark, option |-> option]
<1>1. parts # {} /\ E!UnderlyingMark(marked) = SumFunctionOnSet(marks, parts)
  <2>1. parts # {} /\ E!UnderlyingMark(marked) = E!SumFunctionOnSet(marks, parts)
    BY DEF E!UnderlyingMark
  <2>2. E!SumFunctionOnSet(marks, parts) = SumFunctionOnSet(marks, parts)
    <3> HIDE DEF marks, parts
    <3> QED BY DEF E!SumFunctionOnSet, E!FoldFunctionOnSet, E!MapThenFoldSet,
                   SumFunctionOnSet, FoldFunctionOnSet, MapThenFoldSet
  <2> QED BY <2>1, <2>2
<1>2. E!SharesMark \in Int
  <2>1. market - EntryPrice \in Int /\ holding \in Int
    BY DEF TradesTyped, E!ExcursionConstants
  <2> QED BY <2>1 DEF E!SharesMark
<1>3. parts \in SUBSET {"shares", "option"} /\ \A x \in parts : marks[x] \in Int
  <2>1. "option" \in parts => option \in Int
    BY DEF TradesTyped, E!ExcursionConstants
  <2>2. marks["shares"] \in Int /\ marks["option"] = option
    BY <1>2
  <2> QED BY <2>1, <2>2
<1>4. IsFiniteSet(parts)
  BY <1>3, FS_Singleton, FS_Union, FS_EmptySet
<1>5. SumFunctionOnSet(marks, parts) \in Int
  <2> HIDE DEF marks, parts
  <2> QED BY <1>3, <1>4, SumsOfParts
<1>6. ASSUME option = None PROVE E!Held /\ SumFunctionOnSet(marks, parts) = E!SharesMark
  <2>1. E!Held /\ parts = {"shares"} /\ marks["shares"] = E!SharesMark
    BY <1>1, <1>6
  <2>2. parts \ {"shares"} = {}
    BY <2>1
  <2> HIDE DEF marks, parts
  <2>3. /\ SumFunctionOnSet(marks, parts) = marks["shares"] + SumFunctionOnSet(marks, {})
        /\ SumFunctionOnSet(marks, {}) = 0
    BY <1>3, <1>4, <2>1, <2>2, SumsOfParts
  <2> QED BY <1>2, <2>1, <2>3
<1> QED BY <1>1, <1>5, <1>6

LEMMA OneInASet == \A x : E!Cardinality({x}) = 1
<1>1. \A S : E!Cardinality(S) = Cardinality(S)
  BY DEF E!Cardinality, E!IsFiniteSet, Cardinality, IsFiniteSet
<1> QED BY <1>1, FS_Singleton

LEMMA TrackKeeps ==
  ASSUME E!ExcursionConstants, ExcursionInv, E!Track
  PROVE  ExcursionInv'
<1>1. PICK marked \in SUBSET {"shares", "option"} :
        trade' = [r \in TradeRows |->
          IF E!UnderlyingMark(marked) # None /\ r \in E!Unambiguous
          THEN E!Measured(r, E!UnderlyingMark(marked)) ELSE trade[r]]
  BY DEF E!Track
<1> DEFINE mark == E!UnderlyingMark(marked)
<1>2. /\ UNCHANGED <<market, holding, option, fills, missing, own>>
      /\ mixed' = IF option = None /\ E!Matched
                  THEN mixed ELSE [mixed EXCEPT !.track = @ \cup E!Open]
  BY DEF E!Track
<1>3. TradesTyped
  BY DEF ExcursionInv
<1>4. mark # None => mark \in Int /\ (option = None => E!Held /\ mark = E!SharesMark)
  BY <1>3, MarksFit
<1> HIDE DEF mark
<1>5. ASSUME NEW r \in TradeRows, trade'[r] # trade[r]
      PROVE  /\ mark \in Int /\ mark # None /\ E!Open = {r} /\ r \in E!Open
             /\ trade[r] \in TradeRecords /\ trade[r] # None
             /\ trade'[r] = [trade[r] EXCEPT !.up = E!Max({@, mark, 0}),
                                             !.down = E!Min({@, mark, 0})]
  <2>1. mark # None /\ r \in E!Unambiguous /\ trade'[r] = E!Measured(r, mark)
    BY <1>1, <1>5 DEF mark
  <2> QED BY <1>3, <1>4, <2>1 DEF E!Unambiguous, E!Measured, E!Open, TradesTyped
<1>6. ASSUME NEW r \in TradeRows, trade'[r] # trade[r]
      PROVE  \E u, d \in Int :
               /\ trade'[r] = [trade[r] EXCEPT !.up = u, !.down = d]
               /\ u \in {trade[r].up, mark, 0} /\ d \in {trade[r].down, mark, 0} /\ u >= 0 /\ d <= 0
  <2>1. trade[r].up \in Int /\ trade[r].down \in Int
    BY <1>5, <1>6 DEF TradeRecords
  <2>2. PICK u, d : u = trade[r].up /\ d = trade[r].down
    OBVIOUS
  <2>3. u \in Int /\ d \in Int /\ mark \in Int
    BY <1>5, <1>6, <2>1, <2>2
  <2>4. /\ E!Max({u, mark, 0}) \in {u, mark, 0} /\ E!Max({u, mark, 0}) >= 0
        /\ E!Min({d, mark, 0}) \in {d, mark, 0} /\ E!Min({d, mark, 0}) <= 0
    <3>1. PICK zero \in Int : zero = 0
      OBVIOUS
    <3>2. /\ E!Max({u, mark, zero}) \in {u, mark, zero} /\ E!Max({u, mark, zero}) >= zero
          /\ E!Min({d, mark, zero}) \in {d, mark, zero} /\ E!Min({d, mark, zero}) <= zero
      BY <2>3, MostOfThree
    <3> QED BY <3>1, <3>2
  <2>5. E!Max({u, mark, 0}) \in Int /\ E!Min({d, mark, 0}) \in Int
    BY <2>3, <2>4
  <2>6. trade'[r] = [trade[r] EXCEPT !.up = E!Max({u, mark, 0}), !.down = E!Min({d, mark, 0})]
    BY <1>5, <1>6, <2>2
  <2> QED BY <2>2, <2>4, <2>5, <2>6
<1>7. ASSUME NEW r \in TradeRows
      PROVE  /\ trade'[r] \in TradeRecords \cup {None}
             /\ trade'[r] # None <=> trade[r] # None
             /\ trade'[r] # None =>
                  /\ trade'[r].plan = trade[r].plan /\ trade'[r].born = trade[r].born
                  /\ trade'[r].reason = trade[r].reason /\ trade'[r].profit = trade[r].profit
                  /\ trade'[r].mfe = trade[r].mfe /\ trade'[r].mae = trade[r].mae
                  /\ trade'[r].up >= 0 /\ trade'[r].down <= 0
  <2>1. CASE trade'[r] = trade[r]
    BY <1>3, <2>1 DEF TradesTyped
  <2>2. CASE trade'[r] # trade[r]
    <3>1. PICK u, d \in Int : /\ trade'[r] = [trade[r] EXCEPT !.up = u, !.down = d]
                             /\ u >= 0 /\ d <= 0
      BY <1>6, <2>2
    <3>2. trade[r] \in TradeRecords /\ trade[r] # None
      BY <1>5, <2>2
    <3>3. trade'[r] \in TradeRecords
      BY <3>1, <3>2 DEF TradeRecords
    <3>4. trade'[r] # None
      BY <3>3, NoneIsNoTrade
    <3>5. /\ trade'[r].plan = trade[r].plan /\ trade'[r].born = trade[r].born
          /\ trade'[r].reason = trade[r].reason /\ trade'[r].profit = trade[r].profit
          /\ trade'[r].mfe = trade[r].mfe /\ trade'[r].mae = trade[r].mae
          /\ trade'[r].up = u /\ trade'[r].down = d
      BY <3>1, <3>2 DEF TradeRecords
    <3> QED BY <3>1, <3>2, <3>3, <3>4, <3>5
  <2> QED BY <2>1, <2>2
<1>8. E!Open' = E!Open
  BY <1>7 DEF E!Open
<1>9. TradesTyped'
  <2>1. trade' \in [TradeRows -> TradeRecords \cup {None}]
    BY <1>1, <1>7
  <2>2. mixed' \in [track : SUBSET TradeRows, poll : SUBSET TradeRows]
    BY <1>2, <1>3 DEF TradesTyped, E!Open
  <2>3. \A r \in TradeRows : trade'[r] # None =>
          /\ trade'[r].down <= 0 /\ trade'[r].up >= 0
          /\ (trade'[r].mfe = None <=> trade'[r].mae = None)
    BY <1>3, <1>7 DEF TradesTyped
  <2> QED BY <1>2, <1>3, <1>8, <2>1, <2>2, <2>3 DEF TradesTyped
<1>10. ASSUME NEW r \in TradeRows, trade'[r] # None
       PROVE  OwnMeasure(trade'[r], own[r], mixed', r)
  <2>1. OwnMeasure(trade[r], own[r], mixed, r) /\ trade[r] # None
    BY <1>7, <1>10 DEF ExcursionInv
  <2>2. r \in mixed.track => r \in mixed'.track
    BY <1>2, <1>3 DEF TradesTyped
  <2>3. mixed'.poll = mixed.poll
    BY <1>2, <1>3 DEF TradesTyped
  <2>4. CASE trade'[r] = trade[r]
    BY <2>1, <2>2, <2>3, <2>4 DEF OwnMeasure
  <2>5. CASE trade'[r] # trade[r]
    <3> SUFFICES ASSUME trade[r].plan.kind \in {"equity_long", "equity_short"},
                        r \notin mixed'.track
                 PROVE  trade'[r].up <= own[r].up /\ trade'[r].down >= own[r].down
      BY <1>7, <1>10, <2>1, <2>3 DEF OwnMeasure
    <3>1. r \in E!Open /\ E!Open = {r} /\ mark \in Int /\ mark # None /\ trade[r] \in TradeRecords
      BY <1>5, <2>5
    <3>2. option = None /\ E!Matched /\ mixed' = mixed
      <4>1. mixed' = [mixed EXCEPT !.track = @ \cup E!Open] => r \in mixed'.track
        BY <1>3, <3>1 DEF TradesTyped
      <4> QED BY <1>2, <4>1
    <3>3. E!IsEquity(r)
      BY <2>1 DEF E!IsEquity
    <3>4. E!Held /\ mark = E!SharesMark
      BY <1>4, <3>1, <3>2
    <3>5. holding * E!Sign(trade[r].plan) > 0 /\ E!Max({holding, -holding}) = 1
      <4>1. {x \in E!Open : E!IsEquity(x)} = {r}
        BY <3>1, <3>3
      <4> QED BY <3>1, <3>2, <3>3, <3>4, <4>1, OneInASet DEF E!Matched
    <3>6. holding = E!Sign(trade[r].plan)
      <4>1. holding \in Int /\ -holding \in Int
        BY <1>3 DEF TradesTyped
      <4>2. PICK h, n : h = holding /\ n = -holding
        OBVIOUS
      <4>3. E!Max({h, n}) \in {h, n} /\ E!Max({h, n}) >= h /\ E!Max({h, n}) >= n
        BY <4>1, <4>2, MostOfTwo
      <4>4. h = 1 \/ h = -1
        BY <3>5, <4>1, <4>2, <4>3
      <4>5. E!Sign(trade[r].plan) \in {-1, 1}
        BY DEF E!Sign
      <4> QED BY <3>5, <4>2, <4>4, <4>5
    <3>7. mark = OwnMark(trade[r], market)
      BY <3>4, <3>6 DEF E!SharesMark, OwnMark
    <3>8. own[r].up >= mark /\ own[r].down <= mark /\ own[r].up >= 0 /\ own[r].down <= 0
      BY <2>1, <3>1, <3>7 DEF ExcursionInv, E!Open
    <3>9. trade[r].up <= own[r].up /\ trade[r].down >= own[r].down
      BY <2>1, <3>2 DEF OwnMeasure
    <3>10. PICK u, d \in Int :
             /\ trade'[r] = [trade[r] EXCEPT !.up = u, !.down = d]
             /\ u \in {trade[r].up, mark, 0} /\ d \in {trade[r].down, mark, 0}
      BY <1>6, <2>5
    <3>11. trade'[r].up = u /\ trade'[r].down = d
      BY <3>1, <3>10 DEF TradeRecords
    <3> QED BY <3>8, <3>9, <3>10, <3>11
  <2> QED BY <2>4, <2>5
<1>11. ASSUME NEW r \in TradeRows, trade'[r] # None
       PROVE  E!Earned(trade'[r], Since(trade'[r], fills)) /\ trade'[r].born <= Len(fills)
  <2>1. trade[r] # None /\ E!Earned(trade[r], Since(trade[r], fills)) /\ trade[r].born <= Len(fills)
    BY <1>7, <1>11 DEF ExcursionInv
  <2>2. Since(trade'[r], fills) = Since(trade[r], fills)
    BY <1>7, <1>11 DEF Since
  <2>3. E!Earned(trade'[r], Since(trade[r], fills))
    BY <1>7, <1>11, <2>1, EarnedSame
  <2> QED BY <1>7, <1>11, <2>1, <2>2, <2>3
<1>12. ASSUME NEW r \in TradeRows, trade'[r] # None, trade'[r].reason = None,
              trade'[r].plan.kind \in {"equity_long", "equity_short"}
       PROVE  own[r].up >= OwnMark(trade'[r], market) /\ own[r].down <= OwnMark(trade'[r], market)
  BY <1>7, <1>12 DEF ExcursionInv, OwnMark
<1>13. \A r \in TradeRows : own[r].up >= 0 /\ own[r].down <= 0
  BY DEF ExcursionInv
<1> QED BY <1>2, <1>9, <1>10, <1>11, <1>12, <1>13 DEF ExcursionInv
\* An exit is the mean of executions since the entry.
LEMMA ExitsAreMeans ==
  ASSUME E!ExcursionConstants, TradesTyped, NEW r \in TradeRows, trade[r] \in TradeRecords,
         NEW known \in BOOLEAN, E!ExitPrice(r, known) # None
  PROVE  /\ E!ExitPrice(r, known) \in Int
         /\ E!IsEquity(r)
         /\ Since(trade[r], fills) \in SUBSET Int
         /\ \E f \in Since(trade[r], fills) : f <= E!ExitPrice(r, known)
         /\ \E f \in Since(trade[r], fills) : f >= E!ExitPrice(r, known)
<1> DEFINE since == SubSeq(fills, trade[r].born + 1, Len(fills))
           mean == E!FoldSeq(LAMBDA f, sum : f + sum, 0, since) \div Len(since)
<1>1. E!IsEquity(r) /\ since # <<>> /\ E!ExitPrice(r, known) = mean
  BY DEF E!ExitPrice
<1>2. fills \in Seq(Quotes) /\ Quotes \subseteq Int
  BY DEF TradesTyped, E!ExcursionConstants
<1>3. since \in Seq(Quotes) /\ \A i \in 1 .. Len(since) : since[i] \in Since(trade[r], fills)
  BY <1>2, SinceIsASequence
<1>4. Since(trade[r], fills) \in SUBSET Int
  <2>1. trade[r].born \in Nat
    BY DEF TradeRecords
  <2>2. \A i \in trade[r].born + 1 .. Len(fills) : fills[i] \in Quotes
    BY <1>2, <2>1
  <2> QED BY <1>2, <2>2 DEF Since
<1>5. since \in Seq(Int)
  <2> HIDE DEF since
  <2>1. /\ Len(since) \in Nat /\ since = [i \in 1 .. Len(since) |-> since[i]]
        /\ \A i \in 1 .. Len(since) : since[i] \in Int
    BY <1>2, <1>3
  <2> QED BY <2>1
<1> HIDE DEF since
<1>6. /\ mean \in Int
      /\ \E i \in 1 .. Len(since) : since[i] <= mean
      /\ \E i \in 1 .. Len(since) : since[i] >= mean
  BY <1>1, <1>5, MeanIsBetween
<1> HIDE DEF mean
<1> QED BY <1>1, <1>3, <1>4, <1>6

\* What a pass of the poller makes of a row.
Polled(r, q, known) ==
  \/ q = trade[r]
  \/ /\ r \in E!Open /\ E!Held /\ q = E!Advanced(r)
  \/ /\ r \in E!Open /\ ~E!Held /\ E!ExitPrice(r, known) # None
     /\ q = E!Closed(r, E!ExitPrice(r, known))
  \/ /\ r \in E!Open /\ ~E!Held
     /\ q = [trade[r] EXCEPT !.reason = "closed_price_unavailable"]

LEMMA PolledFits ==
  ASSUME E!ExcursionConstants, ExcursionInv, NEW r \in TradeRows, NEW known \in BOOLEAN,
         NEW q, Polled(r, q, known)
  PROVE  /\ q \in TradeRecords \cup {None}
         /\ q # None <=> trade[r] # None
         /\ q # None =>
              /\ q.plan = trade[r].plan /\ q.born = trade[r].born
              /\ q.up = trade[r].up /\ q.down = trade[r].down
              /\ (q.mfe = None <=> q.mae = None)
              /\ q.reason = None => trade[r].reason = None
              /\ E!Earned(q, Since(trade[r], fills))
              /\ q.mfe # trade[r].mfe \/ q.mae # trade[r].mae =>
                   /\ r \in E!Open /\ E!Held
                   /\ q.mfe \in {trade[r].mfe, E!SharesMark} /\ q.mae \in {trade[r].mae, E!SharesMark}
                   /\ q.mfe # None
                   /\ trade[r].mfe = None => q.mfe = E!SharesMark /\ q.mae = E!SharesMark
<1>1. TradesTyped
  BY DEF ExcursionInv
<1>2. CASE q = trade[r]
  <2>1. q # None => E!Earned(q, Since(trade[r], fills)) /\ (q.mfe = None <=> q.mae = None)
    BY <1>1, <1>2 DEF ExcursionInv, TradesTyped
  <2> QED BY <1>1, <1>2, <2>1 DEF TradesTyped
<1>3. ASSUME r \in E!Open
      PROVE  /\ trade[r] \in TradeRecords /\ trade[r] # None /\ trade[r].reason = None
             /\ (trade[r].mfe = None <=> trade[r].mae = None)
             /\ E!Earned(trade[r], Since(trade[r], fills))
  BY <1>1, <1>3 DEF E!Open, TradesTyped, ExcursionInv
<1>4. CASE r \in E!Open /\ E!Held /\ q = E!Advanced(r)
  <2>1. E!SharesMark \in Int
    <3>1. market - EntryPrice \in Int /\ holding \in Int
      BY <1>1 DEF TradesTyped, E!ExcursionConstants
    <3> QED BY <3>1 DEF E!SharesMark
  <2>2. PICK f, a : q = [trade[r] EXCEPT !.mfe = f, !.mae = a]
                 /\ f = (IF trade[r].mfe = None \/ E!SharesMark > trade[r].mfe THEN E!SharesMark
                         ELSE trade[r].mfe)
                 /\ a = (IF trade[r].mae = None \/ E!SharesMark < trade[r].mae THEN E!SharesMark
                         ELSE trade[r].mae)
    BY <1>4 DEF E!Advanced
  <2>3. trade[r] \in TradeRecords
    BY <1>3, <1>4
  <2>4. /\ f \in Int /\ a \in Int /\ f # None /\ a # None
        /\ f \in {trade[r].mfe, E!SharesMark} /\ a \in {trade[r].mae, E!SharesMark}
        /\ trade[r].mfe = None => f = E!SharesMark /\ a = E!SharesMark
    <3>1. trade[r].mfe \in Int \cup {None} /\ trade[r].mae \in Int \cup {None}
      BY <2>3 DEF TradeRecords
    <3>2. f \in Int /\ a \in Int
      BY <2>1, <2>2, <3>1
    <3>3. trade[r].mfe = None => f = E!SharesMark /\ a = E!SharesMark
      BY <1>3, <1>4, <2>2
    <3> QED BY <2>2, <3>2, <3>3, NoneIsNoTrade
  <2>5. /\ q \in TradeRecords /\ q.mfe = f /\ q.mae = a
        /\ q.plan = trade[r].plan /\ q.born = trade[r].born /\ q.reason = trade[r].reason
        /\ q.profit = trade[r].profit /\ q.up = trade[r].up /\ q.down = trade[r].down
    BY <2>2, <2>3, <2>4 DEF TradeRecords
  <2>6. E!Earned(q, Since(trade[r], fills))
    BY <1>3, <1>4, <2>5, EarnedSame
  <2>7. q # None /\ trade[r] # None /\ q.mfe # None /\ q.mae # None
    BY <1>3, <1>4, <2>4, <2>5, NoneIsNoTrade
  <2>8. /\ q.mfe \in {trade[r].mfe, E!SharesMark} /\ q.mae \in {trade[r].mae, E!SharesMark}
        /\ trade[r].mfe = None => q.mfe = E!SharesMark /\ q.mae = E!SharesMark
    BY <2>4, <2>5
  <2>9. q.reason = None => trade[r].reason = None
    BY <2>5
  <2> QED BY <1>4, <2>5, <2>6, <2>7, <2>8, <2>9
<1>5. CASE /\ r \in E!Open /\ ~E!Held /\ E!ExitPrice(r, known) # None
           /\ q = E!Closed(r, E!ExitPrice(r, known))
  <2>1. PICK exit : exit = E!ExitPrice(r, known)
    OBVIOUS
  <2>2. /\ exit \in Int /\ E!IsEquity(r) /\ Since(trade[r], fills) \in SUBSET Int
        /\ \E f \in Since(trade[r], fills) : f <= exit
        /\ \E f \in Since(trade[r], fills) : f >= exit
    BY <1>1, <1>3, <1>5, <2>1, ExitsAreMeans
  <2>3. trade[r] \in TradeRecords /\ trade[r].plan.kind \in {"equity_long", "equity_short"}
    BY <1>3, <1>5, <2>2 DEF E!IsEquity
  <2>4. PICK label, profit :
          /\ label = E!Label(trade[r].plan, exit)
          /\ profit = (exit - EntryPrice) * E!Sign(trade[r].plan)
          /\ q = [trade[r] EXCEPT !.reason = label, !.profit = profit]
    BY <1>5, <2>1 DEF E!Closed
  <2>5. profit \in Int
    <3>1. E!Sign(trade[r].plan) \in {-1, 1} /\ exit - EntryPrice \in Int
      BY <2>2 DEF E!Sign, E!ExcursionConstants
    <3> QED BY <2>4, <3>1
  <2>6. /\ q.plan = trade[r].plan /\ q.born = trade[r].born /\ q.reason = label
        /\ q.profit = profit /\ q.up = trade[r].up /\ q.down = trade[r].down
        /\ q.mfe = trade[r].mfe /\ q.mae = trade[r].mae
    BY <2>3, <2>4 DEF TradeRecords
  <2>7. E!Earned(q, Since(trade[r], fills)) /\ q.reason \in E!Reasons
    BY <2>2, <2>3, <2>4, <2>6, ClosesEarn
  <2>8. q \in TradeRecords
    BY <2>3, <2>4, <2>5, <2>6, <2>7 DEF TradeRecords
  <2> QED BY <1>3, <1>5, <2>6, <2>7, <2>8, NoneIsNoTrade
<1>6. CASE /\ r \in E!Open /\ ~E!Held
           /\ q = [trade[r] EXCEPT !.reason = "closed_price_unavailable"]
  <2>1. trade[r] \in TradeRecords
    BY <1>3, <1>6
  <2>2. /\ q.plan = trade[r].plan /\ q.born = trade[r].born
        /\ q.reason = "closed_price_unavailable"
        /\ q.profit = trade[r].profit /\ q.up = trade[r].up /\ q.down = trade[r].down
        /\ q.mfe = trade[r].mfe /\ q.mae = trade[r].mae /\ q \in TradeRecords
    BY <1>6, <2>1 DEF TradeRecords, E!Reasons
  <2>3. E!Earned(q, Since(trade[r], fills)) /\ q.reason # None
    BY <2>2 DEF E!Earned, E!ExcursionConstants, E!Reasons
  <2> QED BY <1>3, <1>6, <2>2, <2>3, NoneIsNoTrade
<1> QED BY <1>2, <1>4, <1>5, <1>6 DEF Polled
LEMMA PollKeeps ==
  ASSUME E!ExcursionConstants, ExcursionInv, E!Poll
  PROVE  ExcursionInv'
<1>1. PICK known \in BOOLEAN, graceOver \in BOOLEAN :
        /\ trade' = [r \in TradeRows |->
             CASE r \notin E!Open -> trade[r]
               [] r \in E!Open /\ E!Held -> E!Advanced(r)
               [] r \in E!Open /\ ~E!Held /\ E!ExitPrice(r, known) # None ->
                    E!Closed(r, E!ExitPrice(r, known))
               [] r \in E!Open /\ ~E!Held /\ E!ExitPrice(r, known) = None ->
                    IF r \in missing /\ graceOver
                    THEN [trade[r] EXCEPT !.reason = "closed_price_unavailable"] ELSE trade[r]]
        /\ missing' = {r \in E!Open : ~E!Held /\ trade'[r].reason = None}
  BY DEF E!Poll
<1>2. /\ UNCHANGED <<market, holding, option, fills, own>>
      /\ mixed' = IF E!Matched /\ holding \in {-1, 0, 1}
                  THEN mixed ELSE [mixed EXCEPT !.poll = @ \cup E!Open]
  BY DEF E!Poll
<1>3. TradesTyped
  BY DEF ExcursionInv
<1>4. ASSUME NEW r \in TradeRows PROVE Polled(r, trade'[r], known)
  <2>1. CASE r \notin E!Open
    BY <1>1, <2>1 DEF Polled
  <2>2. CASE r \in E!Open /\ E!Held
    BY <1>1, <2>2 DEF Polled
  <2>3. CASE r \in E!Open /\ ~E!Held /\ E!ExitPrice(r, known) # None
    BY <1>1, <2>3 DEF Polled
  <2>4. CASE r \in E!Open /\ ~E!Held /\ E!ExitPrice(r, known) = None
    BY <1>1, <2>4 DEF Polled
  <2> QED BY <2>1, <2>2, <2>3, <2>4
<1>5. ASSUME NEW r \in TradeRows
      PROVE  /\ trade'[r] \in TradeRecords \cup {None}
             /\ trade'[r] # None <=> trade[r] # None
             /\ trade'[r] # None =>
                  /\ trade'[r].plan = trade[r].plan /\ trade'[r].born = trade[r].born
                  /\ trade'[r].up = trade[r].up /\ trade'[r].down = trade[r].down
                  /\ (trade'[r].mfe = None <=> trade'[r].mae = None)
                  /\ trade'[r].reason = None => trade[r].reason = None
                  /\ E!Earned(trade'[r], Since(trade[r], fills))
                  /\ trade'[r].mfe # trade[r].mfe \/ trade'[r].mae # trade[r].mae =>
                       /\ r \in E!Open /\ E!Held
                       /\ trade'[r].mfe \in {trade[r].mfe, E!SharesMark}
                       /\ trade'[r].mae \in {trade[r].mae, E!SharesMark}
                       /\ trade'[r].mfe # None
                       /\ trade[r].mfe = None =>
                            trade'[r].mfe = E!SharesMark /\ trade'[r].mae = E!SharesMark
  BY <1>4, PolledFits
<1>6. TradesTyped'
  <2>1. trade' \in [TradeRows -> TradeRecords \cup {None}]
    BY <1>1, <1>5
  <2>2. mixed' \in [track : SUBSET TradeRows, poll : SUBSET TradeRows]
    BY <1>2, <1>3 DEF TradesTyped, E!Open
  <2>3. \A r \in TradeRows : trade'[r] # None => trade'[r].down <= 0 /\ trade'[r].up >= 0
    BY <1>3, <1>5 DEF TradesTyped
  <2>4. \A r \in TradeRows : trade'[r] # None => (trade'[r].mfe = None <=> trade'[r].mae = None)
    BY <1>5
  <2>5. missing' \subseteq E!Open'
    BY <1>1, <1>5 DEF E!Open
  <2> QED BY <1>2, <1>3, <2>1, <2>2, <2>3, <2>4, <2>5 DEF TradesTyped
<1>7. ASSUME NEW r \in TradeRows, trade'[r] # None
      PROVE  OwnMeasure(trade'[r], own[r], mixed', r)
  <2>1. OwnMeasure(trade[r], own[r], mixed, r) /\ trade[r] # None
    BY <1>5, <1>7 DEF ExcursionInv
  <2>2. mixed'.track = mixed.track /\ (r \in mixed.poll => r \in mixed'.poll)
    BY <1>2, <1>3 DEF TradesTyped
  <2>3. CASE trade'[r].mfe = trade[r].mfe /\ trade'[r].mae = trade[r].mae
    BY <1>5, <1>7, <2>1, <2>2, <2>3 DEF OwnMeasure
  <2>4. CASE trade'[r].mfe # trade[r].mfe \/ trade'[r].mae # trade[r].mae
    <3> SUFFICES ASSUME trade[r].plan.kind \in {"equity_long", "equity_short"},
                        r \notin mixed'.poll
                 PROVE  trade'[r].mfe <= own[r].up /\ trade'[r].mae >= own[r].down
      BY <1>5, <1>7, <2>1, <2>2 DEF OwnMeasure
    <3>1. r \in E!Open /\ E!Held /\ trade[r].reason = None
      BY <1>5, <1>7, <2>4 DEF E!Open
    <3>2. E!Matched /\ holding \in {-1, 0, 1} /\ mixed' = mixed
      <4>1. mixed' = [mixed EXCEPT !.poll = @ \cup E!Open] => r \in mixed'.poll
        BY <1>3, <3>1 DEF TradesTyped
      <4> QED BY <1>2, <4>1
    <3>3. holding * E!Sign(trade[r].plan) > 0 /\ holding \in {-1, 1}
      BY <2>1, <3>1, <3>2 DEF E!Matched, E!Held, E!IsEquity
    <3>4. holding = E!Sign(trade[r].plan)
      BY <3>3 DEF E!Sign
    <3>5. E!SharesMark = OwnMark(trade[r], market)
      BY <3>4 DEF E!SharesMark, OwnMark
    <3>6. own[r].up >= E!SharesMark /\ own[r].down <= E!SharesMark
      BY <2>1, <3>1, <3>5 DEF ExcursionInv
    <3>7. trade[r].mfe # None => trade[r].mfe <= own[r].up /\ trade[r].mae >= own[r].down
      BY <2>1, <3>2 DEF OwnMeasure
    <3> QED BY <1>5, <1>7, <2>4, <3>6, <3>7
  <2> QED BY <2>3, <2>4
<1>8. ASSUME NEW r \in TradeRows, trade'[r] # None
      PROVE  E!Earned(trade'[r], Since(trade'[r], fills)) /\ trade'[r].born <= Len(fills)
  <2>1. Since(trade'[r], fills) = Since(trade[r], fills)
    BY <1>5, <1>8 DEF Since
  <2> QED BY <1>5, <1>8, <2>1 DEF ExcursionInv
<1>9. ASSUME NEW r \in TradeRows, trade'[r] # None, trade'[r].reason = None,
             trade'[r].plan.kind \in {"equity_long", "equity_short"}
      PROVE  own[r].up >= OwnMark(trade'[r], market) /\ own[r].down <= OwnMark(trade'[r], market)
  BY <1>5, <1>9 DEF ExcursionInv, OwnMark
<1>10. \A r \in TradeRows : own[r].up >= 0 /\ own[r].down <= 0
  BY DEF ExcursionInv
<1> QED BY <1>2, <1>6, <1>7, <1>8, <1>9, <1>10 DEF ExcursionInv

LEMMA ExcursionsKept ==
  ASSUME E!ExcursionConstants, ExcursionInv, [E!Next]_(E!vars)
  PROVE  ExcursionInv'
<1>1. ASSUME NEW r \in {q \in TradeRows : trade[q] = None}, NEW plan \in TradePlans, E!Enter(r, plan)
      PROVE  ExcursionInv'
  BY <1>1, EnterKeeps
<1>2. ASSUME NEW p \in Quotes, E!PriceMoves(p) PROVE ExcursionInv'
  BY <1>2, PriceMovesKeeps
<1> QED BY <1>1, <1>2, OthersKeepTrades, TrackKeeps, PollKeeps DEF E!Next

-----------------------------------------------------------------------------
(* SignalOutcomes.                                                         *)

\* What a walk from a row's signal along some bars comes to.
Undecided(r, h) == R!Touches(r, h) = {} /\ R!Cardinality(R!Window(r, h)) < Hold
LastDayOf(r, h) ==
  IF R!Touches(r, h) # {} THEN R!Earliest(R!Touches(r, h)) ELSE r.born + Hold
Reach(r, h, n) ==
  R!Greatest({R!Favourable(r, h[d]) : d \in {x \in R!Window(r, h) : x <= n}})
Ended(r, h) ==
  IF R!Touches(r, h) = {} THEN "expired"
  ELSE IF R!Adverse(r, h[LastDayOf(r, h)]) >= 1 THEN "stop_hit" ELSE "target_hit"

LEMMA ResolveIs ==
  ASSUME NEW r, NEW h
  PROVE  R!Resolve(r, h) =
           IF Undecided(r, h) THEN None
           ELSE [status |-> Ended(r, h), days |-> LastDayOf(r, h) - r.born,
                 mfe |-> Reach(r, h, LastDayOf(r, h)), full |-> Reach(r, h, r.born + Hold),
                 window |-> R!Cardinality(R!Window(r, h))]
BY DEF R!Resolve, Undecided, Ended, LastDayOf, Reach

LEMMA SameSignal ==
  ASSUME NEW r, NEW q, r.born = q.born, r.action = q.action, NEW h
  PROVE  /\ R!Resolve(r, h) = R!Resolve(q, h) /\ Undecided(r, h) = Undecided(q, h)
         /\ LastDayOf(r, h) = LastDayOf(q, h)
<1>1. \A b : R!Favourable(r, b) = R!Favourable(q, b) /\ R!Adverse(r, b) = R!Adverse(q, b)
  BY DEF R!Favourable, R!Adverse
<1>2. R!Window(r, h) = R!Window(q, h)
  BY DEF R!Window
<1>3. R!Touches(r, h) = R!Touches(q, h)
  BY <1>1, <1>2 DEF R!Touches
<1>4. LastDayOf(r, h) = LastDayOf(q, h) /\ Undecided(r, h) = Undecided(q, h)
  BY <1>2, <1>3 DEF LastDayOf, Undecided
<1>5. \A n : Reach(r, h, n) = Reach(q, h, n)
  BY <1>1, <1>2 DEF Reach
<1>6. Ended(r, h) = Ended(q, h)
  BY <1>1, <1>3, <1>4 DEF Ended
<1> QED BY <1>2, <1>4, <1>5, <1>6, ResolveIs

LEMMA CountsOfR == \A S : R!Cardinality(S) = Cardinality(S)
BY DEF R!Cardinality, R!IsFiniteSet, Cardinality, IsFiniteSet

\* The days that a walk sees: from the day after the signal on.
LEMMA WindowIs ==
  ASSUME NEW T, NEW h \in Seq(T), NEW r, r.born \in Nat, r.born <= Len(h), Hold \in Nat
  PROVE  LET n == R!Cardinality(R!Window(r, h))
         IN  /\ n \in Nat /\ n <= Hold /\ r.born + n <= Len(h)
             /\ n < Hold => r.born + n = Len(h)
             /\ R!Window(r, h) = r.born + 1 .. r.born + n
<1> PICK b : b = r.born
  OBVIOUS
<1> PICK m : m = IF b + Hold <= Len(h) THEN b + Hold ELSE Len(h)
  OBVIOUS
<1>0. b \in Nat /\ Len(h) \in Nat /\ m \in Nat /\ b <= m /\ m <= Len(h) /\ m <= b + Hold
  OBVIOUS
<1>1. R!Window(r, h) = b + 1 .. m
  BY <1>0 DEF R!Window
<1>2. Cardinality(b + 1 .. m) = m - b
  <2> PICK a : a = b + 1
    OBVIOUS
  <2>1. a \in Int /\ m \in Int
    BY <1>0
  <2>2. Cardinality(a .. m) = IF a > m THEN 0 ELSE m - a + 1
    BY <2>1, FS_Interval
  <2> QED BY <1>0, <2>2
<1>3. R!Cardinality(R!Window(r, h)) = m - b
  BY <1>1, <1>2, CountsOfR
<1> QED BY <1>0, <1>1, <1>3

\* The last day of a decided walk has been seen.
LEMMA LastIs ==
  ASSUME NEW T, NEW h \in Seq(T), NEW r, r.born \in Nat, r.born <= Len(h), Hold \in Nat,
         ~Undecided(r, h)
  PROVE  LET n == LastDayOf(r, h)
         IN  /\ n \in Nat /\ r.born <= n /\ n <= r.born + Hold /\ n <= Len(h)
             /\ R!Touches(r, h) # {} =>
                  n \in R!Touches(r, h) /\ \A d \in R!Touches(r, h) : n <= d
             /\ R!Touches(r, h) = {} => n = r.born + Hold
<1> DEFINE S == R!Touches(r, h)
           c == R!Cardinality(R!Window(r, h))
<1>1. /\ c \in Nat /\ c <= Hold /\ r.born + c <= Len(h)
      /\ R!Window(r, h) = r.born + 1 .. r.born + c
  BY WindowIs
<1>2. S \subseteq r.born + 1 .. r.born + c
  BY <1>1 DEF R!Touches
<1>3. CASE S # {}
  <2>1. S \in SUBSET Nat
    BY <1>1, <1>2
  <2>2. R!Earliest(S) \in S /\ \A d \in S : R!Earliest(S) <= d
    <3> HIDE DEF S
    <3> QED BY <1>3, <2>1, LeastOfSet DEF R!Earliest
  <2>3. LastDayOf(r, h) = R!Earliest(S)
    BY <1>3 DEF LastDayOf
  <2> QED BY <1>1, <1>2, <1>3, <2>2, <2>3
<1>4. CASE S = {}
  <2>1. c >= Hold
    BY <1>1, <1>4 DEF Undecided
  <2>2. LastDayOf(r, h) = r.born + Hold
    BY <1>4 DEF LastDayOf
  <2> QED BY <1>1, <1>4, <2>1, <2>2
<1> QED BY <1>3, <1>4

\* A label is the same on all bars that agree up to its last day.
LEMMA LabelStays ==
  ASSUME NEW T, NEW h \in Seq(T), NEW g \in Seq(T), NEW r, r.born \in Nat, Hold \in Nat,
         r.born <= Len(h), ~Undecided(r, h), LastDayOf(r, h) <= Len(g),
         \A d \in 1 .. LastDayOf(r, h) : h[d] = g[d]
  PROVE  /\ ~Undecided(r, g) /\ LastDayOf(r, g) = LastDayOf(r, h)
         /\ R!Resolve(r, g).status = R!Resolve(r, h).status
         /\ R!Resolve(r, g).days = R!Resolve(r, h).days
         /\ R!Resolve(r, g).mfe = R!Resolve(r, h).mfe
<1> PICK n : n = LastDayOf(r, h)
  OBVIOUS
<1> PICK b : b = r.born
  OBVIOUS
<1>1. /\ n \in Nat /\ b \in Nat /\ b <= n /\ n <= b + Hold /\ n <= Len(h) /\ n <= Len(g)
      /\ Len(h) \in Nat /\ Len(g) \in Nat
      /\ R!Touches(r, h) # {} =>
                  n \in R!Touches(r, h) /\ \A d \in R!Touches(r, h) : n <= d
      /\ R!Touches(r, h) = {} => n = b + Hold
  BY LastIs
<1>2. /\ R!Window(r, h) = {d \in 1 .. Len(h) : b < d /\ d <= b + Hold}
      /\ R!Window(r, g) = {d \in 1 .. Len(g) : b < d /\ d <= b + Hold}
  BY DEF R!Window
<1>3. \A d \in 1 .. n : /\ d \in R!Window(r, h) <=> d \in R!Window(r, g)
                        /\ h[d] = g[d]
  BY <1>1, <1>2
<1>4. \A d \in 1 .. n : d \in R!Touches(r, h) <=> d \in R!Touches(r, g)
  BY <1>3 DEF R!Touches
<1>5. R!Touches(r, g) \subseteq 1 .. Len(g) /\ R!Touches(r, h) \subseteq 1 .. Len(h)
  BY <1>2 DEF R!Touches
<1>6. /\ ~Undecided(r, g) /\ LastDayOf(r, g) = n /\ Ended(r, g) = Ended(r, h)
  <2>1. CASE R!Touches(r, h) # {}
    <3>1. n \in R!Touches(r, h) /\ n \in 1 .. n
      BY <1>1, <1>5, <2>1
    <3>2. n \in R!Touches(r, g)
      BY <1>4, <3>1
    <3>3. \A d \in R!Touches(r, g) : n <= d
      <4> SUFFICES ASSUME NEW d \in R!Touches(r, g), ~(n <= d) PROVE FALSE
        OBVIOUS
      <4>1. d \in 1 .. n /\ d \in Nat
        BY <1>1, <1>5
      <4>2. d \in R!Touches(r, h)
        BY <1>4, <4>1
      <4> QED BY <1>1, <2>1, <4>2
    <3>4. ~Undecided(r, g)
      BY <3>2 DEF Undecided
    <3>5. LastDayOf(r, g) \in R!Touches(r, g) /\ \A d \in R!Touches(r, g) : LastDayOf(r, g) <= d
      BY <1>1, <3>2, <3>4, LastIs
    <3>6. LastDayOf(r, g) = n
      <4> PICK k : k = LastDayOf(r, g)
        OBVIOUS
      <4>1. k \in Nat /\ n <= k /\ k <= n
        BY <1>1, <1>5, <3>2, <3>3, <3>5
      <4> QED BY <1>1, <4>1
    <3>7. Ended(r, g) = Ended(r, h)
      BY <1>3, <2>1, <3>1, <3>2, <3>6 DEF Ended
    <3> QED BY <3>4, <3>6, <3>7
  <2>2. CASE R!Touches(r, h) = {}
    <3>1. n = b + Hold
      BY <1>1, <2>2
    <3>2. R!Window(r, g) = R!Window(r, h) /\ R!Window(r, g) \subseteq 1 .. n
      BY <1>1, <1>2, <3>1
    <3>3. R!Touches(r, g) = {}
      BY <1>4, <2>2, <3>2 DEF R!Touches
    <3>4. ~Undecided(r, g)
      BY <2>2, <3>2 DEF Undecided
    <3> QED BY <2>2, <3>1, <3>3, <3>4 DEF LastDayOf, Ended
  <2> QED BY <2>1, <2>2
<1>7. Reach(r, g, n) = Reach(r, h, n)
  <2>1. ASSUME NEW d \in Nat, d <= n PROVE d \in R!Window(r, h) <=> d \in R!Window(r, g)
    BY <1>1, <1>2, <2>1
  <2>2. {d \in R!Window(r, h) : d <= n} = {d \in R!Window(r, g) : d <= n}
    BY <1>2, <2>1
  <2>3. \A d \in {x \in R!Window(r, h) : x <= n} : h[d] = g[d]
    BY <1>1, <1>2, <1>3
  <2>4. {R!Favourable(r, h[d]) : d \in {x \in R!Window(r, h) : x <= n}}
          = {R!Favourable(r, g[d]) : d \in {x \in R!Window(r, g) : x <= n}}
    BY <2>2, <2>3
  <2> QED BY <2>4 DEF Reach
<1> QED BY <1>6, <1>7, ResolveIs

\* The excursion over the first n days of a signal.
Over(r, h, n) == R!Greatest({R!Favourable(r, h[d]) : d \in r.born + 1 .. r.born + n})

\* A walk's full excursion is that over the days it saw.
LEMMA FullIs ==
  ASSUME NEW T, NEW h \in Seq(T), NEW r, r.born \in Nat, r.born <= Len(h), Hold \in Nat
  PROVE  Reach(r, h, r.born + Hold) = Over(r, h, R!Cardinality(R!Window(r, h)))
<1>1. \A d \in R!Window(r, h) : d <= r.born + Hold
  BY DEF R!Window
<1>2. {d \in R!Window(r, h) : d <= r.born + Hold} = R!Window(r, h)
  BY <1>1
<1>3. R!Window(r, h) = r.born + 1 .. r.born + R!Cardinality(R!Window(r, h))
  BY WindowIs
<1> QED BY <1>2, <1>3 DEF Reach, Over

\* A row is a record, whose signal is of the first days, and a pending one is not measured.
RowIs(r) ==
  /\ r = [ticker |-> r.ticker, action |-> r.action, born |-> r.born, status |-> r.status,
          days |-> r.days, mfe |-> r.mfe, full |-> r.full, window |-> r.window]
  /\ r.born \in {0, 1} /\ r.status \in R!Statuses
  /\ r.status = "pending" => r.window = None

\* A label that rests on finished bars is what they say.
Labelled(r) ==
  /\ ~Undecided(r, bars) /\ LastDayOf(r, bars) < today
  /\ r.days = LastDayOf(r, bars) - r.born
  /\ r.status = R!Resolve(r, bars).status /\ r.days = R!Resolve(r, bars).days
  /\ r.mfe = R!Resolve(r, bars).mfe

\* So is an excursion.
Measured(r) ==
  /\ r.window \in Nat /\ r.born + r.window < today
  /\ r.full = Over(r, bars, r.window)

\* What a pass is about to write is what the bars said when it walked the row.
Walked(r, w) ==
  /\ w.at \in 1 .. today
  /\ \E h \in Seq(DayBars) :
       /\ Len(h) = w.at /\ \A d \in 1 .. w.at - 1 : h[d] = bars[d]
       /\ ~Undecided(r, h) /\ w.found = R!Resolve(r, h)

Known == R!Table \cup pass.rows

OutcomeInv ==
  /\ today \in 1 .. MaxDay /\ bars \in Seq(DayBars) /\ Len(bars) = today
  /\ missed \in 0 .. MaxFaults
  /\ partial = [label |-> partial.label, window |-> partial.window]
  /\ partial.label \subseteq Logged /\ partial.window \subseteq Logged
  /\ pass = [kind |-> pass.kind, todo |-> pass.todo, rows |-> pass.rows,
             covered |-> pass.covered, writes |-> pass.writes, walked |-> pass.walked]
  /\ pass.kind \in {"none", "check", "checked", "enrich"}
  /\ Known \subseteq Logged
  /\ \A x \in Known :
       /\ RowIs(outcome[x])
       /\ outcome[x].status # "pending" /\ x \notin partial.label => Labelled(outcome[x])
       /\ outcome[x].window # None /\ x \notin partial.window => Measured(outcome[x])
  /\ pass.kind = "enrich" => \A x \in pass.rows : outcome[x].status # "pending"
  /\ \A w \in pass.writes : w.row \in pass.rows /\ Walked(outcome[w.row], w)

LEMMA OutcomesMean ==
  OutcomeInv /\ kept \in BOOLEAN => R!WrongLabelTakesARunningBar /\ R!TypeOK
<1> SUFFICES ASSUME OutcomeInv, kept \in BOOLEAN
             PROVE  R!WrongLabelTakesARunningBar /\ R!TypeOK
  OBVIOUS
<1>1. R!TypeOK
  <2>1. kept \in BOOLEAN
    OBVIOUS
  <2>2. partial \in [label : SUBSET Logged, window : SUBSET Logged]
    BY DEF OutcomeInv
  <2>3. /\ today \in 1 .. MaxDay /\ bars \in Seq(DayBars) /\ Len(bars) = today
        /\ missed \in 0 .. MaxFaults /\ pass.kind \in {"none", "check", "checked", "enrich"}
        /\ \A x \in R!Table : outcome[x].status \in R!Statuses
    BY DEF OutcomeInv, RowIs, Known
  <2> QED BY ONLY <2>1, <2>2, <2>3 DEF R!TypeOK
<1>2. ASSUME NEW x \in R!Table
      PROVE  LET this == R!Resolve(outcome[x], bars) IN
             /\ outcome[x].window # None /\ outcome[x].born + outcome[x].days < today
                  /\ x \notin partial.label
                => <<outcome[x].status, outcome[x].days, outcome[x].mfe>>
                     = <<this.status, this.days, this.mfe>>
             /\ outcome[x].window # None /\ x \notin partial.window =>
                  outcome[x].full = Over(outcome[x], bars, outcome[x].window)
  BY DEF OutcomeInv, RowIs, Labelled, Measured, Known
<1> QED BY <1>1, <1>2 DEF R!WrongLabelTakesARunningBar, Over

LEMMA OutcomesStart ==
  ASSUME R!OutcomeConstants, R!Init
  PROVE  OutcomeInv /\ kept \in BOOLEAN
<1>1. kept \in BOOLEAN
  BY DEF R!Init
<1>2. /\ today = 1 /\ bars \in [1 .. 1 -> DayBars] /\ pass = R!Idle /\ missed = 0
      /\ outcome \in Tables
      /\ partial = [label |-> {x \in R!Table : outcome[x].status # "pending"}, window |-> {}]
  BY DEF R!Init
<1>3. bars \in Seq(DayBars) /\ Len(bars) = 1
  <2>1. bars = [i \in 1 .. 1 |-> bars[i]] /\ \A i \in 1 .. 1 : bars[i] \in DayBars
    BY <1>2
  <2>2. bars[1] \in DayBars /\ \A i \in 1 .. 1 : i = 1
    BY <2>1
  <2> PICK b : b = bars[1]
    OBVIOUS
  <2>3. bars = <<b>> /\ b \in DayBars
    BY <2>1, <2>2
  <2> QED BY ONLY <2>3
<1>4. MaxDay \in Nat /\ MaxDay >= 1 /\ MaxFaults \in Nat
  BY DEF R!OutcomeConstants
<1>5. ASSUME NEW x \in R!Table
      PROVE  /\ RowIs(outcome[x])
             /\ outcome[x].status # "pending" => x \in partial.label
             /\ outcome[x].window = None
  <2>1. outcome[x] \in [ticker : R!Tickers, action : {"BUY", "SELL"}, born : {0, 1},
                        status : R!Statuses, days : Nat \cup {None}, mfe : Nat \cup {None},
                        full : Nat \cup {None}, window : {None}]
    BY <1>2 DEF R!OutcomeConstants, R!Table
  <2> QED BY <1>2, <2>1 DEF RowIs
<1>6. R!Table \subseteq Logged
  BY DEF R!Table
<1>7. Known = R!Table
  BY <1>2 DEF Known, R!Idle
<1> QED BY <1>1, <1>2, <1>3, <1>4, <1>5, <1>6, <1>7 DEF OutcomeInv, R!Idle

\* What was written or is about to be stays right when the bars grow.
LEMMA RightsStay ==
  ASSUME OutcomeInv, R!OutcomeConstants, bars' \in Seq(DayBars), Len(bars') = today',
         today' \in Nat, today <= today', \A d \in 1 .. today - 1 : bars'[d] = bars[d],
         NEW x \in Known
  PROVE  /\ Labelled(outcome[x]) =>
              /\ ~Undecided(outcome[x], bars') /\ LastDayOf(outcome[x], bars') < today'
              /\ outcome[x].days = LastDayOf(outcome[x], bars') - outcome[x].born
              /\ outcome[x].status = R!Resolve(outcome[x], bars').status
              /\ outcome[x].days = R!Resolve(outcome[x], bars').days
              /\ outcome[x].mfe = R!Resolve(outcome[x], bars').mfe
         /\ Measured(outcome[x]) =>
              /\ outcome[x].window \in Nat /\ outcome[x].born + outcome[x].window < today'
              /\ outcome[x].full = Over(outcome[x], bars', outcome[x].window)
         /\ \A w : Walked(outcome[x], w) =>
              /\ w.at \in 1 .. today'
              /\ \E h \in Seq(DayBars) :
                   /\ Len(h) = w.at /\ \A d \in 1 .. w.at - 1 : h[d] = bars'[d]
                   /\ ~Undecided(outcome[x], h) /\ w.found = R!Resolve(outcome[x], h)
<1> DEFINE r == outcome[x]
<1>1. RowIs(r) /\ today \in Nat /\ bars \in Seq(DayBars) /\ Len(bars) = today /\ today >= 1
  BY DEF OutcomeInv
<1> HIDE DEF r
<1>2. r.born \in Nat /\ r.born <= today /\ Hold \in Nat
  BY <1>1 DEF RowIs, R!OutcomeConstants
<1>3. ASSUME Labelled(r)
      PROVE  /\ ~Undecided(r, bars') /\ LastDayOf(r, bars') < today'
             /\ r.days = LastDayOf(r, bars') - r.born
             /\ r.status = R!Resolve(r, bars').status
             /\ r.days = R!Resolve(r, bars').days
             /\ r.mfe = R!Resolve(r, bars').mfe
  <2>1. /\ ~Undecided(r, bars) /\ LastDayOf(r, bars) < today
        /\ r.days = LastDayOf(r, bars) - r.born
        /\ r.status = R!Resolve(r, bars).status /\ r.days = R!Resolve(r, bars).days
        /\ r.mfe = R!Resolve(r, bars).mfe
    BY <1>3 DEF Labelled
  <2>2. LastDayOf(r, bars) \in Nat
    BY <1>1, <1>2, <2>1, LastIs
  <2>3. \A d \in 1 .. LastDayOf(r, bars) : bars[d] = bars'[d]
    BY <1>1, <2>1, <2>2
  <2>4. /\ LastDayOf(r, bars) <= Len(bars')
        /\ r.born <= Len(bars)
    BY <1>1, <1>2, <2>1, <2>2
  <2> PICK g : g = bars'
    OBVIOUS
  <2>5. /\ ~Undecided(r, g) /\ LastDayOf(r, g) = LastDayOf(r, bars)
        /\ R!Resolve(r, g).status = R!Resolve(r, bars).status
        /\ R!Resolve(r, g).days = R!Resolve(r, bars).days
        /\ R!Resolve(r, g).mfe = R!Resolve(r, bars).mfe
    BY <1>1, <1>2, <2>1, <2>3, <2>4, LabelStays
  <2>6. LastDayOf(r, g) < today'
    BY <1>1, <2>1, <2>2, <2>5
  <2> QED BY <2>1, <2>5, <2>6
<1>4. ASSUME Measured(r)
      PROVE  /\ r.window \in Nat /\ r.born + r.window < today'
             /\ r.full = Over(r, bars', r.window)
  <2>1. r.window \in Nat /\ r.born + r.window < today /\ r.full = Over(r, bars, r.window)
    BY <1>4 DEF Measured
  <2>2. \A d \in r.born + 1 .. r.born + r.window : bars'[d] = bars[d]
    <3> SUFFICES ASSUME NEW d \in r.born + 1 .. r.born + r.window PROVE d \in 1 .. today - 1
      OBVIOUS
    <3> QED BY <1>1, <1>2, <2>1
  <2>3. Over(r, bars', r.window) = Over(r, bars, r.window)
    BY <2>2 DEF Over
  <2> QED BY <1>1, <1>2, <2>1, <2>3
<1>5. ASSUME NEW w, Walked(r, w)
      PROVE  /\ w.at \in 1 .. today'
             /\ \E h \in Seq(DayBars) :
                  /\ Len(h) = w.at /\ \A d \in 1 .. w.at - 1 : h[d] = bars'[d]
                  /\ ~Undecided(r, h) /\ w.found = R!Resolve(r, h)
  <2>1. PICK h \in Seq(DayBars) :
          /\ Len(h) = w.at /\ \A d \in 1 .. w.at - 1 : h[d] = bars[d]
          /\ ~Undecided(r, h) /\ w.found = R!Resolve(r, h)
    BY <1>5 DEF Walked
  <2>2. w.at \in 1 .. today
    BY <1>5 DEF Walked
  <2>3. w.at \in 1 .. today' /\ \A d \in 1 .. w.at - 1 : d \in 1 .. today - 1
    BY <1>1, <2>2
  <2> QED BY <2>1, <2>3
<1> QED BY <1>3, <1>4, <1>5 DEF r

LEMMA MovesKeep ==
  ASSUME OutcomeInv, R!OutcomeConstants, R!Moves \/ R!NextDay
  PROVE  OutcomeInv'
<1>1. /\ today \in 1 .. MaxDay /\ bars \in Seq(DayBars) /\ Len(bars) = today
      /\ MaxDay \in Nat
  BY DEF OutcomeInv, R!OutcomeConstants
<1>2. UNCHANGED <<outcome, pass, missed, partial>>
  BY DEF R!Moves, R!NextDay
<1>3. /\ bars' \in Seq(DayBars) /\ Len(bars') = today' /\ today' \in 1 .. MaxDay
      /\ today <= today' /\ \A d \in 1 .. today - 1 : bars'[d] = bars[d]
  <2>1. CASE R!Moves
    <3>1. PICK b \in DayBars : bars' = [bars EXCEPT ![today] = b]
      BY <2>1 DEF R!Moves
    <3>2. today' = today
      BY <2>1 DEF R!Moves
    <3>3. bars' \in Seq(DayBars) /\ Len(bars') = today
      BY <1>1, <3>1
    <3>4. \A d \in 1 .. today - 1 : bars'[d] = bars[d]
      BY <1>1, <3>1
    <3> QED BY <1>1, <3>2, <3>3, <3>4
  <2>2. CASE R!NextDay
    <3>1. PICK b \in DayBars : bars' = Append(bars, b)
      BY <2>2 DEF R!NextDay
    <3>2. today < MaxDay /\ today' = today + 1
      BY <2>2 DEF R!NextDay
    <3>3. bars' \in Seq(DayBars) /\ Len(bars') = today + 1
      BY <1>1, <3>1
    <3>4. \A d \in 1 .. today - 1 : bars'[d] = bars[d]
      BY <1>1, <3>1
    <3> QED BY <1>1, <3>2, <3>3, <3>4
  <2> QED BY <2>1, <2>2
<1>4. R!Table' = R!Table
  BY <1>2 DEF R!Table
<1>5. ASSUME NEW x \in Known
      PROVE  /\ Labelled(outcome[x]) => Labelled(outcome[x])'
             /\ Measured(outcome[x]) => Measured(outcome[x])'
             /\ \A w : Walked(outcome[x], w) => Walked(outcome[x], w)'
  <2>1. today' \in Nat
    BY <1>1, <1>3
  <2>2. /\ Labelled(outcome[x])' <=>
              /\ ~Undecided(outcome[x], bars') /\ LastDayOf(outcome[x], bars') < today'
              /\ outcome[x].days = LastDayOf(outcome[x], bars') - outcome[x].born
              /\ outcome[x].status = R!Resolve(outcome[x], bars').status
              /\ outcome[x].days = R!Resolve(outcome[x], bars').days
              /\ outcome[x].mfe = R!Resolve(outcome[x], bars').mfe
        /\ Measured(outcome[x])' <=>
              /\ outcome[x].window \in Nat /\ outcome[x].born + outcome[x].window < today'
              /\ outcome[x].full = Over(outcome[x], bars', outcome[x].window)
        /\ \A w : Walked(outcome[x], w)' <=>
              /\ w.at \in 1 .. today'
              /\ \E h \in Seq(DayBars) :
                   /\ Len(h) = w.at /\ \A d \in 1 .. w.at - 1 : h[d] = bars'[d]
                   /\ ~Undecided(outcome[x], h) /\ w.found = R!Resolve(outcome[x], h)
    BY <1>2 DEF Labelled, Measured, Walked
  <2>3. /\ Labelled(outcome[x]) =>
              /\ ~Undecided(outcome[x], bars') /\ LastDayOf(outcome[x], bars') < today'
              /\ outcome[x].days = LastDayOf(outcome[x], bars') - outcome[x].born
              /\ outcome[x].status = R!Resolve(outcome[x], bars').status
              /\ outcome[x].days = R!Resolve(outcome[x], bars').days
              /\ outcome[x].mfe = R!Resolve(outcome[x], bars').mfe
        /\ Measured(outcome[x]) =>
              /\ outcome[x].window \in Nat /\ outcome[x].born + outcome[x].window < today'
              /\ outcome[x].full = Over(outcome[x], bars', outcome[x].window)
        /\ \A w : Walked(outcome[x], w) =>
              /\ w.at \in 1 .. today'
              /\ \E h \in Seq(DayBars) :
                   /\ Len(h) = w.at /\ \A d \in 1 .. w.at - 1 : h[d] = bars'[d]
                   /\ ~Undecided(outcome[x], h) /\ w.found = R!Resolve(outcome[x], h)
    BY <1>3, <2>1, RightsStay
  <2> QED BY <2>2, <2>3
<1>6. \A x \in Known :
       /\ RowIs(outcome[x])
       /\ outcome[x].status # "pending" /\ x \notin partial.label => Labelled(outcome[x])'
       /\ outcome[x].window # None /\ x \notin partial.window => Measured(outcome[x])'
  BY <1>5 DEF OutcomeInv
<1>7. \A w \in pass.writes : w.row \in pass.rows /\ Walked(outcome[w.row], w)'
  BY <1>5 DEF OutcomeInv, Known
<1>8. /\ Known' = Known /\ R!Table' = R!Table /\ outcome' = outcome
      /\ \A x : RowIs(outcome[x])' = RowIs(outcome[x])
  BY <1>2, <1>4 DEF RowIs, Known
<1> QED BY <1>2, <1>3, <1>4, <1>6, <1>7, <1>8 DEF OutcomeInv

\* A pass that begins, goes on or ends writes no row.
LEMMA PassStepsKeep ==
  ASSUME OutcomeInv, R!OutcomeConstants, UNCHANGED <<today, bars, outcome, partial>>,
         missed' \in 0 .. MaxFaults,
         pass' = [kind |-> pass'.kind, todo |-> pass'.todo, rows |-> pass'.rows,
             covered |-> pass'.covered, writes |-> pass'.writes, walked |-> pass'.walked],
         pass'.kind \in {"none", "check", "checked", "enrich"},
         \A x \in pass'.rows : x \in Known,
         pass'.kind = "enrich" => \A x \in pass'.rows : outcome[x].status # "pending",
         \A w \in pass'.writes : w.row \in pass'.rows /\ Walked(outcome[w.row], w)
  PROVE  OutcomeInv'
<1>1. R!Table' = R!Table /\ Known' \subseteq Known
  BY DEF R!Table, Known
<1>2. \A r : /\ Labelled(r)' = Labelled(r) /\ Measured(r)' = Measured(r)
             /\ \A w : Walked(r, w)' = Walked(r, w)
  BY DEF Labelled, Measured, Walked
<1>3. \A x \in Known : /\ Labelled(outcome[x])' = Labelled(outcome[x])
                       /\ Measured(outcome[x])' = Measured(outcome[x])
                       /\ RowIs(outcome[x])' = RowIs(outcome[x])
  BY DEF Labelled, Measured, RowIs
<1>4. \A w \in pass'.writes : w.row \in pass'.rows /\ Walked(outcome[w.row], w)'
  BY DEF Walked
<1> QED BY <1>1, <1>3, <1>4 DEF OutcomeInv

\* What a walk adds is what the bars say today.
LEMMA WriteIs ==
  ASSUME OutcomeInv, R!OutcomeConstants, NEW x \in Known, NEW w \in R!Write(x)
  PROVE  w.row = x /\ Walked(outcome[x], w)
<1>1. /\ R!Resolve(outcome[x], bars) # None
      /\ w = [row |-> x, found |-> R!Resolve(outcome[x], bars), at |-> today]
  BY DEF R!Write
<1>2. ~Undecided(outcome[x], bars)
  BY <1>1, ResolveIs
<1>3. /\ today \in 1 .. today /\ bars \in Seq(DayBars) /\ Len(bars) = today
  BY DEF OutcomeInv
<1> QED BY <1>1, <1>2, <1>3 DEF Walked

LEMMA PassKeeps ==
  ASSUME OutcomeInv, R!OutcomeConstants,
         R!StartCheck \/ R!StartEnrich \/ R!Walk \/ R!WalkFails \/ R!Truncate \/ R!PassLost
  PROVE  OutcomeInv'
<1>1. UNCHANGED <<today, bars, outcome, partial>>
  BY DEF R!StartCheck, R!StartEnrich, R!Walk, R!WalkFails, R!Truncate, R!PassLost
<1>2. missed' \in 0 .. MaxFaults
  <2>1. missed' = missed \/ (missed < MaxFaults /\ missed' = missed + 1)
    BY DEF R!StartCheck, R!StartEnrich, R!Walk, R!WalkFails, R!Truncate, R!PassLost, R!Fault
  <2> QED BY <2>1 DEF OutcomeInv, R!OutcomeConstants
<1>3. CASE R!StartCheck
  <2> DEFINE pending == {r \in R!Table : outcome[r].status = "pending"}
  <2>1. \/ pass' = [R!Idle EXCEPT !.kind = "checked"]
        \/ pass' = [R!Idle EXCEPT !.kind = "check", !.rows = pending, !.todo = R!InOrder(pending)]
    BY <1>3 DEF R!StartCheck
  <2>2. \A x \in pending : x \in Known
    BY DEF OutcomeInv, Known
  <2> HIDE DEF pending
  <2> PICK q : q = R!InOrder(pending)
    OBVIOUS
  <2>3. CASE pass' = [R!Idle EXCEPT !.kind = "checked"]
    <3>1. pass' = [kind |-> "checked", todo |-> <<>>, rows |-> {}, covered |-> 0,
                  writes |-> {}, walked |-> 0]
      BY <2>3 DEF R!Idle
    <3> QED BY <1>1, <1>2, <3>1, PassStepsKeep
  <2>4. CASE pass' = [R!Idle EXCEPT !.kind = "check", !.rows = pending, !.todo = q]
    <3>1. pass' = [kind |-> "check", todo |-> q, rows |-> pending, covered |-> 0,
                  writes |-> {}, walked |-> 0]
      BY <2>4 DEF R!Idle
    <3> QED BY <1>1, <1>2, <2>2, <3>1, PassStepsKeep
  <2> QED BY <2>1, <2>3, <2>4
<1>4. CASE R!StartEnrich
  <2> DEFINE done == {r \in R!Table :
       /\ outcome[r].status # "pending"
       /\ \/ outcome[r].window = None
          \/ outcome[r].window < Hold /\ outcome[r].born > today - 2 * Hold}
  <2>1. \/ pass' = R!Idle
        \/ pass' = [R!Idle EXCEPT !.kind = "enrich", !.rows = done, !.todo = R!InOrder(done)]
    BY <1>4 DEF R!StartEnrich, R!Starts
  <2>2. \A x \in done : x \in Known /\ outcome[x].status # "pending"
    BY DEF OutcomeInv, Known
  <2> HIDE DEF done
  <2> PICK q : q = R!InOrder(done)
    OBVIOUS
  <2>3. CASE pass' = R!Idle
    <3>1. pass' = [kind |-> "none", todo |-> <<>>, rows |-> {}, covered |-> 0,
                  writes |-> {}, walked |-> 0]
      BY <2>3 DEF R!Idle
    <3> QED BY <1>1, <1>2, <3>1, PassStepsKeep
  <2>4. CASE pass' = [R!Idle EXCEPT !.kind = "enrich", !.rows = done, !.todo = q]
    <3>1. pass' = [kind |-> "enrich", todo |-> q, rows |-> done, covered |-> 0,
                  writes |-> {}, walked |-> 0]
      BY <2>4 DEF R!Idle
    <3> QED BY <1>1, <1>2, <2>2, <3>1, PassStepsKeep
  <2> QED BY <2>1, <2>3, <2>4
<1>5. CASE R!Walk
  <2>1. PICK found : /\ found \subseteq pass.rows
                     /\ pass' = [pass EXCEPT !.todo = Tail(@), !.covered = @ + 1,
                              !.walked = @ + R!Cardinality(found),
                              !.writes = @ \cup UNION {R!Write(r) : r \in found}]
    <3> DEFINE t == Head(pass.todo)
               found == IF t \in Dead THEN {} ELSE {r \in pass.rows : outcome[r].ticker = t}
    <3>1. found \subseteq pass.rows
      OBVIOUS
    <3> QED BY <1>5, <3>1 DEF R!Walk
  <2> DEFINE more == pass.writes \cup UNION {R!Write(r) : r \in found}
  <2>2. pass' = [kind |-> pass.kind, todo |-> Tail(pass.todo), rows |-> pass.rows,
                 covered |-> pass.covered + 1, writes |-> more,
                 walked |-> pass.walked + R!Cardinality(found)]
    BY <2>1 DEF OutcomeInv
  <2>3. \A w \in more : w.row \in pass.rows /\ Walked(outcome[w.row], w)
    <3> SUFFICES ASSUME NEW w \in more, w \notin pass.writes
                 PROVE  w.row \in pass.rows /\ Walked(outcome[w.row], w)
      BY DEF OutcomeInv
    <3>1. PICK r \in found : w \in R!Write(r)
      OBVIOUS
    <3>2. r \in pass.rows /\ r \in Known
      BY <2>1 DEF OutcomeInv, Known
    <3>3. w.row = r /\ Walked(outcome[r], w)
      BY <3>1, <3>2, WriteIs
    <3> QED BY <3>2, <3>3
  <2> HIDE DEF more
  <2>4. /\ pass' = [kind |-> pass'.kind, todo |-> pass'.todo, rows |-> pass'.rows,
                   covered |-> pass'.covered, writes |-> pass'.writes, walked |-> pass'.walked]
        /\ pass'.kind = pass.kind /\ pass'.rows = pass.rows /\ pass'.writes = more
    BY <2>2
  <2>5. /\ pass.kind \in {"none", "check", "checked", "enrich"}
        /\ \A x \in pass.rows : x \in Known
        /\ pass.kind = "enrich" => \A x \in pass.rows : outcome[x].status # "pending"
    BY DEF OutcomeInv, Known
  <2> QED BY <1>1, <1>2, <2>3, <2>4, <2>5, PassStepsKeep
<1>6. CASE R!WalkFails \/ R!Truncate
  <2>1. PICK q, c : pass' = [pass EXCEPT !.todo = q, !.covered = c]
    <3>1. CASE R!WalkFails
      BY <3>1 DEF R!WalkFails
    <3>2. CASE R!Truncate
      <4>1. pass' = [pass EXCEPT !.todo = <<>>, !.covered = pass.covered]
        BY <3>2 DEF R!Truncate, OutcomeInv
      <4> QED BY <4>1
    <3> QED BY <1>6, <3>1, <3>2
  <2>2. pass' = [kind |-> pass.kind, todo |-> q, rows |-> pass.rows,
                 covered |-> c, writes |-> pass.writes, walked |-> pass.walked]
    BY <2>1 DEF OutcomeInv
  <2>3. /\ pass' = [kind |-> pass'.kind, todo |-> pass'.todo, rows |-> pass'.rows,
                   covered |-> pass'.covered, writes |-> pass'.writes, walked |-> pass'.walked]
        /\ pass'.kind = pass.kind /\ pass'.rows = pass.rows /\ pass'.writes = pass.writes
    BY <2>2
  <2>4. /\ pass.kind \in {"none", "check", "checked", "enrich"}
        /\ \A x \in pass.rows : x \in Known
        /\ pass.kind = "enrich" => \A x \in pass.rows : outcome[x].status # "pending"
        /\ \A w \in pass.writes : w.row \in pass.rows /\ Walked(outcome[w.row], w)
    BY DEF OutcomeInv, Known
  <2> QED BY <1>1, <1>2, <2>3, <2>4, PassStepsKeep
<1>7. CASE R!PassLost
  <2>1. pass' = [kind |-> "none", todo |-> <<>>, rows |-> {}, covered |-> 0,
                writes |-> {}, walked |-> 0]
    BY <1>7 DEF R!PassLost, R!Idle
  <2> QED BY <1>1, <1>2, <2>1, PassStepsKeep
<1> QED BY <1>3, <1>4, <1>5, <1>6, <1>7

\* A label that does not rest on the bar of the day it was made on is right from then on,
\* and so is an excursion.
LEMMA WritesAreRight ==
  ASSUME OutcomeInv, R!OutcomeConstants, NEW r, RowIs(r), NEW w, Walked(r, w)
  PROVE  /\ w.found.status \in R!Statuses \ {"pending"}
         /\ r.born + w.found.days # w.at =>
              \A q : (/\ q.born = r.born /\ q.action = r.action /\ q.status = w.found.status
                      /\ q.days = w.found.days /\ q.mfe = w.found.mfe) => Labelled(q)
         /\ r.born + w.found.window # w.at =>
              \A q : (/\ q.born = r.born /\ q.action = r.action /\ q.full = w.found.full
                      /\ q.window = w.found.window) => Measured(q)
<1>1. PICK h \in Seq(DayBars) :
        /\ Len(h) = w.at /\ \A d \in 1 .. w.at - 1 : h[d] = bars[d]
        /\ ~Undecided(r, h) /\ w.found = R!Resolve(r, h)
  BY DEF Walked
<1>2. /\ w.at \in Nat /\ w.at >= 1 /\ w.at <= today /\ today \in Nat
      /\ bars \in Seq(DayBars) /\ Len(bars) = today
      /\ Hold \in Nat /\ r.born \in Nat /\ r.born <= w.at
  BY DEF Walked, OutcomeInv, RowIs, R!OutcomeConstants
<1> PICK n : n = LastDayOf(r, h)
  OBVIOUS
<1> PICK c : c = R!Cardinality(R!Window(r, h))
  OBVIOUS
<1>3. n \in Nat /\ r.born <= n /\ n <= w.at
  BY <1>1, <1>2, LastIs
<1>4. c \in Nat /\ r.born + c <= w.at
  BY <1>1, <1>2, WindowIs
<1>5. w.found = [status |-> Ended(r, h), days |-> n - r.born, mfe |-> Reach(r, h, n),
                 full |-> Over(r, h, c), window |-> c]
  BY <1>1, <1>2, ResolveIs, FullIs
<1>6. w.found.status \in R!Statuses \ {"pending"}
  BY <1>5 DEF Ended, R!Statuses
<1>7. ASSUME r.born + w.found.days # w.at, NEW q, q.born = r.born, q.action = r.action,
             q.status = w.found.status, q.days = w.found.days, q.mfe = w.found.mfe
      PROVE  Labelled(q)
  <2>1. w.found.days = n - r.born
    BY <1>5
  <2>2. n < w.at
    BY <1>2, <1>3, <1>7, <2>1
  <2>3. \A d \in 1 .. n : h[d] = bars[d]
    BY <1>1, <1>2, <1>3, <2>2
  <2>4. n <= Len(bars) /\ n < today
    BY <1>2, <1>3, <2>2
  <2>5. /\ ~Undecided(r, bars) /\ LastDayOf(r, bars) = LastDayOf(r, h)
        /\ R!Resolve(r, bars).status = w.found.status
        /\ R!Resolve(r, bars).days = w.found.days
        /\ R!Resolve(r, bars).mfe = w.found.mfe
    BY <1>1, <1>2, <2>3, <2>4, LabelStays
  <2>6. /\ R!Resolve(q, bars) = R!Resolve(r, bars) /\ ~Undecided(q, bars)
        /\ LastDayOf(q, bars) = n
    BY <1>7, <2>5, SameSignal
  <2> QED BY <1>7, <2>1, <2>4, <2>5, <2>6 DEF Labelled
<1>8. ASSUME r.born + w.found.window # w.at, NEW q, q.born = r.born, q.action = r.action,
             q.full = w.found.full, q.window = w.found.window
      PROVE  Measured(q)
  <2>1. q.window = c /\ q.full = Over(r, h, c)
    BY <1>5, <1>8
  <2>2. r.born + c < w.at
    <3>1. w.found.window = c
      BY <1>5
    <3>2. r.born + c # w.at
      BY <1>8, <3>1
    <3> QED BY ONLY <1>2, <1>4, <3>2
  <2>3. \A d \in r.born + 1 .. r.born + c : h[d] = bars[d]
    <3> SUFFICES ASSUME NEW d \in r.born + 1 .. r.born + c PROVE d \in 1 .. w.at - 1
      BY <1>1
    <3> QED BY <1>2, <1>4, <2>2
  <2>4. Over(q, bars, c) = Over(r, h, c)
    <3>1. \A b : R!Favourable(q, b) = R!Favourable(r, b)
      BY <1>8 DEF R!Favourable
    <3>2. {R!Favourable(q, bars[d]) : d \in q.born + 1 .. q.born + c}
            = {R!Favourable(r, h[d]) : d \in r.born + 1 .. r.born + c}
      BY <1>8, <2>3, <3>1
    <3> QED BY <3>2 DEF Over
  <2>5. q.born + c < today
    BY <1>2, <1>4, <1>8, <2>2
  <2> QED BY <1>4, <2>1, <2>4, <2>5 DEF Measured
<1>9. r.born + w.found.days # w.at =>
        \A q : (/\ q.born = r.born /\ q.action = r.action /\ q.status = w.found.status
                /\ q.days = w.found.days /\ q.mfe = w.found.mfe) => Labelled(q)
  BY <1>7
<1>10. r.born + w.found.window # w.at =>
         \A q : (/\ q.born = r.born /\ q.action = r.action /\ q.full = w.found.full
                 /\ q.window = w.found.window) => Measured(q)
  BY <1>8
<1> QED BY ONLY <1>6, <1>9, <1>10

LEMMA FlushKeeps ==
  ASSUME OutcomeInv, R!OutcomeConstants, R!Flush
  PROVE  OutcomeInv'
<1> DEFINE chosen(x) == CHOOSE w \in pass.writes : w.row = x
           named(x) == \E w \in pass.writes : w.row = x
           late(n) == {w.row : w \in {v \in pass.writes : outcome[v.row].born + v.found[n] = v.at}}
<1>1. /\ UNCHANGED <<today, bars, missed>>
      /\ outcome' = [x \in Logged |-> IF named(x) THEN R!Written(outcome[x], chosen(x))
                                      ELSE outcome[x]]
      /\ pass.kind \in {"check", "enrich"}
  BY DEF R!Flush
<1>2. partial' =
        [label  |-> IF pass.kind = "enrich" THEN partial.label ELSE partial.label \cup late("days"),
         window |-> (partial.window \ {w.row : w \in pass.writes}) \cup late("window")]
  BY DEF R!Flush
<1>3. \/ pass' = [pass EXCEPT !.writes = {}, !.walked = 0]
      \/ pass' = [R!Idle EXCEPT !.kind = "checked"]
      \/ pass' = R!Idle
  BY DEF R!Flush
<1>4. Known \subseteq Logged /\ R!Table \subseteq Known /\ pass.rows \subseteq Known
  BY DEF OutcomeInv, Known
<1>5. \A w \in pass.writes : w.row \in Known /\ w.row \in Logged /\ w.row \in pass.rows
  BY <1>4 DEF OutcomeInv
<1>6. ASSUME NEW x, named(x)
      PROVE  /\ chosen(x) \in pass.writes /\ chosen(x).row = x
             /\ x \in Known /\ Walked(outcome[x], chosen(x)) /\ RowIs(outcome[x])
             /\ pass.kind = "enrich" => outcome[x].status # "pending"
  <2>1. chosen(x) \in pass.writes /\ chosen(x).row = x
    BY <1>6
  <2>2. chosen(x).row \in pass.rows /\ Walked(outcome[chosen(x).row], chosen(x))
    BY <2>1 DEF OutcomeInv
  <2> HIDE DEF chosen
  <2> QED BY <2>1, <2>2 DEF OutcomeInv, Known
<1>7. ASSUME NEW x, x \in late("days") \cup late("window") PROVE x \in Logged
  BY <1>5, <1>7
<1>8. ASSUME NEW x, named(x)
      PROVE  /\ outcome[x].born + chosen(x).found.days = chosen(x).at => x \in late("days")
             /\ outcome[x].born + chosen(x).found.window = chosen(x).at => x \in late("window")
  BY <1>6, <1>8
<1> HIDE DEF chosen, named, late
<1>9. ASSUME NEW x \in Known, named(x)
      PROVE  LET r == outcome[x] q == R!Written(r, chosen(x)) w == chosen(x) IN
             /\ RowIs(q) /\ q.born = r.born /\ q.action = r.action
             /\ q.status # "pending"
             /\ pass.kind = "check" =>
                  q.status = w.found.status /\ q.days = w.found.days /\ q.mfe = w.found.mfe
             /\ pass.kind = "enrich" =>
                  q.status = r.status /\ q.days = r.days /\ q.mfe = r.mfe
             /\ q.full = w.found.full /\ q.window = w.found.window
  <2> PICK f : f = chosen(x).found
    OBVIOUS
  <2> PICK r : r = outcome[x]
    OBVIOUS
  <2>1. f.status \in R!Statuses \ {"pending"}
    BY <1>6, <1>9, WritesAreRight
  <2>2. /\ r = [ticker |-> r.ticker, action |-> r.action, born |-> r.born, status |-> r.status,
                days |-> r.days, mfe |-> r.mfe, full |-> r.full, window |-> r.window]
        /\ r.born \in {0, 1} /\ r.status \in R!Statuses
        /\ pass.kind = "enrich" => r.status # "pending"
    BY <1>6, <1>9 DEF RowIs
  <2> PICK q : q = R!Written(r, chosen(x))
    OBVIOUS
  <2>3. CASE pass.kind = "check"
    <3>1. q = [r EXCEPT !.status = f.status, !.days = f.days, !.mfe = f.mfe, !.full = f.full,
                        !.window = f.window]
      BY <2>3 DEF R!Written
    <3>2. q = [ticker |-> r.ticker, action |-> r.action, born |-> r.born, status |-> f.status,
               days |-> f.days, mfe |-> f.mfe, full |-> f.full, window |-> f.window]
      BY <2>2, <3>1
    <3> QED BY <2>1, <2>2, <2>3, <3>2 DEF RowIs
  <2>4. CASE pass.kind = "enrich"
    <3>1. q = [r EXCEPT !.full = f.full, !.window = f.window]
      BY <2>4 DEF R!Written
    <3>2. q = [ticker |-> r.ticker, action |-> r.action, born |-> r.born, status |-> r.status,
               days |-> r.days, mfe |-> r.mfe, full |-> f.full, window |-> f.window]
      BY <2>2, <3>1
    <3> QED BY <2>2, <2>4, <3>2 DEF RowIs
  <2> QED BY <1>1, <2>3, <2>4
<1>10. ASSUME NEW x \in Known
       PROVE  /\ RowIs(outcome'[x])
              /\ outcome'[x].status # "pending" /\ x \notin partial'.label => Labelled(outcome'[x])
              /\ outcome'[x].window # None /\ x \notin partial'.window => Measured(outcome'[x])
  <2>1. x \in Logged
    BY <1>4
  <2>2. CASE ~named(x)
    <3>1. outcome'[x] = outcome[x]
      BY <1>1, <1>4, <2>1, <2>2
    <3>2. /\ x \notin partial'.label => x \notin partial.label
          /\ x \notin partial'.window => x \notin partial.window
      BY <1>2, <2>2 DEF named
    <3> QED BY <3>1, <3>2 DEF OutcomeInv
  <2>3. CASE named(x)
    <3> PICK q : q = R!Written(outcome[x], chosen(x))
      OBVIOUS
    <3>1. outcome'[x] = q /\ x \in Known
      BY <1>1, <1>6, <2>1, <2>3
    <3>2. /\ RowIs(q) /\ q.born = outcome[x].born /\ q.action = outcome[x].action
          /\ pass.kind = "check" =>
                  q.status = chosen(x).found.status /\ q.days = chosen(x).found.days
                  /\ q.mfe = chosen(x).found.mfe
          /\ pass.kind = "enrich" =>
                  /\ q.status = outcome[x].status /\ q.days = outcome[x].days
                  /\ q.mfe = outcome[x].mfe
          /\ q.full = chosen(x).found.full /\ q.window = chosen(x).found.window
      BY <1>9, <2>3, <3>1
    <3>3. x \notin partial'.window => Measured(q)
      <4>1. x \notin partial'.window => outcome[x].born + chosen(x).found.window # chosen(x).at
        BY <1>2, <1>8, <2>3
      <4> QED BY <1>6, <2>3, <3>2, <4>1, WritesAreRight
    <3>4. x \notin partial'.label => Labelled(q)
      <4>1. CASE pass.kind = "check"
        <5>1. x \notin partial'.label => outcome[x].born + chosen(x).found.days # chosen(x).at
          BY <1>2, <1>8, <2>3, <4>1
        <5> QED BY <1>6, <2>3, <3>2, <4>1, <5>1, WritesAreRight
      <4>2. CASE pass.kind = "enrich"
        <5>1. x \notin partial'.label => Labelled(outcome[x])
          BY <1>2, <1>6, <2>3, <3>1, <4>2 DEF OutcomeInv
        <5>2. /\ q.born = outcome[x].born /\ q.action = outcome[x].action
              /\ q.status = outcome[x].status /\ q.days = outcome[x].days
              /\ q.mfe = outcome[x].mfe
          BY <3>2, <4>2
        <5> QED BY <5>1, <5>2, SameSignal DEF Labelled
      <4> QED BY <1>1, <4>1, <4>2
    <3> QED BY <3>1, <3>2, <3>3, <3>4
  <2> QED BY <2>2, <2>3
<1>11. \A r : Labelled(r) => Labelled(r)'
  BY <1>1 DEF Labelled
<1>12. \A r : Measured(r) => Measured(r)'
  BY <1>1 DEF Measured
<1>13. ASSUME NEW x \in Known
       PROVE  /\ RowIs(outcome[x])'
              /\ (outcome[x].status # "pending" /\ x \notin partial.label => Labelled(outcome[x]))'
              /\ (outcome[x].window # None /\ x \notin partial.window => Measured(outcome[x]))'
  BY <1>1, <1>10 DEF RowIs, Labelled, Measured
<1>14. /\ partial' = [label |-> partial'.label, window |-> partial'.window]
       /\ partial'.label \subseteq Logged /\ partial'.window \subseteq Logged
  BY <1>2, <1>7 DEF OutcomeInv
<1>15. /\ pass' = [kind |-> pass'.kind, todo |-> pass'.todo, rows |-> pass'.rows,
             covered |-> pass'.covered, writes |-> pass'.writes, walked |-> pass'.walked]
       /\ pass'.kind \in {"none", "check", "checked", "enrich"}
       /\ pass'.writes = {} /\ pass'.rows \subseteq pass.rows
       /\ pass'.kind = "enrich" => pass.kind = "enrich"
  <2>1. CASE pass' = [pass EXCEPT !.writes = {}, !.walked = 0]
    <3>1. pass' = [kind |-> pass.kind, todo |-> pass.todo, rows |-> pass.rows,
                  covered |-> pass.covered, writes |-> {}, walked |-> 0]
      BY <2>1 DEF OutcomeInv
    <3> QED BY <1>1, <3>1
  <2>2. CASE pass' = [R!Idle EXCEPT !.kind = "checked"]
    BY <2>2 DEF R!Idle
  <2>3. CASE pass' = R!Idle
    BY <2>3 DEF R!Idle
  <2> QED BY <1>3, <2>1, <2>2, <2>3
<1>16. Known' \subseteq Known
  <2>1. ASSUME NEW x \in R!Table' PROVE x \in Known
    <3>1. x \in Logged /\ outcome'[x] # None
      BY DEF R!Table
    <3>2. CASE named(x)
      BY <1>6, <3>2
    <3>3. CASE ~named(x)
      BY <1>1, <1>4, <3>1, <3>3 DEF R!Table
    <3> QED BY <3>2, <3>3
  <2> QED BY <1>4, <1>15, <2>1 DEF Known
<1>17. ASSUME NEW x \in pass.rows, pass.kind = "enrich"
       PROVE  outcome'[x].status # "pending"
  <2>1. x \in Known /\ x \in Logged
    BY <1>4
  <2>2. CASE ~named(x)
    BY <1>1, <1>17, <2>1, <2>2 DEF OutcomeInv
  <2>3. CASE named(x)
    BY <1>1, <1>9, <2>1, <2>3
  <2> QED BY <2>2, <2>3
<1>18. Known' \subseteq Logged
  BY <1>4, <1>16
<1> QED BY <1>1, <1>13, <1>14, <1>15, <1>16, <1>17, <1>18 DEF OutcomeInv

LEMMA OutcomesKept ==
  ASSUME OutcomeInv, kept \in BOOLEAN, R!OutcomeConstants, [R!Next]_(R!vars)
  PROVE  OutcomeInv' /\ kept' \in BOOLEAN
<1>1. kept' \in BOOLEAN
  <2>1. kept' = kept \/ kept' = FALSE \/ \E q : kept' = (kept /\ \E r \in R!Table :
                outcome[r].ticker = q.ticker /\ outcome[r].action = q.action
                /\ outcome[r].born = today)
    BY DEF R!Next, R!vars, R!Moves, R!NextDay, R!RecordSignal, R!RecordOptionsSignal,
           R!StartCheck, R!StartEnrich, R!Walk, R!WalkFails, R!Truncate, R!Flush, R!PassLost
  <2> QED BY <2>1
<1>2. CASE UNCHANGED <<today, bars, outcome, pass, missed, partial>>
  <2>1. /\ missed' \in 0 .. MaxFaults
        /\ pass' = [kind |-> pass'.kind, todo |-> pass'.todo, rows |-> pass'.rows,
             covered |-> pass'.covered, writes |-> pass'.writes, walked |-> pass'.walked]
        /\ pass'.kind \in {"none", "check", "checked", "enrich"}
        /\ \A x \in pass'.rows : x \in Known
        /\ pass'.kind = "enrich" => \A x \in pass'.rows : outcome[x].status # "pending"
        /\ \A w \in pass'.writes : w.row \in pass'.rows /\ Walked(outcome[w.row], w)
    BY <1>2 DEF OutcomeInv, Known
  <2>2. UNCHANGED <<today, bars, outcome, partial>>
    BY <1>2
  <2> QED BY <1>1, <2>1, <2>2, PassStepsKeep
<1>3. CASE R!Moves \/ R!NextDay
  BY <1>1, <1>3, MovesKeep
<1>4. CASE R!StartCheck \/ R!StartEnrich \/ R!Walk \/ R!WalkFails \/ R!Truncate \/ R!PassLost
  BY <1>1, <1>4, PassKeeps
<1>5. CASE R!Flush
  BY <1>1, <1>5, FlushKeeps
<1>6. CASE UNCHANGED R!vars \/ R!RecordOptionsSignal \/ \E q \in Handed : R!RecordSignal(q)
  <2>1. UNCHANGED <<today, bars, outcome, pass, missed, partial>>
    BY <1>6 DEF R!vars, R!RecordOptionsSignal, R!RecordSignal
  <2> QED BY <1>2, <2>1
<1> QED BY <1>3, <1>4, <1>5, <1>6 DEF R!Next

-----------------------------------------------------------------------------
(* EntryGates.                                                             *)

\* What passing means, gate by gate.
LEMMA PassesMeans ==
  ASSUME NEW s, NEW c
  PROVE  G!Passes(s, c) <=>
           /\ ~c.killed
           /\ G!MarketOpen(c.now)
           /\ ~G!SameDayRefuses(s)
           /\ ~G!LiquidityRefuses(s, c)
           /\ ~(~G!ManualSource(s) /\ G!FrequencyRefuses(s, c))
           /\ ~(~G!ManualSource(s) /\ s.strategy # "" /\ c.health = "degraded")
           /\ c.status.allowed
           /\ ~(s.strategy # "" /\ c.status.allowed
                  /\ ~G!StrategyAllowed(s.strategy, c.status))
           /\ ~(s.size <= 0)
           /\ ~G!AccountRefuses(c)
           /\ ~G!TenureRefuses(c)
           /\ ~G!MarginRefuses(c)
<1>1. "kill_switch" \in G!Refusing(s, c) <=> c.killed
  BY DEF G!Refusing
<1>2. "hours" \in G!Refusing(s, c) <=> ~G!MarketOpen(c.now)
  BY DEF G!Refusing
<1>3. "same_day" \in G!Refusing(s, c) <=> G!SameDayRefuses(s)
  BY DEF G!Refusing
<1>4. "liquidity" \in G!Refusing(s, c) <=> G!LiquidityRefuses(s, c)
  BY DEF G!Refusing
<1>5. "frequency" \in G!Refusing(s, c) <=> ~G!ManualSource(s) /\ G!FrequencyRefuses(s, c)
  BY DEF G!Refusing
<1>6. "health" \in G!Refusing(s, c) <=>
        ~G!ManualSource(s) /\ s.strategy # "" /\ c.health = "degraded"
  BY DEF G!Refusing
<1>7. "guardrail" \in G!Refusing(s, c) <=> ~c.status.allowed
  BY DEF G!Refusing
<1>8. "strategy" \in G!Refusing(s, c) <=>
        s.strategy # "" /\ c.status.allowed /\ ~G!StrategyAllowed(s.strategy, c.status)
  BY DEF G!Refusing
<1>9. "size" \in G!Refusing(s, c) <=> s.size <= 0
  BY DEF G!Refusing
<1>10. "account" \in G!Refusing(s, c) <=> G!AccountRefuses(c)
  BY DEF G!Refusing
<1>11. "tenure" \in G!Refusing(s, c) <=> G!TenureRefuses(c)
  BY DEF G!Refusing
<1>12. "margin" \in G!Refusing(s, c) <=> G!MarginRefuses(c)
  BY DEF G!Refusing
<1>13. G!Refusing(s, c) \subseteq
         {"kill_switch", "hours", "same_day", "liquidity", "frequency", "health",
          "guardrail", "strategy", "size", "account", "tenure", "margin"}
  BY DEF G!Refusing
<1>14. G!Passes(s, c) <=> G!Refusing(s, c) = {}
  BY DEF G!Passes
<1> HIDE DEF G!Refusing
<1> QED BY <1>1, <1>2, <1>3, <1>4, <1>5, <1>6, <1>7, <1>8, <1>9, <1>10, <1>11, <1>12,
           <1>13, <1>14

\* A better grade: the products that the expected value compares.
LEMMA ProductsGrow ==
  ASSUME NEW a \in Nat, NEW b \in Nat, NEW c \in Nat, NEW d \in Nat, a <= c, b <= d
  PROVE  a * b <= c * d
<1>1. (c - a) * b \in Nat /\ c * (d - b) \in Nat
  OBVIOUS
<1>2. c * d = c * (d - b) + c * b /\ c * b = (c - a) * b + a * b
  OBVIOUS
<1> QED BY <1>1, <1>2

LEMMA RatiosGrow ==
  ASSUME NEW a \in Int, NEW b \in Int, a <= b
  PROVE  (a + 50) \div 100 <= (b + 50) \div 100
OBVIOUS

\* A better signal is no riskier: a known reward stays known.
LEMMA RiskFalls ==
  ASSUME NEW s \in G!SignalRecords, NEW t \in G!SignalRecords, s.reward > 0,
         s.confidence <= t.confidence, s.reward <= t.reward
  PROVE  G!RiskScore(t) <= G!RiskScore(s)
<1>1. /\ s.confidence \in Int /\ t.confidence \in Int
      /\ s.reward \in Int /\ t.reward \in Int
  BY DEF G!SignalRecords
<1>2. G!RiskTimes100(t) <= G!RiskTimes100(s)
  BY <1>1 DEF G!RiskTimes100
<1>3. G!RiskTimes100(t) \in Int /\ G!RiskTimes100(s) \in Int
  BY <1>1 DEF G!RiskTimes100
<1> QED BY <1>2, <1>3, RatiosGrow DEF G!RiskScore

LEMMA ValueRises ==
  ASSUME NEW s \in G!SignalRecords, NEW t \in G!SignalRecords,
         s.confidence <= t.confidence, s.reward <= t.reward
  PROVE  G!ExpectedValue(s) <= G!ExpectedValue(t)
<1>1. /\ s.confidence \in Nat /\ t.confidence \in Nat
      /\ s.reward \in Nat /\ t.reward \in Nat
  BY DEF G!SignalRecords
<1>2. s.confidence * s.reward <= t.confidence * t.reward
  BY <1>1, ProductsGrow
<1>3. s.confidence * s.reward \in Int /\ t.confidence * t.reward \in Int
  BY <1>1
<1> QED BY <1>1, <1>2, <1>3 DEF G!ExpectedValue

\* An unknown reward is worth nothing to the frequency controller.
LEMMA UnknownIsWorthless ==
  ASSUME NEW s \in G!SignalRecords, s.reward = 0
  PROVE  ~(G!ExpectedValue(s) > 0)
BY DEF G!SignalRecords, G!ExpectedValue

\* The frequency controller lets a better signal through, or one whose
\* probability of profit is unknown.
LEMMA BetterIsFrequent ==
  ASSUME GuardrailAssumption, G!GateConstants,
         NEW s \in G!SignalRecords, NEW t \in G!SignalRecords, NEW c \in G!ContextRecords,
         ~G!FrequencyRefuses(s, c), t.strategy = s.strategy,
         s.confidence <= t.confidence, s.reward <= t.reward,
         t.pop = None \/ (s.pop # None /\ t.pop # None /\ s.pop <= t.pop)
  PROVE  ~G!FrequencyRefuses(t, c)
<1> DEFINE rule  == G!ModeRules[c.mode]
           floor == IF rule.pop > G!StrategyPop(s.strategy) THEN rule.pop
                    ELSE G!StrategyPop(s.strategy)
<1>1. /\ rule.cap \in Int /\ rule.confidence \in Int /\ rule.risk \in Int
      /\ rule.pop \in Int /\ G!StrategyPop(s.strategy) \in Int
  BY DEF G!ContextRecords, G!ModeRules, G!StrategyPop
<1>2. /\ ~(c.trades >= rule.cap) /\ ~(s.confidence < rule.confidence)
      /\ ~(s.pop # None /\ s.pop < floor)
      /\ ~(G!RiskScore(s) > rule.risk) /\ ~(G!ExpectedValue(s) <= 0)
  BY DEF G!FrequencyRefuses
<1>3. floor \in Int
  BY <1>1
<1> HIDE DEF rule, floor
<1>4. /\ s.confidence \in Int /\ t.confidence \in Int
      /\ s.reward \in Nat /\ t.reward \in Nat
      /\ s.pop \in Int \cup {None} /\ t.pop \in Int \cup {None}
  BY DEF G!SignalRecords
<1>5. /\ G!ExpectedValue(s) \in Int /\ G!ExpectedValue(t) \in Int
      /\ G!RiskScore(s) \in Int /\ G!RiskScore(t) \in Int
  BY <1>4 DEF G!ExpectedValue, G!RiskScore, G!RiskTimes100
<1>6. s.reward > 0
  BY <1>2, <1>4, <1>5, UnknownIsWorthless
<1>7. ~(t.confidence < rule.confidence)
  BY <1>1, <1>2, <1>4
<1>8. ~(t.pop # None /\ t.pop < floor)
  BY <1>2, <1>3, <1>4
<1>9. ~(G!RiskScore(t) > rule.risk)
  BY <1>1, <1>2, <1>5, <1>6, RiskFalls
<1>10. ~(G!ExpectedValue(t) <= 0)
  BY <1>2, <1>5, ValueRises
<1> QED BY <1>2, <1>7, <1>8, <1>9, <1>10 DEF G!FrequencyRefuses, rule, floor

\* A looser mode: each of its limits is as loose as those of the modes before.
LEMMA ModesLoosen ==
  ASSUME NEW i \in DOMAIN G!TradingModes, NEW j \in DOMAIN G!TradingModes, i <= j
  PROVE  LET strict == G!ModeRules[G!TradingModes[i]]
             loose  == G!ModeRules[G!TradingModes[j]]
         IN  /\ strict.cap <= loose.cap /\ loose.confidence <= strict.confidence
             /\ strict.risk <= loose.risk /\ loose.pop <= strict.pop
             /\ {strict.cap, strict.confidence, strict.risk, strict.pop,
                 loose.cap, loose.confidence, loose.risk, loose.pop} \subseteq Nat
BY DEF G!TradingModes, G!ModeRules

\* Circumstances that differ in nothing but the mode, the strategy's health and
\* the margin: those three decide.
LEMMA SameDay ==
  ASSUME NEW s, NEW c, NEW d, G!Passes(s, c),
         d.killed = c.killed, d.now = c.now, d.status = c.status,
         d.account = c.account, d.paperConfigured = c.paperConfigured,
         d.needDays = c.needDays, d.needTrades = c.needTrades,
         d.paperDays = c.paperDays, d.paperTrades = c.paperTrades,
         G!ManualSource(s) \/ ~G!FrequencyRefuses(s, d),
         d.health = c.health \/ d.health # "degraded",
         d.margin = c.margin \/ d.margin = None
  PROVE  G!Passes(s, d)
<1>1. G!AccountRefuses(d) <=> G!AccountRefuses(c)
  BY DEF G!AccountRefuses
<1>2. G!TenureRefuses(d) <=> G!TenureRefuses(c)
  BY DEF G!TenureRefuses
<1>3. G!MarginRefuses(d) => G!MarginRefuses(c)
  BY DEF G!MarginRefuses
<1>4. G!LiquidityRefuses(s, d) <=> G!LiquidityRefuses(s, c)
  BY DEF G!LiquidityRefuses
<1>5. d.status.allowed <=> c.status.allowed
  OBVIOUS
<1>6. G!StrategyAllowed(s.strategy, d.status) <=> G!StrategyAllowed(s.strategy, c.status)
  OBVIOUS
<1> QED BY <1>1, <1>2, <1>3, <1>4, <1>5, <1>6, PassesMeans

\* Signals of the same asset, strategy and size: who approves, what is known of
\* the contract and how good it is decide.
LEMMA SameOrder ==
  ASSUME NEW s, NEW t, NEW c, G!Passes(s, c),
         t.asset = s.asset, t.composer = s.composer, t.strategy = s.strategy,
         t.size = s.size,
         t.approver = s.approver \/ t.approver # "autopilot",
         t.dte = s.dte \/ t.dte = None, t.width = s.width \/ t.width = None,
         t.interest = s.interest \/ t.interest = None,
         G!ManualSource(s) => G!ManualSource(t),
         G!ManualSource(t) \/ ~G!FrequencyRefuses(t, c)
  PROVE  G!Passes(t, c)
<1>1. G!SameDayRefuses(t) => G!SameDayRefuses(s)
  BY DEF G!SameDayRefuses, G!Options
<1>2. G!LiquidityRefuses(t, c) => G!LiquidityRefuses(s, c)
  BY DEF G!LiquidityRefuses, G!Options
<1> QED BY <1>1, <1>2, PassesMeans

\* A looser mode lets everything through that a stricter one does.
LEMMA LooserPasses ==
  ASSUME G!GateConstants,
         NEW s \in G!SignalRecords, NEW c \in G!ContextRecords, G!Passes(s, c),
         NEW i \in DOMAIN G!TradingModes, NEW j \in DOMAIN G!TradingModes, i <= j,
         c.mode = G!TradingModes[i]
  PROVE  G!Passes(s, [c EXCEPT !.mode = G!TradingModes[j]])
<1> DEFINE d == [c EXCEPT !.mode = G!TradingModes[j]]
           strict == G!ModeRules[c.mode]
           loose  == G!ModeRules[d.mode]
<1>1. /\ d.mode = G!TradingModes[j] /\ d.trades = c.trades
      /\ d.killed = c.killed /\ d.now = c.now /\ d.status = c.status
      /\ d.account = c.account /\ d.paperConfigured = c.paperConfigured
      /\ d.needDays = c.needDays /\ d.needTrades = c.needTrades
      /\ d.paperDays = c.paperDays /\ d.paperTrades = c.paperTrades
      /\ d.health = c.health /\ d.margin = c.margin
  BY DEF G!ContextRecords
<1> HIDE DEF d
<1>2. /\ strict.cap <= loose.cap /\ loose.confidence <= strict.confidence
      /\ strict.risk <= loose.risk /\ loose.pop <= strict.pop
      /\ {strict.cap, strict.confidence, strict.risk, strict.pop,
          loose.cap, loose.confidence, loose.risk, loose.pop} \subseteq Nat
  BY <1>1, ModesLoosen
<1>3. /\ s.confidence \in Int /\ s.reward \in Int /\ s.pop \in Int \cup {None}
      /\ c.trades \in Int /\ G!StrategyPop(s.strategy) \in Int
  BY DEF G!SignalRecords, G!ContextRecords, G!StrategyPop
<1>4. G!RiskScore(s) \in Int
  BY <1>3 DEF G!RiskScore, G!RiskTimes100
<1>5. ~G!FrequencyRefuses(s, c) => ~G!FrequencyRefuses(s, d)
  <2> HIDE DEF strict, loose
  <2> SUFFICES ASSUME ~G!FrequencyRefuses(s, c) PROVE ~G!FrequencyRefuses(s, d)
    OBVIOUS
  <2> DEFINE floor(rule) == IF rule.pop > G!StrategyPop(s.strategy) THEN rule.pop
                            ELSE G!StrategyPop(s.strategy)
  <2>1. /\ ~(c.trades >= strict.cap) /\ ~(s.confidence < strict.confidence)
        /\ ~(s.pop # None /\ s.pop < floor(strict))
        /\ ~(G!RiskScore(s) > strict.risk) /\ ~(G!ExpectedValue(s) <= 0)
    BY DEF G!FrequencyRefuses, strict
  <2>2. floor(loose) <= floor(strict) /\ floor(loose) \in Int /\ floor(strict) \in Int
    BY <1>2, <1>3
  <2> HIDE DEF floor
  <2>3. /\ ~(d.trades >= loose.cap) /\ ~(s.confidence < loose.confidence)
        /\ ~(s.pop # None /\ s.pop < floor(loose))
        /\ ~(G!RiskScore(s) > loose.risk)
    BY <1>1, <1>2, <1>3, <1>4, <2>1, <2>2
  <2> QED BY <2>1, <2>3 DEF G!FrequencyRefuses, loose, floor
<1>6. G!ManualSource(s) \/ ~G!FrequencyRefuses(s, d)
  BY <1>5, PassesMeans
<1> QED BY <1>1, <1>6, SameDay DEF d

\* A reading of the circumstances that is missing refuses nothing.
LEMMA MissingContextPasses ==
  ASSUME G!GateConstants,
         NEW s \in G!SignalRecords, NEW c \in G!ContextRecords, G!Passes(s, c)
  PROVE  /\ G!Passes(s, [c EXCEPT !.health = None])
         /\ G!Passes(s, [c EXCEPT !.margin = None])
<1>1. ASSUME NEW d,
             d.mode = c.mode, d.trades = c.trades,
             d.killed = c.killed, d.now = c.now, d.status = c.status,
             d.account = c.account, d.paperConfigured = c.paperConfigured,
             d.needDays = c.needDays, d.needTrades = c.needTrades,
             d.paperDays = c.paperDays, d.paperTrades = c.paperTrades,
             d.health = c.health \/ d.health = None,
             d.margin = c.margin \/ d.margin = None
      PROVE  G!Passes(s, d)
  <2>1. G!FrequencyRefuses(s, d) <=> G!FrequencyRefuses(s, c)
    BY <1>1 DEF G!FrequencyRefuses
  <2>2. G!ManualSource(s) \/ ~G!FrequencyRefuses(s, d)
    BY <2>1, PassesMeans
  <2>3. d.health = c.health \/ d.health # "degraded"
    BY <1>1 DEF G!GateConstants
  <2> QED BY <1>1, <2>2, <2>3, SameDay
<1>2. G!Passes(s, [c EXCEPT !.health = None])
  BY <1>1 DEF G!ContextRecords
<1>3. G!Passes(s, [c EXCEPT !.margin = None])
  BY <1>1 DEF G!ContextRecords
<1> QED BY <1>2, <1>3

\* A person who approves a signal, or enters it by hand, makes no gate refuse.
LEMMA ApprovedPasses ==
  ASSUME NEW s \in G!SignalRecords, NEW c, G!Passes(s, c),
         NEW who \in {"copilot", "manual"},
         who = "copilot" => s.approver = "autopilot"
  PROVE  G!Passes([s EXCEPT !.approver = who], c)
<1> DEFINE t == [s EXCEPT !.approver = who]
<1>1. /\ t.approver = who /\ t.asset = s.asset /\ t.composer = s.composer
      /\ t.strategy = s.strategy /\ t.size = s.size /\ t.dte = s.dte
      /\ t.width = s.width /\ t.interest = s.interest
      /\ t.confidence = s.confidence /\ t.reward = s.reward /\ t.pop = s.pop
  BY DEF G!SignalRecords
<1> HIDE DEF t
<1>2. G!FrequencyRefuses(t, c) <=> G!FrequencyRefuses(s, c)
  BY <1>1 DEF G!FrequencyRefuses, G!RiskScore, G!RiskTimes100, G!ExpectedValue
<1>3. G!ManualSource(s) => G!ManualSource(t)
  BY <1>1 DEF G!ManualSource
<1>4. G!ManualSource(t) \/ ~G!FrequencyRefuses(t, c)
  BY <1>2, <1>3, PassesMeans
<1> QED BY <1>1, <1>3, <1>4, SameOrder DEF t

\* What is not known of the contract refuses nothing.
LEMMA UnknownPasses ==
  ASSUME GuardrailAssumption, G!GateConstants,
         NEW s \in G!SignalRecords, NEW c \in G!ContextRecords, G!Passes(s, c),
         NEW without \in SUBSET {"dte", "width", "interest", "pop"}
  PROVE  G!Passes([f \in DOMAIN s |-> IF f \in without THEN None ELSE s[f]], c)
<1> DEFINE t == [f \in DOMAIN s |-> IF f \in without THEN None ELSE s[f]]
<1>1. DOMAIN s = {"asset", "approver", "composer", "strategy", "confidence", "reward",
                  "pop", "dte", "width", "interest", "size"}
  BY DEF G!SignalRecords
<1>2. /\ t.approver = s.approver /\ t.asset = s.asset /\ t.composer = s.composer
      /\ t.strategy = s.strategy /\ t.size = s.size
      /\ t.confidence = s.confidence /\ t.reward = s.reward
  BY <1>1
<1>3. /\ t.dte = s.dte \/ t.dte = None
      /\ t.width = s.width \/ t.width = None
      /\ t.interest = s.interest \/ t.interest = None
      /\ t.pop = s.pop \/ t.pop = None
  BY <1>1
<1>4. t \in G!SignalRecords
  <2>1. /\ s.dte \in Int \cup {None} /\ s.width \in Int \cup {None}
        /\ s.interest \in Int \cup {None} /\ s.pop \in Int \cup {None}
    BY DEF G!SignalRecords
  <2>2. t = [asset |-> t.asset, approver |-> t.approver, composer |-> t.composer,
             strategy |-> t.strategy, confidence |-> t.confidence, reward |-> t.reward,
             pop |-> t.pop, dte |-> t.dte, width |-> t.width, interest |-> t.interest,
             size |-> t.size]
    BY <1>1
  <2> HIDE DEF t
  <2> QED BY <1>2, <1>3, <2>1, <2>2 DEF G!SignalRecords
<1> HIDE DEF t
<1>5. s.confidence <= t.confidence /\ s.reward <= t.reward
  BY <1>2 DEF G!SignalRecords
<1>6. t.pop = None \/ (s.pop # None /\ t.pop # None /\ s.pop <= t.pop)
  BY <1>3 DEF G!SignalRecords
<1>7. ~G!FrequencyRefuses(s, c) => ~G!FrequencyRefuses(t, c)
  BY <1>2, <1>4, <1>5, <1>6, BetterIsFrequent
<1>8. G!ManualSource(t) <=> G!ManualSource(s)
  BY <1>2 DEF G!ManualSource
<1>9. G!ManualSource(t) \/ ~G!FrequencyRefuses(t, c)
  BY <1>7, <1>8, PassesMeans
<1> QED BY <1>2, <1>3, <1>8, <1>9, SameOrder DEF t

\* A better signal passes where a worse one does.
LEMMA BetterPasses ==
  ASSUME GuardrailAssumption, G!GateConstants,
         NEW s \in G!SignalRecords, NEW c \in G!ContextRecords, G!Passes(s, c),
         NEW confidence \in 0 .. 100, NEW reward \in Nat, NEW pop \in Int \cup {None},
         confidence >= s.confidence, reward >= s.reward,
         (s.pop = None) = (pop = None), s.pop # None => pop >= s.pop
  PROVE  G!Passes([s EXCEPT !.confidence = confidence, !.reward = reward, !.pop = pop], c)
<1> DEFINE t == [s EXCEPT !.confidence = confidence, !.reward = reward, !.pop = pop]
<1>1. /\ t.approver = s.approver /\ t.asset = s.asset /\ t.composer = s.composer
      /\ t.strategy = s.strategy /\ t.size = s.size /\ t.dte = s.dte
      /\ t.width = s.width /\ t.interest = s.interest
      /\ t.confidence = confidence /\ t.reward = reward /\ t.pop = pop
  BY DEF G!SignalRecords
<1>2. t \in G!SignalRecords
  BY DEF G!SignalRecords
<1> HIDE DEF t
<1>3. s.confidence <= t.confidence /\ s.reward <= t.reward
  BY <1>1 DEF G!SignalRecords
<1>4. t.pop = None \/ (s.pop # None /\ t.pop # None /\ s.pop <= t.pop)
  BY <1>1 DEF G!SignalRecords, G!GateConstants
<1>5. ~G!FrequencyRefuses(s, c) => ~G!FrequencyRefuses(t, c)
  BY <1>1, <1>2, <1>3, <1>4, BetterIsFrequent
<1>6. G!ManualSource(t) <=> G!ManualSource(s)
  BY <1>1 DEF G!ManualSource
<1>7. G!ManualSource(s) \/ ~G!FrequencyRefuses(s, c)
  BY PassesMeans
<1>8. G!ManualSource(t) \/ ~G!FrequencyRefuses(t, c)
  BY <1>5, <1>6, <1>7
<1>9. G!Passes(t, c)
  BY <1>1, <1>6, <1>8, SameOrder, SMTT(30)
<1> QED BY <1>9 DEF t

\* The verdict is that of the gates.
GatesInv ==
  /\ signal \in Signals /\ context \in Contexts
  /\ G!TypeOK
  /\ G!Passed => G!Passes(signal, context)

\* What passes still passes when something changes in its favour.
LEMMA HelpFromGates ==
  ASSUME G!GateConstants, GatesInv PROVE G!PassSurvivesHelp
<1> SUFFICES ASSUME G!Passed PROVE G!PassSurvivesHelp
  BY DEF G!PassSurvivesHelp
<1>1. /\ signal \in G!SignalRecords /\ context \in G!ContextRecords
      /\ G!Passes(signal, context)
  BY DEF GatesInv, G!GateConstants
<1>2. ASSUME NEW g \in G!Grades,
             g[1] >= signal.confidence, g[2] >= signal.reward,
             (signal.pop = None) = (g[3] = None),
             signal.pop # None => g[3] >= signal.pop
      PROVE  G!Passes([signal EXCEPT !.confidence = g[1], !.reward = g[2], !.pop = g[3]],
                      context)
  <2>1. g[1] \in 0 .. 100 /\ g[2] \in Nat /\ g[3] \in Int \cup {None}
    BY DEF G!Grades, G!GateConstants, G!SignalRecords
  <2> QED BY <1>1, <1>2, <2>1, BetterPasses, GuardrailAssumption
<1>3. \A i, j \in DOMAIN G!TradingModes :
        i <= j /\ context.mode = G!TradingModes[i] =>
          G!Passes(signal, [context EXCEPT !.mode = G!TradingModes[j]])
  BY <1>1, LooserPasses
<1>4. /\ signal.approver = "autopilot" => G!Passes([signal EXCEPT !.approver = "copilot"], context)
      /\ G!Passes([signal EXCEPT !.approver = "manual"], context)
  BY <1>1, ApprovedPasses
<1>5. \A without \in SUBSET {"dte", "width", "interest", "pop"} :
        G!Passes([f \in DOMAIN signal |-> IF f \in without THEN None ELSE signal[f]], context)
  BY <1>1, UnknownPasses, GuardrailAssumption
<1>6. /\ G!Passes(signal, [context EXCEPT !.health = None])
      /\ G!Passes(signal, [context EXCEPT !.margin = None])
  BY <1>1, MissingContextPasses
<1> QED BY <1>2, <1>3, <1>4, <1>5, <1>6 DEF G!PassSurvivesHelp

LEMMA GatesKept == GatesInv /\ [G!Next]_(G!vars) => GatesInv'
<1> SUFFICES ASSUME GatesInv, [G!Next]_(G!vars) PROVE GatesInv'
  OBVIOUS
<1>1. signal' = signal /\ context' = context
  BY DEF G!Next, G!Decide, G!vars
<1>2. G!Passes(signal, context)' <=> G!Passes(signal, context)
  BY <1>1
<1>3. G!TypeOK' /\ (G!Passed' => G!Passes(signal, context))
  BY DEF GatesInv, G!Next, G!Decide, G!vars, G!TypeOK, G!Passed
<1> QED BY <1>1, <1>2, <1>3 DEF GatesInv

-----------------------------------------------------------------------------
(* PortfolioLimits.                                                        *)

LEMMA CardinalitiesAgree == \A S : P!Cardinality(S) = Cardinality(S)
BY DEF Cardinality, P!Cardinality

LEMMA SlotsAreFinite ==
  ASSUME P!PortfolioConstants
  PROVE  IsFiniteSet(P!Slots)
<1>1. IsFiniteSet(Stocks) /\ IsFiniteSet(P!Classes)
  <2>1. PICK e, o : e = "equity" /\ o = "options"
    OBVIOUS
  <2>2. IsFiniteSet({e, o})
    <3>1. IsFiniteSet({} \cup {e}) /\ IsFiniteSet(({} \cup {e}) \cup {o})
      BY FS_EmptySet, FS_AddElement
    <3>2. ({} \cup {e}) \cup {o} = {e, o}
      OBVIOUS
    <3> QED BY <3>1, <3>2
  <2>3. P!Classes = {e, o}
    BY <2>1 DEF P!Classes
  <2>4. IsFiniteSet(P!Classes)
    BY <2>2, <2>3
  <2> QED BY <2>4 DEF P!PortfolioConstants, P!IsFiniteSet, IsFiniteSet
<1> QED BY <1>1, FS_Product DEF P!Slots

\* The rows that a step may write are rows, in the slots of their kinds.
LEMMA RowsFit ==
  ASSUME P!PortfolioConstants, NEW s \in P!Candidates
  PROVE  /\ P!RowOf(s) \in P!Rows /\ P!SlotOf(s) \in P!Slots
         /\ P!SlotOf(s)[1] = s.ticker /\ P!SlotOf(s)[2] = P!ClassOf(P!RowOf(s).kind)
         /\ P!RowOf(s) # None
         /\ s.ticker \in Stocks /\ s.regime \in P!Regimes
         /\ s.price \in Int /\ s.quantity \in Int /\ s.maxLoss \in Int
         /\ s.stop \in Int \cup {None}
<1>1. PICK t \in Stocks, r \in P!Regimes, p \in Plans :
        s = [ticker |-> t, regime |-> r, kind |-> p.kind, price |-> p.price, stop |-> p.stop,
             quantity |-> p.quantity, width |-> p.width, maxLoss |-> p.maxLoss]
  BY DEF P!Candidates
<1>2. p \in [kind : P!Kinds, price : Int, stop : Int \cup {None}, quantity : Int,
             width : Int, maxLoss : Int]
  BY DEF P!PortfolioConstants
<1>3. /\ s.ticker = t /\ s.regime = r /\ s.kind = p.kind /\ s.price = p.price
      /\ s.stop = p.stop /\ s.quantity = p.quantity /\ s.width = p.width
      /\ s.maxLoss = p.maxLoss
  BY <1>1
<1>4. P!RowOf(s) \in P!Rows /\ P!RowOf(s).kind = s.kind
  <2>1. PICK stop \in Int : stop = IF s.stop = None THEN 0 ELSE s.stop
    BY <1>2, <1>3
  <2>2. P!RowOf(s) = [kind |-> s.kind, price |-> s.price, quantity |-> s.quantity,
                      width |-> s.width, stop |-> stop]
    BY <2>1 DEF P!RowOf
  <2> QED BY <1>2, <1>3, <2>2 DEF P!Rows
<1>5. P!SlotOf(s) \in P!Slots /\ P!SlotOf(s)[1] = s.ticker /\ P!SlotOf(s)[2] = P!ClassOf(s.kind)
  BY <1>3 DEF P!SlotOf, P!Slots, P!Classes, P!ClassOf
<1>6. P!RowOf(s) # None
  BY <1>4 DEF P!PortfolioConstants
<1> QED BY <1>2, <1>3, <1>4, <1>5, <1>6

LEMMA MeasuresAreWhole ==
  ASSUME NEW r \in P!Rows
  PROVE  P!Measure(r) \in Int
<1>1. r.price \in Int /\ r.stop \in Int /\ r.quantity \in Int /\ r.width \in Int
  BY DEF P!Rows
<1>2. PICK price \in Int, stop \in Int, quantity \in Int, width \in Int :
        r.price = price /\ r.stop = stop /\ r.quantity = quantity /\ r.width = width
  BY <1>1
<1>3. P!Distance(price, stop) \in Int
  BY DEF P!Distance
<1> QED BY <1>2, <1>3 DEF P!Measure

BookInv == P!TypeOK

LEMMA BookStarts == P!Init => BookInv
BY DEF P!Init, BookInv, P!TypeOK, P!Held

LEMMA BookKept ==
  ASSUME P!PortfolioConstants, BookInv, [P!Next]_(P!vars)
  PROVE  BookInv'
<1>1. /\ worth \in AccountWorths /\ book \in [P!Slots -> P!Rows \cup {None}]
      /\ \A x \in P!Slots : book[x] # None => P!ClassOf(book[x].kind) = x[2]
  BY DEF BookInv, P!TypeOK, P!Held
<1>2. ASSUME NEW x \in P!Slots, NEW r \in P!Rows \cup {None}, worth' = worth,
             book' = [book EXCEPT ![x] = r], r # None => P!ClassOf(r.kind) = x[2]
      PROVE  BookInv'
  BY <1>1, <1>2 DEF BookInv, P!TypeOK, P!Held
<1>3. ASSUME NEW s \in P!Candidates, P!Recorded(s)
      PROVE  BookInv'
  BY <1>2, <1>3, RowsFit DEF P!Recorded
<1>4. ASSUME NEW x \in P!Slots, P!Exit(x)
      PROVE  BookInv'
  BY <1>2, <1>4 DEF P!Exit
<1>5. ASSUME NEW t \in Stocks, NEW a \in Adoptions, P!AdoptRow(t, a)
      PROVE  BookInv'
  <2> DEFINE r == [kind |-> "equity_long", price |-> a.price, stop |-> a.price,
                   quantity |-> a.quantity, width |-> 0]
  <2>1. a.price \in Int /\ a.quantity \in Int
    BY DEF P!PortfolioConstants
  <2>2. r \in P!Rows /\ P!ClassOf(r.kind) = "equity"
    BY <2>1 DEF P!Rows, P!Kinds, P!ClassOf
  <2>3. <<t, "equity">> \in P!Slots /\ <<t, "equity">>[2] = "equity"
    BY DEF P!Slots, P!Classes
  <2>4. book' = [book EXCEPT ![<<t, "equity">>] = r] /\ worth' = worth
    BY <1>5 DEF P!AdoptRow
  <2> HIDE DEF r
  <2> QED BY <1>2, <2>2, <2>3, <2>4
<1>6. CASE P!Reprice
  BY <1>1, <1>6 DEF P!Reprice, BookInv, P!TypeOK, P!Held
<1>7. CASE UNCHANGED P!vars
  BY <1>1, <1>7 DEF P!vars, BookInv, P!TypeOK, P!Held
<1> QED BY <1>3, <1>4, <1>5, <1>6, <1>7 DEF P!Next, P!Admit, P!AdmitBlind

\* What a row written into a book adds to the risk of the tickers it is among.
LEMMA RiskGrows ==
  ASSUME P!PortfolioConstants, BookInv, NEW s \in P!Candidates, P!Recorded(s),
         NEW ts \in SUBSET Stocks, s.ticker \in ts
  PROVE  /\ P!RiskIn(book', ts) = P!RiskIn(book, ts) + P!Measure(P!RowOf(s))
         /\ P!RiskIn(book, ts) \in Int
<1> DEFINE x == P!SlotOf(s)
           A == {y \in P!Held(book) : y[1] \in ts}
           B == {y \in P!Held(book') : y[1] \in ts}
           f == [y \in A |-> P!Measure(book[y])]
           g == [y \in B |-> P!Measure(book'[y])]
<1>1. /\ book \in [P!Slots -> P!Rows \cup {None}] /\ x \in P!Slots /\ x[1] = s.ticker
      /\ book[x] = None /\ P!RowOf(s) # None /\ P!RowOf(s) \in P!Rows
      /\ book' = [book EXCEPT ![x] = P!RowOf(s)]
  BY RowsFit DEF BookInv, P!TypeOK, P!Recorded
<1> HIDE DEF x
<1>2. /\ A \subseteq P!Slots /\ x \notin A /\ x \in B /\ B \ {x} = A /\ B \subseteq P!Slots
      /\ IsFiniteSet(A) /\ IsFiniteSet(B)
  <2>1. A \subseteq P!Slots /\ x \notin A /\ x \in B /\ B \ {x} = A /\ B \subseteq P!Slots
    BY <1>1 DEF P!Held
  <2> QED BY <2>1, SlotsAreFinite, FS_Subset
<1>3. /\ \A y \in A : f[y] \in Int /\ book[y] \in P!Rows
      /\ \A y \in A : g[y] = f[y]
      /\ g[x] = P!Measure(P!RowOf(s)) /\ g[x] \in Int
  <2>1. \A y \in A : book[y] \in P!Rows /\ book'[y] = book[y]
    BY <1>1, <1>2 DEF P!Held
  <2>2. book'[x] = P!RowOf(s)
    BY <1>1
  <2> QED BY <1>1, <1>2, <2>1, <2>2, MeasuresAreWhole
<1>4. /\ P!RiskIn(book, ts) = SumFunctionOnSet(f, A)
      /\ P!RiskIn(book', ts) = SumFunctionOnSet(g, B)
  BY DEF P!RiskIn, SumFunctionOnSet, FoldFunctionOnSet, MapThenFoldSet,
         P!SumFunctionOnSet, P!FoldFunctionOnSet, P!MapThenFoldSet
<1> HIDE DEF A, B, f, g
<1>5. SumFunctionOnSet(g, B) = g[x] + SumFunctionOnSet(g, A)
  <2>1. \A y \in B : g[y] \in Int
    BY <1>2, <1>3
  <2> QED BY <1>2, <2>1, SumsOfParts
<1>6. SumFunctionOnSet(g, A) = SumFunctionOnSet(f, A)
  BY <1>2, <1>3, SumsAgree
<1>7. SumFunctionOnSet(f, A) \in Int
  BY <1>2, <1>3, SumsOfParts
<1> QED BY <1>3, <1>4, <1>5, <1>6, <1>7

\* Of a sound plan the estimate is what the row will measure.
LEMMA SoundIsMeasured ==
  ASSUME P!PortfolioConstants, NEW s \in P!Candidates, P!Sound(s)
  PROVE  P!Estimate(s) = P!Measure(P!RowOf(s)) /\ P!Estimate(s) \in Int
<1>1. /\ P!RowOf(s).kind = s.kind /\ P!RowOf(s).price = s.price
      /\ P!RowOf(s).quantity = s.quantity
      /\ P!RowOf(s).stop = IF s.stop = None THEN 0 ELSE s.stop
  BY DEF P!RowOf
<1>2. P!Estimate(s) = P!Measure(P!RowOf(s))
  <2>1. CASE s.kind = "spread"
    BY <2>1 DEF P!Sound, P!Estimate
  <2>2. CASE s.kind # "spread"
    <3>1. P!TrustedStop(P!RowOf(s)) /\ P!RowOf(s).stop # 0
      BY <2>2 DEF P!Sound, P!TrustedStop
    <3>2. s.stop # None /\ P!RowOf(s).stop = s.stop
      BY <1>1, <3>1
    <3> QED BY <1>1, <2>2, <3>1, <3>2 DEF P!Estimate, P!Measure
  <2> QED BY <2>1, <2>2
<1> QED BY <1>2, RowsFit, MeasuresAreWhole

\* No regime and no mode loosens the global cap.
LEMMA CapsTighten ==
  ASSUME P!PortfolioConstants, NEW r \in P!Regimes
  PROVE  P!MaxPositions(r) \in Nat /\ P!MaxPositions(r) <= GlobalMax
<1>1. PICK cap \in Nat \ {0} : cap = P!Smaller(GlobalMax, ModeMax) /\ cap <= GlobalMax
  BY DEF P!Smaller, P!PortfolioConstants
<1>2. P!RegimeFactor[r] \in {0, 50, 75, 100}
  BY DEF P!Regimes, P!RegimeFactor
<1>3. ASSUME NEW k \in {0, 50, 75, 100}
      PROVE  (cap * k) \div 100 \in Nat /\ (cap * k) \div 100 <= cap
  <2>1. CASE k = 0
    BY <2>1
  <2>2. CASE k = 50
    BY <2>2
  <2>3. CASE k = 75
    BY <2>3
  <2>4. CASE k = 100
    BY <2>4
  <2> QED BY <2>1, <2>2, <2>3, <2>4
<1>4. PICK some \in Nat : some = (cap * P!RegimeFactor[r]) \div 100 /\ some <= cap
  BY <1>2, <1>3
<1> QED BY <1>1, <1>2, <1>4 DEF P!MaxPositions, P!PortfolioConstants

LEMMA AdmissionStep ==
  ASSUME P!PortfolioConstants, BookInv, NEW s \in P!Candidates,
         worth > 0, P!Sound(s), P!Admit(s)
  PROVE  /\ P!RiskIn(book', {s.ticker}) * 100 <= P!MaxSingle * worth
         /\ P!Cappable(StockSector[s.ticker]) =>
              P!RiskIn(book', P!InSector(StockSector[s.ticker])) * 100 <= P!MaxSector * worth
         /\ P!RiskIn(book', Stocks) * 100 <= P!HeatHigh * worth
         /\ Cardinality(P!Held(book')) <= GlobalMax
<1> DEFINE e == P!Estimate(s)
           sector == P!InSector(StockSector[s.ticker])
<1>1. PICK seen \in Cardinality(P!Held(book)) .. Cardinality(P!Slots) :
        P!GateAllows(s, seen, P!RiskIn(book, {s.ticker}), P!RiskIn(book, sector),
                     P!RiskIn(book, Stocks))
  BY CardinalitiesAgree DEF P!Admit, P!GatePasses
<1>2. P!Recorded(s)
  BY DEF P!Admit
<1>3. ASSUME NEW ts \in SUBSET Stocks, s.ticker \in ts
      PROVE  P!RiskIn(book', ts) = P!RiskIn(book, ts) + e
  BY <1>2, <1>3, RiskGrows, SoundIsMeasured
<1>4. /\ P!RiskIn(book', {s.ticker}) = P!RiskIn(book, {s.ticker}) + e
      /\ P!RiskIn(book', sector) = P!RiskIn(book, sector) + e
      /\ P!RiskIn(book', Stocks) = P!RiskIn(book, Stocks) + e
  BY <1>3, RowsFit DEF P!InSector
<1>5. Cardinality(P!Held(book')) <= GlobalMax
  <2> DEFINE x == P!SlotOf(s)
  <2>1. P!Held(book') = P!Held(book) \cup {x} /\ x \notin P!Held(book)
    BY <1>2, RowsFit DEF P!Recorded, BookInv, P!TypeOK, P!Held
  <2>2. IsFiniteSet(P!Held(book))
    BY SlotsAreFinite, FS_Subset DEF P!Held
  <2>3. Cardinality(P!Held(book')) = Cardinality(P!Held(book)) + 1
    BY <2>1, <2>2, FS_AddElement
  <2>4. Cardinality(P!Held(book)) \in Nat /\ Cardinality(P!Slots) \in Nat
    BY <2>2, SlotsAreFinite, FS_CardinalityType
  <2>5. seen < P!MaxPositions(s.regime)
    BY <1>1 DEF P!GateAllows
  <2>6. P!MaxPositions(s.regime) \in Nat /\ P!MaxPositions(s.regime) <= GlobalMax
    BY RowsFit, CapsTighten
  <2> QED BY <2>3, <2>4, <2>5, <2>6 DEF P!PortfolioConstants
<1> HIDE DEF e, sector
<1>6. /\ (P!RiskIn(book, {s.ticker}) + e) * 100 <= P!MaxSingle * worth
      /\ P!Cappable(StockSector[s.ticker]) =>
           (P!RiskIn(book, sector) + e) * 100 <= P!MaxSector * worth
      /\ (P!RiskIn(book, Stocks) + e) * 100 <= P!HeatHigh * worth
  BY <1>1 DEF P!GateAllows, e
<1> QED BY <1>4, <1>5, <1>6 DEF sector

-----------------------------------------------------------------------------
(* RiskCaches.                                                             *)

SectorsFit ==
  /\ sectors = [of |-> sectors.of, age |-> sectors.age]
  /\ sectors.age \in Nat \cup {None}
  /\ \A t \in K!Tickers : sectors.of[t] \in {None, SectorOf[t]}

LEMMA SectorsStart == K!Init => SectorsFit
BY DEF K!Init, SectorsFit

LEMMA OlderFits ==
  ASSUME NEW stale \in Nat, NEW age \in Nat \cup {None}, None \notin Nat
  PROVE  /\ K!Older(age, stale) \in Nat \cup {None}
         /\ age = None <=> K!Older(age, stale) = None
         /\ age # None => K!Older(age, stale) = (IF age <= stale THEN age + 1 ELSE stale + 1)
<1>1. CASE age = None
  BY <1>1 DEF K!Older
<1>2. CASE age # None
  <2>1. age \in Nat
    BY <1>2
  <2> DEFINE least == IF age <= stale THEN age + 1 ELSE stale + 1
  <2>2. /\ least \in {age + 1, stale + 1} /\ \A y \in {age + 1, stale + 1} : least <= y
        /\ \A z \in {age + 1, stale + 1} :
             (\A y \in {age + 1, stale + 1} : z <= y) => z = least
        /\ least \in Nat
    BY <2>1
  <2>3. K!Older(age, stale) = CHOOSE x \in {age + 1, stale + 1} :
                                \A y \in {age + 1, stale + 1} : x <= y
    BY <1>2 DEF K!Older, K!Min
  <2> HIDE DEF least
  <2>4. K!Older(age, stale) = least
    BY <2>2, <2>3
  <2> QED BY <1>2, <2>2, <2>4 DEF least
<1> QED BY <1>1, <1>2

LEMMA SectorsKept ==
  ASSUME K!CacheConstants, SectorsFit, [K!Next]_(K!vars)
  PROVE  SectorsFit'
<1>1. CASE K!RefreshSectors
  <2>1. PICK found : sectors' = [of |-> [t \in K!Tickers |->
                              IF t \in found /\ SectorOf[t] # "none" THEN SectorOf[t]
                              ELSE sectors.of[t]], age |-> 0]
    BY <1>1 DEF K!RefreshSectors
  <2> QED BY <2>1 DEF SectorsFit
<1>2. CASE K!TimePasses
  <2>1. sectors' = [of |-> sectors.of, age |-> K!Older(sectors.age, SectorStale)]
    BY <1>2 DEF K!TimePasses, SectorsFit
  <2>2. K!Older(sectors.age, SectorStale) \in Nat \cup {None}
    BY OlderFits DEF SectorsFit, K!CacheConstants
  <2> QED BY <2>1, <2>2 DEF SectorsFit
<1>3. CASE K!Restart
  BY <1>3 DEF K!Restart, SectorsFit
<1>4. CASE UNCHANGED sectors
  BY <1>4 DEF SectorsFit
<1> QED BY <1>1, <1>2, <1>3, <1>4 DEF K!Next, K!vars, K!ReadRows, K!FetchBars, K!Store,
          K!CutOff, K!Trades

LEMMA SectorStep ==
  ASSUME K!CacheConstants, SectorsFit, [K!Next]_(K!vars), NEW t \in K!Tickers,
         K!SectorFor(t) # "Unknown", K!SectorFor(t)' = "Unknown"
  PROVE  sectors'.age = None \/ sectors'.age > SectorStale
<1>1. SUFFICES ASSUME sectors'.age # None, ~ (sectors'.age > SectorStale) PROVE FALSE
  OBVIOUS
<1>2. sectors'.age \in Nat /\ sectors'.age <= SectorStale /\ SectorStale \in Nat
  <2>1. SectorStale \in Nat
    BY DEF K!CacheConstants
  <2> QED BY <1>1, <2>1, SectorsKept DEF SectorsFit
<1>3. /\ sectors'.of[t] = None \/ sectors'.of[t] = "Unknown"
      /\ sectors'.of[t] = None => t \notin DOMAIN Fallback \/ Fallback[t] = "Unknown"
  BY <1>1, <1>2 DEF K!SectorFor
<1>4. sectors'.of[t] = None
  BY <1>3, SectorsKept DEF SectorsFit, K!CacheConstants, K!Tickers
<1>5. sectors.age # None /\ sectors.age <= SectorStale /\ sectors.of[t] # None
  BY <1>3, <1>4 DEF K!SectorFor
<1>6. CASE K!RefreshSectors
  <2>1. PICK found : sectors' = [of |-> [u \in K!Tickers |->
                              IF u \in found /\ SectorOf[u] # "none" THEN SectorOf[u]
                              ELSE sectors.of[u]], age |-> 0]
    BY <1>6 DEF K!RefreshSectors
  <2>2. SectorOf[t] # None
    BY DEF K!CacheConstants, K!Tickers
  <2> QED BY <1>4, <1>5, <2>1, <2>2
<1>7. CASE K!TimePasses
  BY <1>4, <1>5, <1>7 DEF K!TimePasses, SectorsFit
<1>8. CASE K!Restart
  BY <1>1, <1>8 DEF K!Restart
<1>9. CASE UNCHANGED sectors
  BY <1>4, <1>5, <1>9
<1> QED BY <1>6, <1>7, <1>8, <1>9 DEF K!Next, K!vars, K!ReadRows, K!FetchBars, K!Store,
          K!CutOff, K!Trades

\* A parent map is a forest: every ticker has a root, and the way up is finite.
Tree(S, p, root, depth) ==
  /\ p \in [S -> S] /\ root \in [S -> S] /\ depth \in [S -> Nat]
  /\ \A u \in S : /\ root[p[u]] = root[u] /\ p[root[u]] = root[u]
                  /\ p[u] = u => root[u] = u
                  /\ p[u] # u => depth[p[u]] < depth[u]

ClimbRule(p, g, u) == IF p[u] = u THEN u ELSE g[p[u]]

Climb(p) == CHOOSE g : g = [u \in DOMAIN p |-> ClimbRule(p, g, u)]

\* What the walk up the parents finds is the root.
LEMMA RootsAre ==
  ASSUME NEW S, NEW p, NEW root, NEW depth, Tree(S, p, root, depth), NEW t \in S
  PROVE  K!Root(p, t) = root[t]
<1> DEFINE g == Climb(p)
           bad == {n \in Nat : \E u \in S : depth[u] = n /\ g[u] # root[u]}
<1>1. K!Root(p, t) = g[t]
  BY DEF K!Root, Climb, ClimbRule
<1>2. DOMAIN p = S /\ root = [u \in S |-> root[u]]
  BY DEF Tree
<1>3. \A u \in S : root[u] = ClimbRule(p, root, u)
  BY DEF Tree, ClimbRule
<1>4. root = [u \in DOMAIN p |-> ClimbRule(p, root, u)]
  BY <1>2, <1>3
<1>5. g = [u \in DOMAIN p |-> ClimbRule(p, g, u)]
  BY <1>4 DEF Climb
<1> HIDE DEF g
<1>6. \A u \in S : g[u] = ClimbRule(p, g, u)
  BY <1>2, <1>5
<1>7. ASSUME bad # {} PROVE FALSE
  <2>1. bad \in SUBSET Nat
    OBVIOUS
  <2>2. \E n \in bad : \A m \in bad : n <= m
    <3> HIDE DEF bad
    <3> QED BY <1>7, <2>1, LeastOfSet
  <2>3. PICK n \in bad : \A m \in bad : n <= m
    BY <2>2
  <2>4. PICK u \in S : depth[u] = n /\ g[u] # root[u]
    BY <2>3
  <2>5. CASE p[u] = u
    BY <1>6, <2>4, <2>5 DEF ClimbRule, Tree
  <2>6. CASE p[u] # u
    <3>1. p[u] \in S /\ depth[p[u]] < n /\ depth[p[u]] \in Nat /\ n \in Nat
      BY <2>3, <2>4, <2>6 DEF Tree
    <3>2. g[u] = g[p[u]] /\ root[u] = root[p[u]]
      BY <1>6, <2>4, <2>6 DEF ClimbRule, Tree
    <3>3. depth[p[u]] \in bad
      BY <2>4, <3>1, <3>2
    <3> QED BY <2>3, <3>1, <3>3
  <2> QED BY <2>5, <2>6
<1>8. g[t] = root[t]
  <2>1. depth[t] \in Nat
    BY DEF Tree
  <2> QED BY <1>7, <2>1
<1> QED BY <1>1, <1>8

\* Who is linked to whom, through others too.
Closed(S, L, c) == \A t \in c, u \in S : {t, u} \in L => u \in c
Linked(S, L, x, y) == \A c \in SUBSET S : Closed(S, L, c) /\ x \in c => y \in c

LEMMA LinkedBothWays ==
  ASSUME NEW S, NEW L, NEW x \in S, NEW y \in S, Linked(S, L, x, y)
  PROVE  Linked(S, L, y, x)
<1> SUFFICES ASSUME NEW c \in SUBSET S, Closed(S, L, c), y \in c, x \notin c PROVE FALSE
  BY DEF Linked
<1>1. Closed(S, L, S \ c)
  <2> SUFFICES ASSUME NEW t \in S \ c, NEW u \in S, {t, u} \in L, u \in c PROVE FALSE
    BY DEF Closed
  <2>1. {u, t} = {t, u}
    OBVIOUS
  <2> QED BY <2>1 DEF Closed
<1>2. S \ c \in SUBSET S /\ x \in S \ c
  OBVIOUS
<1> QED BY <1>1, <1>2 DEF Linked

LEMMA LinkedThrough ==
  ASSUME NEW S, NEW L, NEW x, NEW y, NEW z, Linked(S, L, x, y), Linked(S, L, y, z)
  PROVE  Linked(S, L, x, z)
BY DEF Linked

LEMMA LinkedOnce ==
  ASSUME NEW S, NEW L, NEW x \in S, NEW y \in S, {x, y} \in L
  PROVE  Linked(S, L, x, y)
BY DEF Linked, Closed

LEMMA LinkedInMore ==
  ASSUME NEW S, NEW T, S \subseteq T, NEW L, NEW x \in S, NEW y, Linked(S, L, x, y)
  PROVE  Linked(T, L, x, y)
<1> SUFFICES ASSUME NEW c \in SUBSET T, Closed(T, L, c), x \in c PROVE y \in c
  BY DEF Linked
<1>1. c \cap S \in SUBSET S /\ Closed(S, L, c \cap S) /\ x \in c \cap S
  BY DEF Closed
<1> QED BY <1>1 DEF Linked

\* The forests that a union over linked pairs can build.
Forests(S, L) ==
  {p \in [S -> S] : \E root \in [S -> S], depth \in [S -> Nat] :
     Tree(S, p, root, depth) /\ \A u \in S : Linked(S, L, u, root[u])}

SameRoot(p, x, y) == K!Root(p, x) = K!Root(p, y)

LEMMA UnionIs ==
  ASSUME NEW S, NEW L, NEW p \in Forests(S, L), NEW a \in S, NEW b \in S, {a, b} \in L
  PROVE  /\ K!Union(p, a, b) \in Forests(S, L)
         /\ SameRoot(K!Union(p, a, b), a, b)
         /\ \A x, y \in S : SameRoot(p, x, y) => SameRoot(K!Union(p, a, b), x, y)
<1>1. PICK root \in [S -> S], depth \in [S -> Nat] :
        Tree(S, p, root, depth) /\ \A u \in S : Linked(S, L, u, root[u])
  BY DEF Forests
<1>2. \A u \in S : K!Root(p, u) = root[u] /\ root[u] \in S
  BY <1>1, RootsAre
<1> PICK ra \in S : ra = root[a]
  BY <1>2
<1> PICK rb \in S : rb = root[b]
  BY <1>2
<1> PICK q : q = K!Union(p, a, b)
  OBVIOUS
<1>3. q = [p EXCEPT ![ra] = rb]
  BY <1>2 DEF K!Union
<1>4. /\ p \in [S -> S]
      /\ \A u \in S : /\ root[p[u]] = root[u] /\ p[root[u]] = root[u]
                      /\ p[u] = u => root[u] = u
                      /\ p[u] # u => depth[p[u]] < depth[u]
                      /\ depth[u] \in Nat /\ p[u] \in S /\ root[u] \in S
  BY <1>1 DEF Tree
<1>5. root[ra] = ra /\ root[rb] = rb /\ p[ra] = ra /\ p[rb] = rb
  BY <1>4
<1>6. CASE ra = rb
  <2>1. q = p
    BY <1>3, <1>4, <1>5, <1>6
  <2> QED BY <1>2, <1>6, <2>1 DEF SameRoot
<1>7. CASE ra # rb
  <2> DEFINE top == [u \in S |-> IF root[u] = ra THEN rb ELSE root[u]]
             far == [u \in S |-> IF root[u] = ra THEN depth[u] + depth[rb] + 1 ELSE depth[u]]
  <2>1. top \in [S -> S] /\ far \in [S -> Nat] /\ q \in [S -> S]
    BY <1>3, <1>4
  <2>2. \A u \in S : /\ top[u] = IF root[u] = ra THEN rb ELSE root[u]
                     /\ far[u] = IF root[u] = ra THEN depth[u] + depth[rb] + 1 ELSE depth[u]
                     /\ q[u] = IF u = ra THEN rb ELSE p[u]
    BY <1>3, <1>4
  <2> HIDE DEF top, far
  <2>3. ASSUME NEW u \in S
        PROVE  /\ top[q[u]] = top[u] /\ q[top[u]] = top[u]
               /\ q[u] = u => top[u] = u
               /\ q[u] # u => far[q[u]] < far[u]
    <3>1. top[q[u]] = top[u]
      BY <1>4, <1>5, <1>7, <2>2
    <3>2. q[top[u]] = top[u]
      BY <1>4, <1>5, <1>7, <2>2
    <3>3. q[u] = u => top[u] = u
      BY <1>4, <1>5, <1>7, <2>2
    <3>4. ASSUME q[u] # u PROVE far[q[u]] < far[u]
      <4>1. CASE u = ra
        <5>1. q[u] = rb /\ far[rb] = depth[rb] /\ far[u] = depth[u] + depth[rb] + 1
          BY <1>5, <1>7, <2>2, <4>1
        <5> QED BY <1>4, <5>1
      <4>2. CASE u # ra
        <5>1. q[u] = p[u] /\ p[u] # u /\ root[p[u]] = root[u] /\ p[u] \in S
          BY <1>4, <2>2, <3>4, <4>2
        <5>2. depth[p[u]] < depth[u] /\ depth[p[u]] \in Nat /\ depth[u] \in Nat /\ depth[rb] \in Nat
          BY <1>4, <5>1
        <5>3. \/ far[p[u]] = depth[p[u]] /\ far[u] = depth[u]
              \/ /\ far[p[u]] = depth[p[u]] + depth[rb] + 1
                 /\ far[u] = depth[u] + depth[rb] + 1
          BY <2>2, <5>1
        <5> QED BY <5>1, <5>2, <5>3
      <4> QED BY <4>1, <4>2
    <3> QED BY <3>1, <3>2, <3>3, <3>4
  <2>4. Tree(S, q, top, far)
    BY <2>1, <2>3 DEF Tree
  <2>5. ASSUME NEW u \in S PROVE Linked(S, L, u, top[u])
    <3>1. CASE root[u] # ra
      BY <1>1, <2>2, <3>1
    <3>2. CASE root[u] = ra
      <4>1. Linked(S, L, u, ra) /\ Linked(S, L, a, ra) /\ Linked(S, L, b, rb)
        BY <1>1, <3>2
      <4>2. Linked(S, L, ra, a) /\ Linked(S, L, a, b)
        BY <4>1, LinkedBothWays, LinkedOnce
      <4>3. Linked(S, L, u, a)
        BY <4>1, <4>2, LinkedThrough
      <4>4. Linked(S, L, u, b)
        BY <4>2, <4>3, LinkedThrough
      <4>5. Linked(S, L, u, rb)
        BY <4>1, <4>4, LinkedThrough
      <4> QED BY <2>2, <3>2, <4>5
    <3> QED BY <3>1, <3>2
  <2>6. q \in Forests(S, L)
    BY <2>1, <2>4, <2>5 DEF Forests
  <2>7. \A u \in S : K!Root(q, u) = top[u]
    BY <2>4, RootsAre
  <2>8. SameRoot(q, a, b)
    BY <2>2, <2>7 DEF SameRoot
  <2>9. \A x, y \in S : SameRoot(p, x, y) => SameRoot(q, x, y)
    BY <1>2, <2>2, <2>7 DEF SameRoot
  <2> QED BY <2>6, <2>8, <2>9
<1> QED BY <1>6, <1>7

\* Folds over numbers: the last entry of a table over the sets of them.
Ids == [i \in DOMAIN Sorted |-> i]

Turn(S, L, i, p, j) ==
  IF i < j /\ {Sorted[i], Sorted[j]} \in L /\ {Sorted[i], Sorted[j]} \subseteq S
  THEN K!Union(p, Sorted[i], Sorted[j]) ELSE p

InnerRule(S, L, i, p, g, s) ==
  IF s = {} THEN p ELSE Turn(S, L, i, g[s \ {K!Max(s)}], Ids[K!Max(s)])
Inner(S, L, i, p) ==
  CHOOSE g : g = [s \in SUBSET DOMAIN Ids |-> InnerRule(S, L, i, p, g, s)]

OuterRule(S, L, g, s) ==
  IF s = {} THEN [t \in S |-> t]
  ELSE K!JoinLater(S, L, g[s \ {K!Max(s)}], Ids[K!Max(s)])
Outer(S, L) ==
  CHOOSE g : g = [s \in SUBSET DOMAIN Ids |-> OuterRule(S, L, g, s)]

LEMMA LoopsAreTables ==
  ASSUME NEW S, NEW L
  PROVE  /\ \A p, i : K!JoinLater(S, L, p, i) = Inner(S, L, i, p)[DOMAIN Ids]
         /\ K!Forest(S, L) = Outer(S, L)[DOMAIN Ids]
<1>1. ASSUME NEW p, NEW i PROVE K!JoinLater(S, L, p, i) = Inner(S, L, i, p)[DOMAIN Ids]
  BY DEF K!JoinLater, K!FoldLeftDomain, K!FoldLeft, K!MapThenFoldSet, Inner, InnerRule, Turn,
         Ids, K!Max
<1>2. K!Forest(S, L) = Outer(S, L)[DOMAIN Ids]
  BY DEF K!Forest, K!FoldLeftDomain, K!FoldLeft, K!MapThenFoldSet, Outer, OuterRule, Ids, K!Max
<1> QED BY <1>1, <1>2

LEMMA GreatestOfTurns ==
  ASSUME NEW n \in Nat, NEW s \in SUBSET (1 .. n), s # {}
  PROVE  K!Max(s) \in s
<1> DEFINE above == {u \in Nat : \A x \in s : x <= u}
           least == CHOOSE u \in above : \A v \in above : u <= v
<1>1. n \in above
  OBVIOUS
<1>2. above \in SUBSET Nat /\ above # {}
  BY <1>1
<1> HIDE DEF above
<1>3. least \in above /\ \A v \in above : least <= v
  BY <1>2, LeastOfSet
<1> HIDE DEF least
<1>4. least \in Nat /\ \A x \in s : x <= least
  BY <1>3 DEF above
<1>5. least \in s
  <2> SUFFICES ASSUME least \notin s PROVE FALSE
    OBVIOUS
  <2>1. PICK x \in s : TRUE
    OBVIOUS
  <2>2. x \in Nat /\ x >= 1 /\ x <= least /\ x # least
    BY <1>4, <2>1
  <2>3. \A y \in s : y \in Nat /\ y <= least /\ y # least
    BY <1>4
  <2>4. least - 1 \in Nat /\ \A y \in s : y <= least - 1
    BY <1>4, <2>2, <2>3
  <2>5. least - 1 \in above
    BY <2>4 DEF above
  <2> QED BY <1>3, <1>4, <2>5
<1>6. \A x \in s : least >= x
  BY <1>4
<1> QED BY <1>5, <1>6 DEF K!Max

\* Whatever a turn does, its fold over the numbers up to n exists.
TurnRule(F, p, g, s) == IF s = {} THEN p ELSE F[<<g[s \ {K!Max(s)}], K!Max(s)>>]

LEMMA FoldExists ==
  ASSUME NEW n \in Nat, NEW F, NEW p
  PROVE  \E g : g = [s \in SUBSET (1 .. n) |-> TurnRule(F, p, g, s)]
<1> DEFINE N == 1 .. n
           upTo(k) == {s \in SUBSET N : Cardinality(s) <= k}
           Q == {k \in Nat : \E g : g = [s \in upTo(k) |-> TurnRule(F, p, g, s)]}
<1>1. \A s \in SUBSET N : /\ IsFiniteSet(s) /\ Cardinality(s) \in Nat
                          /\ (Cardinality(s) = 0) <=> (s = {})
                          /\ Cardinality(s) <= Cardinality(N)
  <2>1. IsFiniteSet(N)
    BY FS_Interval
  <2> HIDE DEF N
  <2> QED BY <2>1, FS_Subset, FS_CardinalityType, FS_EmptySet
<1>2. ASSUME NEW s \in SUBSET N, s # {}
      PROVE  /\ s \ {K!Max(s)} \in SUBSET N
             /\ Cardinality(s \ {K!Max(s)}) = Cardinality(s) - 1
  <2>1. K!Max(s) \in s
    BY <1>2, GreatestOfTurns
  <2>2. IsFiniteSet(s)
    BY <1>1
  <2> QED BY <2>1, <2>2, FS_RemoveElement
<1> HIDE DEF N
<1>3. 0 \in Q
  <2>1. upTo(0) = {{}}
    BY <1>1
  <2> DEFINE h == [s \in {{}} |-> p]
  <2>2. h = [s \in {{}} |-> TurnRule(F, p, h, s)]
    BY DEF TurnRule
  <2> HIDE DEF h, upTo
  <2>3. h = [s \in upTo(0) |-> TurnRule(F, p, h, s)]
    BY <2>1, <2>2
  <2> QED BY <2>3
<1>4. \A k \in Q : k + 1 \in Q
  <2> SUFFICES ASSUME NEW k \in Q PROVE k + 1 \in Q
    OBVIOUS
  <2>1. PICK g : g = [s \in upTo(k) |-> TurnRule(F, p, g, s)]
    OBVIOUS
  <2> DEFINE h == [s \in upTo(k + 1) |->
                     IF Cardinality(s) <= k THEN g[s] ELSE TurnRule(F, p, g, s)]
  <2>2. k \in Nat
    OBVIOUS
  <2>3. \A s \in upTo(k) : g[s] = TurnRule(F, p, g, s)
    <3> HIDE DEF upTo
    <3> QED BY <2>1
  <2>4. \A s \in upTo(k) : s \in upTo(k + 1) /\ h[s] = g[s]
    BY <1>1, <2>2
  <2>5. ASSUME NEW s \in upTo(k + 1), s # {}
        PROVE  s \ {K!Max(s)} \in upTo(k)
    BY <1>1, <1>2, <2>2, <2>5
  <2>6. ASSUME NEW s \in upTo(k + 1)
        PROVE  h[s] = TurnRule(F, p, h, s)
    <3>1. h[s] = TurnRule(F, p, g, s)
      <4>1. CASE Cardinality(s) <= k
        <5>1. s \in upTo(k)
          BY <4>1
        <5> QED BY <2>3, <2>4, <5>1
      <4>2. CASE ~(Cardinality(s) <= k)
        BY <4>2
      <4> QED BY <4>1, <4>2
    <3>2. CASE s = {}
      BY <3>1, <3>2 DEF TurnRule
    <3>3. CASE s # {}
      <4>1. h[s \ {K!Max(s)}] = g[s \ {K!Max(s)}]
        BY <2>4, <2>5, <3>3
      <4> HIDE DEF h, upTo
      <4> QED BY <3>1, <3>3, <4>1 DEF TurnRule
    <3> QED BY <3>2, <3>3
  <2>7. h = [s \in upTo(k + 1) |-> h[s]]
    OBVIOUS
  <2> HIDE DEF h, upTo
  <2>8. h = [s \in upTo(k + 1) |-> TurnRule(F, p, h, s)]
    BY <2>6, <2>7
  <2> QED BY <2>2, <2>8
<1>5. Cardinality(N) \in Q
  <2>1. Q \in SUBSET Nat /\ Cardinality(N) \in Nat
    BY <1>1
  <2> HIDE DEF Q
  <2> QED BY <1>3, <1>4, <2>1, NatBySet
<1>6. upTo(Cardinality(N)) = SUBSET N
  BY <1>1
<1>7. \E g : g = [s \in SUBSET N |-> TurnRule(F, p, g, s)]
  <2> HIDE DEF upTo
  <2> QED BY <1>5, <1>6
<1> QED BY <1>7 DEF N

\* If the turns stay in a set, so does every entry of the table.
LEMMA FoldStays ==
  ASSUME NEW n \in Nat, NEW Z, NEW F, NEW p \in Z, \A q \in Z, j \in 1 .. n : F[<<q, j>>] \in Z,
         NEW g, g = [s \in SUBSET (1 .. n) |-> TurnRule(F, p, g, s)]
  PROVE  \A s \in SUBSET (1 .. n) : g[s] \in Z /\ g[s] = TurnRule(F, p, g, s)
<1> DEFINE N == 1 .. n
           good == {s \in SUBSET N : g[s] \in Z}
<1>1. \A s \in SUBSET N : g[s] = TurnRule(F, p, g, s)
  OBVIOUS
<1>2. ASSUME NEW s \in SUBSET N, \A u \in SUBSET s : u # s => u \in good
      PROVE  s \in good
  <2>1. CASE s = {}
    BY <1>1, <2>1 DEF TurnRule
  <2>2. CASE s # {}
    <3> DEFINE i == K!Max(s)
    <3>1. i \in s
      BY <2>2, GreatestOfTurns
    <3>2. g[s] = F[<<g[s \ {i}], i>>]
      BY <1>1, <2>2 DEF TurnRule
    <3> HIDE DEF i
    <3>3. s \ {i} \in good
      BY <1>2, <3>1
    <3> QED BY <3>1, <3>2, <3>3
  <2> QED BY <2>1, <2>2
<1>3. IsFiniteSet(N)
  <2>1. 1 \in Int /\ n \in Int
    OBVIOUS
  <2> QED BY ONLY <2>1, FS_Interval
<1> HIDE DEF N
<1>4. good \in SUBSET (SUBSET N)
  OBVIOUS
<1>5. \A s \in SUBSET N : s \in good
  <2> HIDE DEF good
  <2> QED BY <1>2, <1>3, <1>4, SubsetsBySet
<1> QED BY <1>1, <1>5 DEF N

\* What the loops leave of the pairs they have seen.
Meets(S, L, i, j) ==
  i < j /\ {Sorted[i], Sorted[j]} \in L /\ {Sorted[i], Sorted[j]} \subseteq S

LEMMA TurnIs ==
  ASSUME NEW S, NEW L, NEW i, NEW j, NEW p \in Forests(S, L)
  PROVE  /\ Turn(S, L, i, p, j) \in Forests(S, L)
         /\ Meets(S, L, i, j) => SameRoot(Turn(S, L, i, p, j), Sorted[i], Sorted[j])
         /\ \A x, y \in S : SameRoot(p, x, y) => SameRoot(Turn(S, L, i, p, j), x, y)
<1>1. CASE Meets(S, L, i, j)
  <2>1. Turn(S, L, i, p, j) = K!Union(p, Sorted[i], Sorted[j])
    BY <1>1 DEF Turn, Meets
  <2>2. Sorted[i] \in S /\ Sorted[j] \in S /\ {Sorted[i], Sorted[j]} \in L
    BY <1>1 DEF Meets
  <2> QED BY <2>1, <2>2, UnionIs
<1>2. CASE ~Meets(S, L, i, j)
  <2>1. Turn(S, L, i, p, j) = p
    BY <1>2 DEF Turn, Meets
  <2> QED BY <1>2, <2>1
<1> QED BY <1>1, <1>2

LEMMA TurnsAreNumbered ==
  ASSUME K!CacheConstants
  PROVE  /\ Len(Sorted) \in Nat /\ DOMAIN Ids = 1 .. Len(Sorted)
         /\ \A j \in 1 .. Len(Sorted) : Ids[j] = j
<1>1. Sorted \in Seq(K!Tickers)
  BY DEF K!CacheConstants
<1>2. Len(Sorted) \in Nat /\ DOMAIN Sorted = 1 .. Len(Sorted)
  BY <1>1
<1> QED BY <1>2 DEF Ids

LEMMA InnerLoop ==
  ASSUME K!CacheConstants, NEW S, NEW L, NEW i, NEW p \in Forests(S, L)
  PROVE  LET q == K!JoinLater(S, L, p, i)
         IN  /\ q \in Forests(S, L)
             /\ \A x, y \in S : SameRoot(p, x, y) => SameRoot(q, x, y)
             /\ \A j \in 1 .. Len(Sorted) :
                  Meets(S, L, i, j) => SameRoot(q, Sorted[i], Sorted[j])
<1> PICK n \in Nat : n = Len(Sorted) /\ DOMAIN Ids = 1 .. n /\ \A j \in 1 .. n : Ids[j] = j
  BY TurnsAreNumbered
<1> DEFINE N == 1 .. n
           W == Forests(S, L)
           f == [x \in W \X N |-> Turn(S, L, i, x[1], x[2])]
           t == Inner(S, L, i, p)
<1>1. \A q \in W, j \in N : f[<<q, j>>] = Turn(S, L, i, q, j) /\ f[<<q, j>>] \in W
  BY TurnIs
<1> HIDE DEF f, W
<1>2. p \in W
  BY DEF W
<1>3. PICK g : g = [s \in SUBSET N |-> TurnRule(f, p, g, s)]
  <2>1. n \in Nat
    OBVIOUS
  <2> QED BY ONLY <2>1, FoldExists
<1>4. \A s \in SUBSET N : g[s] \in W /\ g[s] = TurnRule(f, p, g, s)
  <2>1. n \in Nat /\ \A q \in W, j \in N : f[<<q, j>>] \in W
    BY <1>1
  <2> QED BY ONLY <1>2, <1>3, <2>1, FoldStays
<1>5. ASSUME NEW s \in SUBSET N PROVE TurnRule(f, p, g, s) = InnerRule(S, L, i, p, g, s)
  <2>1. CASE s = {}
    BY <2>1 DEF TurnRule, InnerRule
  <2>2. CASE s # {}
    <3>1. K!Max(s) \in s
      BY <2>2, GreatestOfTurns
    <3>2. g[s \ {K!Max(s)}] \in W /\ K!Max(s) \in N /\ Ids[K!Max(s)] = K!Max(s)
      BY <1>4, <3>1
    <3> QED BY <1>1, <2>2, <3>2 DEF TurnRule, InnerRule
  <2> QED BY <2>1, <2>2
<1>6. g = [s \in SUBSET N |-> InnerRule(S, L, i, p, g, s)]
  <2>1. g = [s \in SUBSET N |-> g[s]]
    BY <1>3
  <2>2. \A s \in SUBSET N : g[s] = InnerRule(S, L, i, p, g, s)
    BY <1>4, <1>5
  <2> HIDE DEF N
  <2> QED BY <2>1, <2>2
<1>7. t = [s \in SUBSET N |-> InnerRule(S, L, i, p, t, s)]
  BY <1>6 DEF Inner
<1> HIDE DEF t
<1>8. \A s \in SUBSET N : t[s] = InnerRule(S, L, i, p, t, s)
  <2> HIDE DEF N
  <2> QED BY <1>7
<1> DEFINE fine(s) == /\ t[s] \in W
                      /\ \A x, y \in S : SameRoot(p, x, y) => SameRoot(t[s], x, y)
                      /\ \A j \in s : Meets(S, L, i, j) => SameRoot(t[s], Sorted[i], Sorted[j])
           good == {s \in SUBSET N : fine(s)}
<1>9. ASSUME NEW s \in SUBSET N, \A u \in SUBSET s : u # s => u \in good
      PROVE  s \in good
  <2>1. CASE s = {}
    <3>1. t[s] = p
      BY <1>8, <2>1 DEF InnerRule
    <3> QED BY <1>2, <2>1, <3>1
  <2>2. CASE s # {}
    <3> PICK m : m = K!Max(s)
      OBVIOUS
    <3>1. m \in s /\ m \in N /\ Ids[m] = m
      BY <2>2, GreatestOfTurns
    <3>2. t[s] = Turn(S, L, i, t[s \ {m}], m)
      BY <1>8, <2>2, <3>1 DEF InnerRule
    <3>3. fine(s \ {m})
      BY <1>9, <3>1
    <3>4. /\ t[s] \in W
          /\ Meets(S, L, i, m) => SameRoot(t[s], Sorted[i], Sorted[m])
          /\ \A x, y \in S : SameRoot(t[s \ {m}], x, y) => SameRoot(t[s], x, y)
      <4> PICK v : v = t[s \ {m}]
        OBVIOUS
      <4> PICK w : w = Turn(S, L, i, v, m)
        OBVIOUS
      <4>0. w = Turn(S, L, i, v, m)
        OBVIOUS
      <4>1. v \in Forests(S, L) /\ t[s] = w
        BY <3>2, <3>3 DEF W
      <4>2. /\ w \in Forests(S, L)
            /\ Meets(S, L, i, m) => SameRoot(w, Sorted[i], Sorted[m])
            /\ \A x, y \in S : SameRoot(v, x, y) => SameRoot(w, x, y)
        BY ONLY <4>0, <4>1, TurnIs
      <4>3. t[s \ {m}] = v
        OBVIOUS
      <4> QED BY ONLY <4>1, <4>2, <4>3 DEF W
    <3>5. \A j \in s : Meets(S, L, i, j) => Sorted[i] \in S /\ Sorted[j] \in S
      BY DEF Meets
    <3>6. \A j \in s : Meets(S, L, i, j) => SameRoot(t[s], Sorted[i], Sorted[j])
      BY <3>3, <3>4, <3>5
    <3>7. \A x, y \in S : SameRoot(p, x, y) => SameRoot(t[s], x, y)
      BY <3>3, <3>4
    <3> QED BY <3>4, <3>6, <3>7
  <2> QED BY <2>1, <2>2
<1>10. N \in good
  <2>1. IsFiniteSet(N)
    <3>1. 1 \in Int /\ n \in Int
      OBVIOUS
    <3> QED BY ONLY <3>1, FS_Interval
  <2>2. good \in SUBSET (SUBSET N)
    OBVIOUS
  <2> HIDE DEF good, N
  <2> QED BY <1>9, <2>1, <2>2, SubsetsBySet
<1>11. K!JoinLater(S, L, p, i) = t[N]
  <2>1. K!JoinLater(S, L, p, i) = Inner(S, L, i, p)[DOMAIN Ids]
    BY LoopsAreTables
  <2> QED BY <2>1 DEF t
<1> QED BY <1>10, <1>11 DEF W

LEMMA OuterLoop ==
  ASSUME K!CacheConstants, NEW S, NEW L
  PROVE  LET q == K!Forest(S, L)
         IN  /\ q \in Forests(S, L)
             /\ \A i, j \in 1 .. Len(Sorted) :
                  Meets(S, L, i, j) => SameRoot(q, Sorted[i], Sorted[j])
<1> PICK n \in Nat : n = Len(Sorted) /\ DOMAIN Ids = 1 .. n /\ \A j \in 1 .. n : Ids[j] = j
  BY TurnsAreNumbered
<1> DEFINE N == 1 .. n
           W == Forests(S, L)
           p == [u \in S |-> u]
           f == [x \in W \X N |-> K!JoinLater(S, L, x[1], x[2])]
           t == Outer(S, L)
<1>1. \A q \in W, i \in N : f[<<q, i>>] = K!JoinLater(S, L, q, i) /\ f[<<q, i>>] \in W
  BY InnerLoop
<1> HIDE DEF f
<1>2. p \in W
  <2> PICK zeros : zeros = [u \in S |-> 0]
    OBVIOUS
  <2>1. zeros \in [S -> Nat] /\ p \in [S -> S] /\ \A u \in S : p[u] = u
    OBVIOUS
  <2> HIDE DEF p
  <2>2. Tree(S, p, p, zeros)
    BY <2>1 DEF Tree
  <2>3. \A u \in S : Linked(S, L, u, p[u])
    BY <2>1 DEF Linked
  <2> QED BY <2>1, <2>2, <2>3 DEF Forests
<1> HIDE DEF W, p
<1>3. PICK g : g = [s \in SUBSET N |-> TurnRule(f, p, g, s)]
  <2>1. n \in Nat
    OBVIOUS
  <2> QED BY ONLY <2>1, FoldExists
<1>4. \A s \in SUBSET N : g[s] \in W /\ g[s] = TurnRule(f, p, g, s)
  <2>1. n \in Nat /\ \A q \in W, j \in N : f[<<q, j>>] \in W
    BY <1>1
  <2> QED BY ONLY <1>2, <1>3, <2>1, FoldStays
<1>5. ASSUME NEW s \in SUBSET N PROVE TurnRule(f, p, g, s) = OuterRule(S, L, g, s)
  <2>1. CASE s = {}
    BY <2>1 DEF TurnRule, OuterRule, p
  <2>2. CASE s # {}
    <3>1. K!Max(s) \in s
      BY <2>2, GreatestOfTurns
    <3>2. g[s \ {K!Max(s)}] \in W /\ K!Max(s) \in N /\ Ids[K!Max(s)] = K!Max(s)
      BY <1>4, <3>1
    <3> QED BY <1>1, <2>2, <3>2 DEF TurnRule, OuterRule
  <2> QED BY <2>1, <2>2
<1>6. g = [s \in SUBSET N |-> OuterRule(S, L, g, s)]
  <2>1. g = [s \in SUBSET N |-> g[s]]
    BY <1>3
  <2>2. \A s \in SUBSET N : g[s] = OuterRule(S, L, g, s)
    BY <1>4, <1>5
  <2> HIDE DEF N
  <2> QED BY <2>1, <2>2
<1>7. t = [s \in SUBSET N |-> OuterRule(S, L, t, s)]
  BY <1>6 DEF Outer
<1> HIDE DEF t
<1>8. \A s \in SUBSET N : t[s] = OuterRule(S, L, t, s)
  <2> HIDE DEF N
  <2> QED BY <1>7
<1> DEFINE fine(s) == /\ t[s] \in W
                      /\ \A i \in s, j \in N :
                           Meets(S, L, i, j) => SameRoot(t[s], Sorted[i], Sorted[j])
           good == {s \in SUBSET N : fine(s)}
<1>9. ASSUME NEW s \in SUBSET N, \A u \in SUBSET s : u # s => u \in good
      PROVE  s \in good
  <2>1. CASE s = {}
    <3>1. t[s] = p
      BY <1>8, <2>1 DEF OuterRule, p
    <3> QED BY <1>2, <2>1, <3>1
  <2>2. CASE s # {}
    <3> PICK m : m = K!Max(s)
      OBVIOUS
    <3>1. m \in s /\ m \in N /\ Ids[m] = m
      BY <2>2, GreatestOfTurns
    <3> PICK v : v = t[s \ {m}]
      OBVIOUS
    <3> PICK w : w = K!JoinLater(S, L, v, m)
      OBVIOUS
    <3>2. t[s] = w
      BY <1>8, <2>2, <3>1 DEF OuterRule
    <3>3. fine(s \ {m})
      BY <1>9, <3>1
    <3>4. v \in Forests(S, L)
      BY <3>3 DEF W
    <3>5. /\ w \in Forests(S, L)
          /\ \A x, y \in S : SameRoot(v, x, y) => SameRoot(w, x, y)
          /\ \A j \in N : Meets(S, L, m, j) => SameRoot(w, Sorted[m], Sorted[j])
      BY <3>4, InnerLoop
    <3>6. \A i \in s \ {m}, j \in N :
            Meets(S, L, i, j) => SameRoot(v, Sorted[i], Sorted[j])
      BY <3>3
    <3>7. \A i \in s, j \in N : Meets(S, L, i, j) => Sorted[i] \in S /\ Sorted[j] \in S
      BY DEF Meets
    <3>8. \A i \in s, j \in N : Meets(S, L, i, j) => SameRoot(w, Sorted[i], Sorted[j])
      BY <3>5, <3>6, <3>7
    <3>9. fine(s)
      BY ONLY <3>2, <3>5, <3>8 DEF W
    <3> QED BY <3>9
  <2> QED BY <2>1, <2>2
<1>10. N \in good
  <2>1. IsFiniteSet(N)
    <3>1. 1 \in Int /\ n \in Int
      OBVIOUS
    <3> QED BY ONLY <3>1, FS_Interval
  <2>2. good \in SUBSET (SUBSET N)
    OBVIOUS
  <2> HIDE DEF good, N
  <2> QED BY <1>9, <2>1, <2>2, SubsetsBySet
<1>11. K!Forest(S, L) = t[N]
  <2>1. K!Forest(S, L) = Outer(S, L)[DOMAIN Ids]
    BY LoopsAreTables
  <2> QED BY <2>1 DEF t
<1> QED BY <1>10, <1>11 DEF W

\* Union-find finds the tickers that are linked, through others too.
LEMMA GroupsAreTogether ==
  ASSUME K!CacheConstants, NEW S \in SUBSET K!Tickers, NEW L
  PROVE  K!Groups(S, L) = K!Together(S, L)
<1> DEFINE q == K!Forest(S, L)
<1>1. /\ q \in Forests(S, L)
      /\ \A i, j \in 1 .. Len(Sorted) : Meets(S, L, i, j) => SameRoot(q, Sorted[i], Sorted[j])
  BY OuterLoop
<1> HIDE DEF q
<1>2. PICK root \in [S -> S], depth \in [S -> Nat] :
        Tree(S, q, root, depth) /\ \A u \in S : Linked(S, L, u, root[u])
  BY <1>1 DEF Forests
<1>3. \A u \in S : K!Root(q, u) = root[u] /\ root[u] \in S
  BY <1>2, RootsAre
<1>4. ASSUME NEW x \in S, NEW y \in S, {x, y} \in L PROVE root[x] = root[y]
  <2>1. PICK i \in 1 .. Len(Sorted), j \in 1 .. Len(Sorted) : x = Sorted[i] /\ y = Sorted[j]
    <3>0. Sorted \in Seq(K!Tickers)
      BY DEF K!CacheConstants
    <3>1. Sorted \in Seq(K!Tickers) /\ DOMAIN Sorted = 1 .. Len(Sorted)
      BY ONLY <3>0
    <3> QED BY <3>1 DEF K!Tickers, K!ToSet
  <2>2. i \in Int /\ j \in Int
    BY TurnsAreNumbered
  <2>3. CASE i < j
    <3>1. Meets(S, L, i, j)
      BY <1>4, <2>1, <2>3 DEF Meets
    <3> QED BY <1>1, <1>3, <2>1, <3>1 DEF SameRoot
  <2>4. CASE j < i
    <3>1. {y, x} = {x, y}
      OBVIOUS
    <3>2. Meets(S, L, j, i)
      BY <1>4, <2>1, <2>4, <3>1 DEF Meets
    <3> QED BY <1>1, <1>3, <2>1, <3>2 DEF SameRoot
  <2>5. CASE i = j
    BY <2>1, <2>5
  <2> QED BY <2>2, <2>3, <2>4, <2>5
<1>5. ASSUME NEW t \in S, NEW u \in S
      PROVE  K!Root(q, u) = K!Root(q, t) <=> Linked(S, L, t, u)
  <2>1. ASSUME root[u] = root[t] PROVE Linked(S, L, t, u)
    <3>1. Linked(S, L, t, root[t]) /\ Linked(S, L, u, root[u])
      BY <1>2
    <3>2. Linked(S, L, root[t], u)
      BY <1>3, <2>1, <3>1, LinkedBothWays
    <3> QED BY <3>1, <3>2, LinkedThrough
  <2>2. ASSUME Linked(S, L, t, u) PROVE root[u] = root[t]
    <3> DEFINE c == {x \in S : root[x] = root[t]}
    <3>1. c \in SUBSET S /\ t \in c /\ Closed(S, L, c)
      BY <1>4 DEF Closed
    <3>2. u \in c
      <4> HIDE DEF c
      <4> QED BY <2>2, <3>1 DEF Linked
    <3> QED BY <3>2
  <2> QED BY <1>3, <2>1, <2>2
<1> DEFINE around(t) == {u \in S : Linked(S, L, t, u)}
<1>6. \A t \in S : {u \in S : K!Root(q, u) = K!Root(q, t)} = around(t)
  BY <1>5
<1>7. K!Groups(S, L) = {g \in {around(t) : t \in S} : K!Cardinality(g) >= 2}
  <2>1. {{u \in S : K!Root(q, u) = K!Root(q, t)} : t \in S} = {around(t) : t \in S}
    BY <1>6
  <2> QED BY <2>1 DEF K!Groups, q
<1>8. K!Together(S, L) = {g \in {around(t) : t \in S} : K!Cardinality(g) >= 2}
  <2> DEFINE whole == {c \in SUBSET S : \A t \in c, u \in S : {t, u} \in L => u \in c}
             near(t) == {u \in S : \A c \in whole : t \in c => u \in c}
  <2>1. \A t \in S : near(t) = around(t)
    BY DEF Linked, Closed
  <2>2. K!Together(S, L) = {g \in {near(t) : t \in S} : K!Cardinality(g) >= 2}
    BY DEF K!Together
  <2> HIDE DEF near, around
  <2>3. {near(t) : t \in S} = {around(t) : t \in S}
    BY <2>1
  <2> QED BY <2>2, <2>3
<1> QED BY <1>7, <1>8

LEMMA CountsOfK == \A S : K!Cardinality(S) = Cardinality(S)
BY DEF K!Cardinality, K!IsFiniteSet, Cardinality, IsFiniteSet

LEMMA SumsOfK == \A f, S : K!SumFunctionOnSet(f, S) = SumFunctionOnSet(f, S)
BY DEF K!SumFunctionOnSet, K!FoldFunctionOnSet, K!MapThenFoldSet,
       SumFunctionOnSet, FoldFunctionOnSet, MapThenFoldSet

LEMMA StocksAreFinite == ASSUME K!CacheConstants PROVE IsFiniteSet(K!Tickers)
<1> DEFINE n == Len(Sorted)
<1>1. Sorted \in Seq(K!Tickers)
  BY DEF K!CacheConstants
<1>2. n \in Nat /\ DOMAIN Sorted = 1 .. n /\ Sorted \in [1 .. n -> K!Tickers]
  BY <1>1
<1>3. \A t \in K!Tickers : \E i \in 1 .. n : Sorted[i] = t
  BY <1>2 DEF K!Tickers, K!ToSet
<1>4. Sorted \in Surjection(1 .. n, K!Tickers)
  BY <1>2, <1>3 DEF Surjection
<1>5. 1 \in Int /\ n \in Int
  BY <1>2
<1>6. IsFiniteSet(1 .. n)
  BY ONLY <1>5, FS_Interval
<1> QED BY <1>4, <1>6, FS_Surjection

Contained(g, T, L) == \E h \in K!Together(T, L) : g \subseteq h /\ h \subseteq T

\* Among more tickers a group is at least as large.
LEMMA GroupsGrow ==
  ASSUME K!CacheConstants, NEW S, NEW T \in SUBSET K!Tickers, S \subseteq T, NEW L,
         NEW g \in K!Together(S, L)
  PROVE  /\ g \subseteq S
         /\ Contained(g, T, L)
<1> DEFINE around(V, t) == {u \in V : Linked(V, L, t, u)}
           near(V, t) ==
             {u \in V :
                \A c \in {d \in SUBSET V : \A x \in d, y \in V : {x, y} \in L => y \in d} :
                  t \in c => u \in c}
<1>1. ASSUME NEW V PROVE K!Together(V, L) = {f \in {around(V, t) : t \in V} : K!Cardinality(f) >= 2}
  <2>1. \A t \in V : near(V, t) = around(V, t)
    BY DEF Linked, Closed
  <2>2. K!Together(V, L) = {f \in {near(V, t) : t \in V} : K!Cardinality(f) >= 2}
    BY DEF K!Together
  <2> HIDE DEF near, around
  <2>3. {near(V, t) : t \in V} = {around(V, t) : t \in V}
    BY <2>1
  <2> QED BY <2>2, <2>3
<1> HIDE DEF near, around
<1>2. PICK t \in S : g = around(S, t) /\ K!Cardinality(g) >= 2
  BY <1>1
<1> DEFINE h == around(T, t)
<1>3. g \subseteq h /\ g \subseteq S /\ h \subseteq T
  <2>1. \A u \in S : Linked(S, L, t, u) => Linked(T, L, t, u)
    BY LinkedInMore
  <2> QED BY <1>2, <2>1 DEF around
<1> HIDE DEF h
<1>4. IsFiniteSet(h) /\ IsFiniteSet(g)
  BY <1>3, StocksAreFinite, FS_Subset
<1>5. Cardinality(g) <= Cardinality(h) /\ Cardinality(g) \in Nat /\ Cardinality(h) \in Nat
  BY <1>3, <1>4, FS_Subset, FS_CardinalityType
<1>6. K!Cardinality(h) >= 2
  <2>1. Cardinality(g) >= 2
    BY <1>2, CountsOfK
  <2>2. Cardinality(h) >= 2
    BY <1>5, <2>1
  <2> QED BY <2>2, CountsOfK
<1>7. h \in K!Together(T, L)
  <2>1. t \in T
    OBVIOUS
  <2> QED BY <1>1, <1>6, <2>1 DEF h
<1> QED BY <1>3, <1>7 DEF Contained

\* With no less at risk, no flag is lost.
LEMMA FlagsGrow ==
  ASSUME K!CacheConstants, NEW S, NEW T \in SUBSET K!Tickers, S \subseteq T, NEW L,
         NEW few, NEW many, \A x \in S : few[x] \in Nat /\ few[x] <= many[x],
         \A x \in T : many[x] \in Nat, NEW capital \in Nat
  PROVE  /\ K!Flagged(K!Together(S, L), few, capital) \subseteq S
         /\ K!Flagged(K!Together(S, L), few, capital)
              \subseteq K!Flagged(K!Together(T, L), many, capital)
<1> SUFFICES ASSUME NEW t \in K!Flagged(K!Together(S, L), few, capital)
             PROVE  t \in S /\ t \in K!Flagged(K!Together(T, L), many, capital)
  OBVIOUS
<1> PICK limit : limit = MaxShare * capital
  OBVIOUS
<1>1. limit \in Int
  <2>1. MaxShare \in Nat
    BY DEF K!CacheConstants
  <2> QED BY <2>1
<1>2. PICK g \in K!Together(S, L) : /\ t \in g /\ capital > 0
                                   /\ SumFunctionOnSet(few, g) * 100 > limit
  BY SumsOfK DEF K!Flagged, K!AtRisk
<1>0. K!CacheConstants /\ T \in SUBSET K!Tickers /\ S \subseteq T /\ g \in K!Together(S, L)
  OBVIOUS
<1>3. g \subseteq S
  BY ONLY <1>0, GroupsGrow
<1>31. Contained(g, T, L)
  BY ONLY <1>0, GroupsGrow
<1>4. PICK h \in K!Together(T, L) : g \subseteq h /\ h \subseteq T
  BY <1>31 DEF Contained
<1>5. IsFiniteSet(h) /\ IsFiniteSet(g)
  BY <1>4, StocksAreFinite, FS_Subset
<1>6. SumFunctionOnSet(few, g) <= SumFunctionOnSet(many, g)
  <2>1. \A x \in g : few[x] \in Int /\ many[x] \in Int /\ few[x] <= many[x]
    BY <1>3, <1>4
  <2> QED BY <1>5, <2>1, SumsAreMonotone
<1>7. SumFunctionOnSet(many, g) <= SumFunctionOnSet(many, h)
  <2>1. \A x \in h : many[x] \in Nat
    BY <1>4
  <2> QED BY <1>4, <1>5, <2>1, PartsSumToLess
<1>8. /\ SumFunctionOnSet(few, g) \in Int /\ SumFunctionOnSet(many, g) \in Int
      /\ SumFunctionOnSet(many, h) \in Int
  <2>1. (\A x \in g : few[x] \in Int /\ many[x] \in Int) /\ \A x \in h : many[x] \in Int
    BY <1>3, <1>4
  <2> QED BY <1>5, <2>1, SumsOfParts
<1>9. SumFunctionOnSet(many, h) * 100 > limit
  BY <1>1, <1>2, <1>6, <1>7, <1>8
<1>10. t \in K!Flagged(K!Together(T, L), many, capital)
  <2>1. K!AtRisk(many, h) * 100 > MaxShare * capital
    BY <1>9, SumsOfK DEF K!AtRisk
  <2> QED BY <1>2, <1>4, <2>1 DEF K!Flagged
<1> QED BY <1>2, <1>3, <1>10

\* The tickers whose series are long enough.
LongOf(series) == {t \in DOMAIN series : series[t] \in {"bars", "other days"}}

LEMMA AlignedIs ==
  ASSUME NEW series
  PROVE  /\ K!Aligned(series) = {} \/ K!Aligned(series) = LongOf(series)
         /\ LongOf(series) \subseteq DOMAIN series
BY DEF K!Aligned, LongOf

\* What was stored or is about to be is of a book of tickers and of their series.
BookIs(b) == DOMAIN b \subseteq K!Tickers /\ \A t \in DOMAIN b : b[t] \in Nat

BasisIs(b) ==
  /\ BookIs(b.equity) /\ DOMAIN b.series = DOMAIN b.equity
  /\ K!Aligned(b.series) # {} /\ b.capital \in Nat

CacheInv ==
  /\ risk \in Books
  /\ clusters = [flagged |-> clusters.flagged, covered |-> clusters.covered, age |-> clusters.age]
  /\ sectors = [of |-> sectors.of, age |-> sectors.age]
  /\ refresh = [at |-> refresh.at, equity |-> refresh.equity, series |-> refresh.series]
  /\ clusters.flagged \subseteq clusters.covered /\ clusters.covered \subseteq K!Tickers
  /\ clusters.age # None =>
       /\ BasisIs(basis) /\ clusters.covered = DOMAIN basis.equity
       /\ clusters.flagged = K!Flagged(K!Groups(K!Aligned(basis.series), basis.links),
                                      basis.equity, basis.capital)
  /\ refresh.at \in {"idle", "rows", "bars"}
  /\ refresh.at # "idle" => BookIs(refresh.equity)
  /\ refresh.at = "bars" =>
       DOMAIN refresh.series = DOMAIN refresh.equity /\ K!Aligned(refresh.series) # {}
  /\ \A t \in K!Tickers : sectors.of[t] \in {None, SectorOf[t]}

\* A group among the aligned tickers is one by the definition.
LEMMA StoredFlags ==
  ASSUME K!CacheConstants, NEW b, BookIs(b), NEW series, DOMAIN series = DOMAIN b, NEW L,
         NEW capital \in Nat
  PROVE  /\ K!Flagged(K!Groups(K!Aligned(series), L), b, capital)
              = K!Flagged(K!Together(K!Aligned(series), L), b, capital)
         /\ K!Flagged(K!Groups(K!Aligned(series), L), b, capital) \subseteq DOMAIN b
<1>1. K!Aligned(series) \in SUBSET K!Tickers /\ K!Aligned(series) \subseteq DOMAIN b
  BY AlignedIs DEF BookIs
<1>2. K!Groups(K!Aligned(series), L) = K!Together(K!Aligned(series), L)
  BY <1>1, GroupsAreTogether
<1>3. \A x \in K!Aligned(series) : b[x] \in Nat /\ b[x] <= b[x]
  BY <1>1 DEF BookIs
<1>4. K!Flagged(K!Together(K!Aligned(series), L), b, capital) \subseteq K!Aligned(series)
  BY <1>1, <1>3, FlagsGrow
<1> QED BY <1>1, <1>2, <1>4

\* What the invariant says of the answers of the cache.
LEMMA AnswersMean == ASSUME K!CacheConstants, CacheInv PROVE K!AnswersAreOfTheBasis
<1> SUFFICES
      ASSUME NEW t \in K!Tickers, K!InFlaggedCluster(t) # None
      PROVE  LET tickers == {u \in DOMAIN basis.equity : basis.series[u] # None}
                 hit == t \in K!Flagged(K!Together(tickers, basis.links), basis.equity,
                                        basis.capital)
             IN  /\ K!InFlaggedCluster(t) => hit
                 /\ hit /\ ~K!InFlaggedCluster(t) =>
                      \E u \in tickers : basis.series[u] # "bars" /\ basis.series[u] # "other days"
  BY DEF K!AnswersAreOfTheBasis
<1> DEFINE some == {u \in DOMAIN basis.equity : basis.series[u] # None}
           few == K!Aligned(basis.series)
<1>1. clusters.age # None
  BY DEF K!InFlaggedCluster
<1>2. (K!InFlaggedCluster(t)) <=> (t \in clusters.flagged)
  BY DEF K!InFlaggedCluster
<1>3. /\ BasisIs(basis)
      /\ clusters.flagged = K!Flagged(K!Groups(few, basis.links), basis.equity, basis.capital)
  BY <1>1 DEF CacheInv
<1>4. BookIs(basis.equity) /\ DOMAIN basis.series = DOMAIN basis.equity
      /\ few # {} /\ basis.capital \in Nat
  BY <1>3 DEF BasisIs
<1>5. clusters.flagged = K!Flagged(K!Together(few, basis.links), basis.equity, basis.capital)
  BY <1>3, <1>4, StoredFlags
<1>6. few = LongOf(basis.series)
  BY <1>4, AlignedIs
<1>7. few \subseteq some /\ some \in SUBSET K!Tickers
  <2>1. None # "bars" /\ None # "other days"
    BY DEF K!CacheConstants
  <2> QED BY <1>4, <1>6, <2>1 DEF LongOf, BookIs
<1> HIDE DEF few, some
<1>8. \A x \in some : basis.equity[x] \in Nat
  BY <1>4 DEF BookIs, some
<1>9. t \in clusters.flagged
        => t \in K!Flagged(K!Together(some, basis.links), basis.equity, basis.capital)
  <2>1. \A x \in few : basis.equity[x] \in Nat /\ basis.equity[x] <= basis.equity[x]
    BY <1>7, <1>8
  <2>2. K!Flagged(K!Together(few, basis.links), basis.equity, basis.capital)
          \subseteq K!Flagged(K!Together(some, basis.links), basis.equity, basis.capital)
    BY <1>4, <1>7, <1>8, <2>1, FlagsGrow
  <2> QED BY <1>5, <2>2
<1>10. ASSUME t \notin clusters.flagged,
              t \in K!Flagged(K!Together(some, basis.links), basis.equity, basis.capital),
              \A u \in some : basis.series[u] \in {"bars", "other days"}
       PROVE  FALSE
  <2>1. some = few
    BY <1>4, <1>6, <1>7, <1>10 DEF LongOf, some
  <2> QED BY <1>5, <1>10, <2>1
<1> QED BY <1>2, <1>9, <1>10 DEF some

\* What the page draws when a refresh of the same rows is about to be stored.
LEMMA PageMeans == ASSUME K!CacheConstants, CacheInv PROVE K!PageSeesNoLess
<1> SUFFICES
      ASSUME refresh.at = "bars", refresh.equity = K!Equity,
             NEW f \in Fetched, NEW L \in Links, NEW capital \in Capitals,
             \A t \in DOMAIN K!Equity : f[t] = refresh.series[t],
             K!Aligned([t \in DOMAIN K!Everything |-> f[t]]) # {}
      PROVE  K!Flagged(K!Groups(K!Aligned(refresh.series), L), K!Equity, capital)
               \subseteq K!PageFlags(f, L, capital)
  BY DEF K!PageSeesNoLess
<1> DEFINE all == [t \in DOMAIN K!Everything |-> f[t]]
           few == K!Aligned(refresh.series)
           many == K!Aligned(all)
<1>1. \A t \in K!Tickers : risk[t].equity \in Nat /\ risk[t].options \in Nat
  BY DEF K!CacheConstants, CacheInv
<1>2. /\ DOMAIN K!Equity \subseteq DOMAIN K!Everything /\ DOMAIN K!Everything \subseteq K!Tickers
      /\ \A t \in DOMAIN K!Everything : K!Everything[t] \in Nat
      /\ \A t \in DOMAIN K!Equity : K!Equity[t] \in Nat /\ K!Equity[t] <= K!Everything[t]
  <2>1. /\ DOMAIN K!Equity = {t \in K!Tickers : risk[t].equity > 0}
        /\ \A t \in DOMAIN K!Equity : K!Equity[t] = risk[t].equity
    BY DEF K!Equity
  <2>2. /\ DOMAIN K!Everything = {t \in K!Tickers : risk[t].equity + risk[t].options > 0}
        /\ \A t \in DOMAIN K!Everything : K!Everything[t] = risk[t].equity + risk[t].options
    BY DEF K!Everything
  <2> HIDE DEF K!Equity, K!Everything
  <2> QED BY <1>1, <2>1, <2>2
<1>3. capital \in Nat
  BY DEF K!CacheConstants
<1>4. BookIs(K!Equity) /\ BookIs(K!Everything)
  BY <1>2 DEF BookIs
<1>5. DOMAIN refresh.series = DOMAIN K!Equity /\ few # {} /\ DOMAIN all = DOMAIN K!Everything
  BY DEF CacheInv
<1>6. few = LongOf(refresh.series) /\ many = LongOf(all) /\ many # {}
  BY <1>5, AlignedIs
<1>7. few \subseteq many /\ many \in SUBSET K!Tickers /\ many \subseteq DOMAIN K!Everything
      /\ few \subseteq DOMAIN K!Equity
  BY <1>2, <1>5, <1>6 DEF LongOf
<1> HIDE DEF few, many, all
<1>8. /\ K!Flagged(K!Groups(few, L), K!Equity, capital)
           = K!Flagged(K!Together(few, L), K!Equity, capital)
      /\ K!Flagged(K!Groups(many, L), K!Everything, capital)
           = K!Flagged(K!Together(many, L), K!Everything, capital)
  BY <1>3, <1>4, <1>5, StoredFlags DEF few, many
<1>9. K!Flagged(K!Together(few, L), K!Equity, capital)
        \subseteq K!Flagged(K!Together(many, L), K!Everything, capital)
  <2>1. /\ \A x \in few : K!Equity[x] \in Nat /\ K!Equity[x] <= K!Everything[x]
        /\ \A x \in many : K!Everything[x] \in Nat
    BY <1>2, <1>7
  <2>2. K!CacheConstants /\ few \subseteq many /\ many \in SUBSET K!Tickers /\ capital \in Nat
    BY <1>3, <1>7
  <2> QED BY ONLY <2>1, <2>2, FlagsGrow
<1>10. Cardinality(DOMAIN K!Everything) >= 2
  <2>1. K!Cardinality({t \in DOMAIN all : all[t] \in {"bars", "other days"}}) >= 2
    <3> DEFINE long == {t \in DOMAIN all : all[t] \in {"bars", "other days"}}
    <3>1. long \subseteq DOMAIN K!Everything
      BY <1>5
    <3>2. IsFiniteSet(long)
      BY <1>2, <3>1, StocksAreFinite, FS_Subset
    <3>3. ~(K!Cardinality(long) < 2)
      BY <1>6 DEF K!Aligned, many
    <3>4. K!Cardinality(long) \in Nat
      BY <3>2, CountsOfK, FS_CardinalityType
    <3>5. PICK n : n = K!Cardinality(long)
      OBVIOUS
    <3>6. n \in Nat /\ ~(n < 2)
      BY <3>3, <3>4, <3>5
    <3>7. n >= 2
      BY ONLY <3>6
    <3> QED BY <3>5, <3>7
  <2>2. many = {t \in DOMAIN all : all[t] \in {"bars", "other days"}}
    BY <1>6 DEF LongOf
  <2>3. Cardinality(many) >= 2
    BY <2>1, <2>2, CountsOfK
  <2>4. IsFiniteSet(DOMAIN K!Everything)
    BY <1>2, StocksAreFinite, FS_Subset
  <2>5. /\ Cardinality(many) <= Cardinality(DOMAIN K!Everything) /\ Cardinality(many) \in Nat
        /\ Cardinality(DOMAIN K!Everything) \in Nat
    BY <1>7, <2>4, FS_Subset, FS_CardinalityType
  <2> QED BY <2>3, <2>5
<1>11. K!PageFlags(f, L, capital) = K!Flagged(K!Groups(many, L), K!Everything, capital)
  <2>1. ~(K!Cardinality(DOMAIN K!Everything) < 2)
    <3>1. Cardinality(DOMAIN K!Everything) \in Nat
      BY <1>2, StocksAreFinite, FS_Subset, FS_CardinalityType
    <3> QED BY <1>10, <3>1, CountsOfK
  <2> QED BY <2>1 DEF K!PageFlags, many, all
<1>12. few = K!Aligned(refresh.series)
  BY DEF few
<1> QED BY <1>8, <1>9, <1>11, <1>12

LEMMA CachesMean == ASSUME K!CacheConstants, CacheInv PROVE K!CachesHold /\ K!TypeOK
<1>1. K!CachesHold
  BY AnswersMean, PageMeans DEF K!CachesHold
<1>2. K!TypeOK
  BY DEF K!TypeOK, CacheInv
<1> QED BY <1>1, <1>2

LEMMA CachesStart == ASSUME K!Init PROVE CacheInv
BY DEF K!Init, K!NoClusters, K!NoRefresh, CacheInv

LEMMA CachesKept ==
  ASSUME K!CacheConstants, CacheInv, [K!Next]_(K!vars) PROVE CacheInv'
<1>1. CASE K!ReadRows
  <2>1. BookIs(K!Equity)
    <3>1. \A t \in K!Tickers : risk[t].equity \in Nat
      BY DEF K!CacheConstants, CacheInv
    <3> QED BY <3>1 DEF K!Equity, BookIs
  <2>2. /\ refresh' = [at |-> "rows", equity |-> K!Equity, series |-> None]
        /\ UNCHANGED <<risk, clusters, basis, sectors>>
    BY <1>1 DEF K!ReadRows, K!NoRefresh
  <2> HIDE DEF K!Equity
  <2> QED BY <2>1, <2>2 DEF CacheInv
<1>2. CASE K!FetchBars
  <2>1. PICK series : /\ DOMAIN series = DOMAIN refresh.equity
                      /\ refresh' = IF K!Aligned(series) = {} THEN K!NoRefresh
                                    ELSE [refresh EXCEPT !.at = "bars", !.series = series]
                      /\ UNCHANGED <<risk, clusters, basis, sectors>> /\ refresh.at = "rows"
    BY <1>2 DEF K!FetchBars
  <2>2. CASE K!Aligned(series) = {}
    BY <2>1, <2>2 DEF CacheInv, K!NoRefresh
  <2>3. CASE K!Aligned(series) # {}
    <3>1. refresh' = [at |-> "bars", equity |-> refresh.equity, series |-> series]
      BY <2>1, <2>3 DEF CacheInv
    <3> QED BY <2>1, <2>3, <3>1 DEF CacheInv
  <2> QED BY <2>2, <2>3
<1>3. CASE K!Store
  <2>1. PICK L \in Links, capital \in Capitals :
          /\ clusters' = [flagged |-> K!Flagged(K!Groups(K!Aligned(refresh.series), L),
                                                refresh.equity, capital),
                          covered |-> DOMAIN refresh.equity, age |-> 0]
          /\ basis' = [equity |-> refresh.equity, series |-> refresh.series,
                       links |-> L, capital |-> capital]
    BY <1>3 DEF K!Store
  <2>2. /\ refresh' = [at |-> "idle", equity |-> None, series |-> None]
        /\ UNCHANGED <<risk, sectors>> /\ refresh.at = "bars"
    BY <1>3 DEF K!Store, K!NoRefresh
  <2>3. capital \in Nat
    BY DEF K!CacheConstants
  <2>4. /\ BookIs(refresh.equity) /\ DOMAIN refresh.series = DOMAIN refresh.equity
        /\ K!Aligned(refresh.series) # {}
    BY <2>2 DEF CacheInv
  <2>5. K!Flagged(K!Groups(K!Aligned(refresh.series), L), refresh.equity, capital)
          \subseteq DOMAIN refresh.equity
    BY <2>3, <2>4, StoredFlags
  <2>6. BasisIs(basis')
    BY <2>1, <2>3, <2>4 DEF BasisIs
  <2>7. DOMAIN refresh.equity \subseteq K!Tickers
    BY <2>4 DEF BookIs
  <2> QED BY <2>1, <2>2, <2>5, <2>6, <2>7 DEF CacheInv
<1>4. CASE K!CutOff
  BY <1>4 DEF K!CutOff, K!NoRefresh, CacheInv
<1>5. CASE K!RefreshSectors
  BY <1>5 DEF K!RefreshSectors, CacheInv
<1>6. CASE K!TimePasses
  <2>1. /\ clusters' = [flagged |-> clusters.flagged, covered |-> clusters.covered,
                        age |-> K!Older(clusters.age, ClusterStale)]
        /\ sectors' = [of |-> sectors.of, age |-> K!Older(sectors.age, SectorStale)]
        /\ UNCHANGED <<risk, basis, refresh>>
    BY <1>6 DEF K!TimePasses, CacheInv
  <2>2. clusters.age = None => K!Older(clusters.age, ClusterStale) = None
    BY DEF K!Older
  <2> QED BY <2>1, <2>2 DEF CacheInv
<1>7. CASE K!Trades
  BY <1>7 DEF K!Trades, CacheInv
<1>8. CASE K!Restart
  BY <1>8 DEF K!Restart, K!NoClusters, K!NoRefresh, CacheInv
<1>9. CASE UNCHANGED K!vars
  BY <1>9 DEF K!vars, CacheInv
<1> QED BY <1>1, <1>2, <1>3, <1>4, <1>5, <1>6, <1>7, <1>8, <1>9 DEF K!Next

-----------------------------------------------------------------------------
(* The run.                                                                *)

RunInv ==
  /\ MonitorInv /\ SnapshotInv /\ (subject = "gates" => GatesInv)
  /\ BookInv /\ SectorsFit
  /\ TypeOK /\ RecordInv /\ ExcursionInv /\ CacheInv
  /\ OutcomeInv /\ kept \in BOOLEAN

LEMMA RunStarts == SumInit => RunInv
<1> SUFFICES ASSUME SumInit PROVE RunInv
  OBVIOUS
<1>1. M!Init /\ D!Init /\ P!Init /\ K!Init /\ R!Init /\ E!Init /\ Init
  BY DEF SumInit
<1>2. subject = "gates" => GatesInv
  BY DEF SumInit, GatesInv, G!TypeOK, G!Passed
<1>3. MonitorInv /\ SnapshotInv
  BY <1>1, MonitorStarts, SnapshotStarts, MonitorAssumption
<1>4. BookInv /\ SectorsFit
  BY <1>1, BookStarts, SectorsStart
<1>5. TypeOK
  BY <1>1, TypeStarts
<1>6. RecordInv /\ ExcursionInv /\ CacheInv
  BY <1>1, RecordsStart, ExcursionsStart, CachesStart, SnapshotAssumption, ExcursionAssumption
<1>7. OutcomeInv /\ kept \in BOOLEAN
  BY <1>1, OutcomesStart, OutcomeAssumption
<1> QED BY <1>2, <1>3, <1>4, <1>5, <1>6, <1>7 DEF RunInv

\* A step of the run is one of each component or leaves it alone.
LEMMA RunSteps ==
  ASSUME [SumNext]_sumVars
  PROVE  /\ subject' = subject
         /\ [M!Next]_(M!vars)
         /\ [D!Next]_(D!vars)
         /\ subject = "gates" => [G!Next]_(G!vars)
         /\ [P!Next]_(P!vars)
         /\ [K!Next]_(K!vars)
         /\ [R!Next]_(R!vars)
         /\ [E!Next]_(E!vars)
         /\ [Next]_vars
<1> USE DEF monitorVars, gateVars, snapshotVars, portfolioVars, cacheVars, outcomeVars,
            excursionVars, M!vars, M!memory, D!vars, G!vars, P!vars, K!vars, R!vars, E!vars
<1>1. CASE UNCHANGED sumVars
  BY <1>1 DEF sumVars
<1>2. CASE SumNext
  BY <1>2 DEF SumNext
<1> QED BY <1>1, <1>2

LEMMA RunKept == RunInv /\ [SumNext]_sumVars => RunInv'
<1> SUFFICES ASSUME RunInv, [SumNext]_sumVars PROVE RunInv'
  OBVIOUS
<1>1. MonitorInv' /\ SnapshotInv'
  BY RunSteps, MonitorKept, SnapshotKept, MonitorAssumption DEF RunInv
<1>2. subject' = "gates" => GatesInv'
  BY RunSteps, GatesKept DEF RunInv
<1>3. BookInv' /\ SectorsFit'
  BY RunSteps, BookKept, SectorsKept, PortfolioAssumption, CacheAssumption DEF RunInv
<1>4. TypeOK'
  BY RunSteps, TypeKept DEF RunInv
<1>5. RecordInv' /\ ExcursionInv'
  BY RunSteps, RecordsKept, ExcursionsKept, SnapshotAssumption, ExcursionAssumption DEF RunInv
<1>6. CacheInv'
  BY RunSteps, CachesKept, CacheAssumption DEF RunInv
<1>7. OutcomeInv' /\ kept' \in BOOLEAN
  BY RunSteps, OutcomesKept, OutcomeAssumption DEF RunInv
<1> QED BY <1>1, <1>2, <1>3, <1>4, <1>5, <1>6, <1>7 DEF RunInv

LEMMA RunHolds == SumSpec => []RunInv
BY RunStarts, RunKept, PTL DEF SumSpec

\* Whatever passes still passes when something changes in its favour.
THEOREM HelpNeverHurts == SumSpec => []PassSurvivesHelp
<1>1. RunInv => PassSurvivesHelp
  BY HelpFromGates, GatesAssumption DEF RunInv, PassSurvivesHelp
<1> QED BY <1>1, RunHolds, PTL

\* The persisted peak falls only when polls overlap, and the record of the day's
\* best is made in its day and stays.
THEOREM PeakFallsInRaces == SumSpec => PeakLossTakesARace
<1>1. RunInv /\ [SumNext]_sumVars => [peak # None /\ peak' < peak => overlapped]_peak
  BY RunSteps, PeakStep, MonitorAssumption DEF RunInv
<1>2. RunInv /\ [SumNext]_sumVars =>
        [\A d \in 0 .. LastDay :
           /\ frozen[d] # None => frozen'[d] = frozen[d]
           /\ frozen'[d] # frozen[d] => d = date /\ hour # 0 /\ d \notin Weekend]_(D!vars)
  BY RunSteps, FrozenStays DEF RunInv
<1> QED BY <1>1, <1>2, RunHolds, PTL
        DEF SumSpec, PeakLossTakesARace, M!PeakLossTakesARace, D!Immutable

\* An admission on a book that was read leaves the book, measured anew, within the
\* limits on the ticker, on a sector with a name, on all risk and on the number of
\* positions; and the sector a ticker is judged by is lost only with the cache.
THEOREM LimitsHold == SumSpec => AdmissionKeepsLimits
<1>1. RunInv /\ [SumNext]_sumVars =>
        [book' # book => \A s \in P!Candidates :
           (worth > 0 /\ P!Sound(s) /\ P!Admit(s)) =>
             /\ P!RiskIn(book', {s.ticker}) * 100 <= P!MaxSingle * worth
             /\ P!Cappable(StockSector[s.ticker]) =>
                  P!RiskIn(book', P!InSector(StockSector[s.ticker])) * 100 <= P!MaxSector * worth
             /\ P!RiskIn(book', Stocks) * 100 <= P!HeatHigh * worth
             /\ P!Cardinality(P!Held(book')) <= GlobalMax]_(P!vars)
  BY AdmissionStep, CardinalitiesAgree, PortfolioAssumption DEF RunInv
<1>2. RunInv /\ [SumNext]_sumVars =>
        [\A t \in K!Tickers :
           K!SectorFor(t) # "Unknown" /\ K!SectorFor(t)' = "Unknown" =>
             sectors'.age = None \/ sectors'.age > SectorStale]_(K!vars)
  BY RunSteps, SectorStep, CacheAssumption DEF RunInv
<1> QED BY <1>1, <1>2, RunHolds, PTL
        DEF SumSpec, AdmissionKeepsLimits, P!AdmissionKeepsLimits, K!SectorSticks

\* What is kept on record is true: an event repeats only when polls overlap, a label
\* is what the finished bars say and a wrong one takes a running bar, a cached yes or
\* no and the page agree with the clusters' definition, the record of a day's best has
\* nothing in it that came later, and a trade's excursion and exit are its own.
THEOREM RecordsAreRight == SumSpec => []RecordsAreTrue
<1>1. RunInv => RecordsAreTrue
  <2> SUFFICES ASSUME RunInv PROVE RecordsAreTrue
    OBVIOUS
  <2>1. M!RepeatTakesARace
    BY DEF RunInv, MonitorInv
  <2>2. R!WrongLabelTakesARunningBar
    BY OutcomesMean DEF RunInv
  <2>3. K!CachesHold
    BY CachesMean, CacheAssumption DEF RunInv
  <2>4. D!NoHindsight /\ E!TradesAreMeasured
    BY RecordsMean, TradesAreMeasuredBy DEF RunInv
  <2> QED BY <2>1, <2>2, <2>3, <2>4 DEF RecordsAreTrue
<1> QED BY <1>1, RunHolds, PTL

\* Every part's state is of its type.
THEOREM PathIsTyped == SumSpec => []AllTyped
<1>1. RunInv => AllTyped
  <2> SUFFICES ASSUME RunInv PROVE AllTyped
    OBVIOUS
  <2>1. TypeOK /\ M!TypeOK /\ P!TypeOK
    BY DEF RunInv, MonitorInv, BookInv
  <2>2. subject = "gates" => G!TypeOK
    BY DEF RunInv, GatesInv
  <2>3. R!TypeOK /\ K!TypeOK
    BY OutcomesMean, CachesMean, CacheAssumption DEF RunInv
  <2>4. D!TypeOK /\ E!TypeOK
    BY RecordsMean, TradesAreMeasuredBy DEF RunInv
  <2> QED BY <2>1, <2>2, <2>3, <2>4 DEF AllTyped
<1> QED BY <1>1, RunHolds, PTL
=============================================================================
