-------------------------- MODULE KillSwitchProofs --------------------------
(* Theorems about KillSwitch, for every set of requests and tickers, and   *)
(* about the orders and the positions of the desk, for all orders, days,   *)
(* rows and closes: what the desk shows is what it then does.              *)
EXTENDS MCHaltAndLedger, FiniteSetTheorems, TLAPS

(***************************************************************************)
(* The inductive invariant.  A dead process runs nothing and has no flag   *)
(* up; what the operator was told rests on the newest row; the halt that   *)
(* engage() began counts as exempt every execution and order that was      *)
(* under way, and its snapshot covers whatever else is held.               *)
(***************************************************************************)
DeadIsQuiet ==
  proc = "down" =>
    /\ ~engaged /\ ~mirror /\ leader = None
    /\ \A r \in Requests : req[r] = "idle"
    /\ \A t \in Tickers : exec[t] = "idle"

AckInv ==
  ack => /\ lastEvent = "kill_switch"
         /\ \A r \in Requests : ~Resetting(r)
         /\ proc = "up" => engaged

UnderWay(t) == exec[t] # "idle" \/ t \in orders

HaltInv ==
  /\ flattened => leader # None /\ held \subseteq exempt
  /\ leader # None =>
       /\ engaged /\ proc = "up"
       /\ \A t \in Tickers : UnderWay(t) => t \in exempt
       /\ req[leader] = "flatten" => held \subseteq snap[leader] \cup exempt
  /\ engaged /\ leader = None => \A t \in Tickers : exec[t] = "idle"

IInv ==
  /\ TypeOK /\ DeadIsQuiet /\ AckInv /\ HaltInv
  /\ PhantomHaltOnlyFromRiskReset /\ HaltedOrdersAreManaged

-----------------------------------------------------------------------------
LEMMA InitIInv == Init => IInv
<1> SUFFICES ASSUME Init PROVE IInv
  OBVIOUS
<1>1. /\ req \in [Requests -> ReqPlaces]
      /\ snap \in [Requests -> SUBSET Tickers]
      /\ exec \in [Tickers -> ExecPlaces]
      /\ tries \in [Tickers -> 0 .. MaxRetries]
  BY RetriesAssumption DEF Init, ReqPlaces, ExecPlaces
<1>2. TypeOK
  BY <1>1 DEF Init, TypeOK, EventTypes, Reasons
<1>3. DeadIsQuiet /\ AckInv
  BY DEF Init, DeadIsQuiet, AckInv
<1>4. HaltInv
  BY DEF Init, HaltInv
<1>5. PhantomHaltOnlyFromRiskReset /\ HaltedOrdersAreManaged
  BY DEF Init, PhantomHaltOnlyFromRiskReset, HaltedOrdersAreManaged
<1> QED BY <1>2, <1>3, <1>4, <1>5 DEF IInv

LEMMA TypeStep == TypeOK /\ [Next]_vars => TypeOK'
<1> SUFFICES ASSUME TypeOK, [Next]_vars PROVE TypeOK'
  OBVIOUS
<1> USE NoneAssumption, RetriesAssumption
    DEF TypeOK, EventTypes, Reasons, ReqPlaces, ExecPlaces, memory, broker,
        tasks, history
<1>1. ASSUME NEW r \in Requests, DeskEngage(r) PROVE TypeOK'
  BY <1>1 DEF DeskEngage, ServiceEngage
<1>2. ASSUME NEW r \in Requests, RiskEngage(r) PROVE TypeOK'
  BY <1>2 DEF RiskEngage, ServiceEngage
<1>3. ASSUME NEW r \in Requests, DeskReset(r) \/ RiskReset(r) PROVE TypeOK'
  BY <1>3 DEF DeskReset, RiskReset, ServiceReset
<1>4. ASSUME NEW r \in Requests, RequestStep(r) PROVE TypeOK'
  <2>1. CASE ReadPositions(r)
    BY <2>1 DEF ReadPositions
  <2>2. CASE Flatten(r)
    BY <2>2 DEF Flatten
  <2>3. CASE PersistEngage(r)
    BY <2>3 DEF PersistEngage
  <2>4. CASE FinishReset(r)
    BY <2>4 DEF FinishReset
  <2> QED BY <1>4, <2>1, <2>2, <2>3, <2>4 DEF RequestStep
<1>5. ASSUME NEW t \in Tickers, StageOne(t) \/ ExecStep(t) PROVE TypeOK'
  <2>1. CASE StageOne(t) \/ Decline(t)
    BY <2>1 DEF StageOne, Decline
  <2>2. CASE Submit(t)
    BY <2>2 DEF Submit
  <2>3. CASE TimeOut(t)
    BY <2>3 DEF TimeOut
  <2>4. CASE Resubmit(t)
    BY <2>4 DEF Resubmit
  <2>5. CASE OrderDone(t)
    BY <2>5 DEF OrderDone
  <2> QED BY <1>5, <2>1, <2>2, <2>3, <2>4, <2>5 DEF ExecStep
<1>6. ASSUME NEW t \in Tickers, BrokerFill(t) \/ BrokerCancel(t) \/ BrokerExit(t)
      PROVE TypeOK'
  BY <1>6 DEF BrokerFill, BrokerCancel, BrokerExit
<1>7. CASE Crash
  <2>1. /\ req' \in [Requests -> ReqPlaces]
        /\ snap' \in [Requests -> SUBSET Tickers]
        /\ exec' \in [Tickers -> ExecPlaces]
        /\ tries' \in [Tickers -> 0 .. MaxRetries]
    BY <1>7 DEF Crash
  <2>2. /\ engaged' \in BOOLEAN /\ unverified' \in BOOLEAN
        /\ wired' \in BOOLEAN /\ mirror' \in BOOLEAN
        /\ flattened' \in BOOLEAN /\ ack' \in BOOLEAN
        /\ deadEngaged' \in BOOLEAN
    BY <1>7 DEF Crash
  <2>3. /\ proc' \in {"down", "up"} /\ reason' \in Reasons
        /\ lastEvent' \in EventTypes
        /\ orders' \subseteq Tickers /\ cancelling' \subseteq orders'
        /\ held' \subseteq Tickers /\ exempt' \subseteq Tickers
        /\ leader' \in Requests \cup {None}
        /\ resetVia' \in {"none", "desk", "risk"}
    BY <1>7 DEF Crash
  <2> QED BY <2>1, <2>2, <2>3
<1>8. CASE BootRead \/ BootUnreadable \/ BootBlind
  <2>1. Booted
    BY <1>8 DEF BootRead, BootUnreadable, BootBlind
  <2>2. /\ engaged' \in BOOLEAN /\ unverified' \in BOOLEAN
        /\ wired' \in BOOLEAN /\ ack' \in BOOLEAN
    BY <1>8 DEF BootRead, BootUnreadable, BootBlind
  <2>3. reason' \in Reasons
    BY <1>8 DEF BootRead, BootUnreadable, BootBlind
  <2> QED BY <2>1, <2>2, <2>3 DEF Booted
<1>9. CASE UNCHANGED vars
  BY <1>9 DEF vars
<1> QED
  BY <1>1, <1>2, <1>3, <1>4, <1>5, <1>6, <1>7, <1>8, <1>9 DEF Next

\* Type correctness of the switch, its requests, executions and broker book.
THEOREM TypeCorrect == Spec => []TypeOK
<1>1. Init => TypeOK
  BY InitIInv DEF IInv
<1>2. QED
  BY <1>1, TypeStep, PTL DEF Spec

-----------------------------------------------------------------------------
(* Preservation of the invariant, conjunct by conjunct.                    *)

LEMMA DeadStep == IInv /\ [Next]_vars => DeadIsQuiet'
<1> SUFFICES ASSUME IInv, [Next]_vars PROVE DeadIsQuiet'
  OBVIOUS
<1> USE DEF IInv, TypeOK, DeadIsQuiet, memory, broker, tasks, history
<1>1. ASSUME NEW r \in Requests,
             DeskEngage(r) \/ RiskEngage(r) \/ DeskReset(r) \/ RiskReset(r)
      PROVE DeadIsQuiet'
  BY <1>1 DEF DeskEngage, RiskEngage, DeskReset, RiskReset, ServiceReset
<1>2. ASSUME NEW r \in Requests, RequestStep(r) PROVE DeadIsQuiet'
  BY <1>2 DEF RequestStep, ReadPositions, Flatten, PersistEngage,
              FinishReset, Resetting
<1>3. ASSUME NEW t \in Tickers, StageOne(t) \/ ExecStep(t)
      PROVE DeadIsQuiet'
  BY <1>3 DEF StageOne, ExecStep, Decline, Submit, TimeOut, Resubmit,
              OrderDone
<1>4. ASSUME NEW t \in Tickers,
             BrokerFill(t) \/ BrokerCancel(t) \/ BrokerExit(t)
      PROVE DeadIsQuiet'
  BY <1>4 DEF BrokerFill, BrokerCancel, BrokerExit
<1>5. CASE Crash
  BY <1>5 DEF Crash
<1>6. CASE BootRead \/ BootUnreadable \/ BootBlind
  BY <1>6 DEF BootRead, BootUnreadable, BootBlind, Booted
<1>7. CASE UNCHANGED vars
  BY <1>7 DEF vars
<1> QED
  BY <1>1, <1>2, <1>3, <1>4, <1>5, <1>6, <1>7 DEF Next

LEMMA AckStep == IInv /\ [Next]_vars => AckInv'
<1> SUFFICES ASSUME IInv, [Next]_vars PROVE AckInv'
  OBVIOUS
<1> USE DEF IInv, TypeOK, AckInv, DeadIsQuiet, Resetting, memory, broker,
            tasks, history
<1>1. ASSUME NEW r \in Requests, DeskEngage(r) \/ RiskEngage(r)
      PROVE AckInv'
  BY <1>1 DEF DeskEngage, RiskEngage, ServiceEngage
<1>2. ASSUME NEW r \in Requests, DeskReset(r) \/ RiskReset(r)
      PROVE AckInv'
  BY <1>2 DEF DeskReset, RiskReset, ServiceReset
<1>3. ASSUME NEW r \in Requests, ReadPositions(r) \/ Flatten(r)
      PROVE AckInv'
  BY <1>3 DEF ReadPositions, Flatten
<1>4. ASSUME NEW r \in Requests, PersistEngage(r) PROVE AckInv'
  BY <1>4 DEF PersistEngage
<1>5. ASSUME NEW r \in Requests, FinishReset(r) PROVE AckInv'
  BY <1>5 DEF FinishReset
<1>6. ASSUME NEW t \in Tickers, StageOne(t) \/ ExecStep(t)
      PROVE AckInv'
  BY <1>6 DEF StageOne, ExecStep, Decline, Submit, TimeOut, Resubmit,
              OrderDone
<1>7. ASSUME NEW t \in Tickers,
             BrokerFill(t) \/ BrokerCancel(t) \/ BrokerExit(t)
      PROVE AckInv'
  BY <1>7 DEF BrokerFill, BrokerCancel, BrokerExit
<1>8. CASE Crash
  BY <1>8 DEF Crash
<1>9. CASE BootRead \/ BootUnreadable \/ BootBlind
  BY <1>9 DEF BootRead, BootUnreadable, BootBlind, Booted
<1>10. CASE UNCHANGED vars
  BY <1>10 DEF vars
<1> QED
  BY <1>1, <1>2, <1>3, <1>4, <1>5, <1>6, <1>7, <1>8, <1>9, <1>10
  DEF Next, RequestStep

LEMMA PhantomStep ==
  IInv /\ [Next]_vars => PhantomHaltOnlyFromRiskReset'
<1> SUFFICES ASSUME IInv, [Next]_vars
             PROVE  PhantomHaltOnlyFromRiskReset'
  OBVIOUS
<1> USE DEF IInv, TypeOK, PhantomHaltOnlyFromRiskReset, DeadIsQuiet,
            Resetting, memory, broker, tasks, history
<1>1. ASSUME NEW r \in Requests, DeskEngage(r) \/ RiskEngage(r)
      PROVE PhantomHaltOnlyFromRiskReset'
  BY <1>1 DEF DeskEngage, RiskEngage, ServiceEngage
<1>2. ASSUME NEW r \in Requests, DeskReset(r) \/ RiskReset(r)
      PROVE PhantomHaltOnlyFromRiskReset'
  BY <1>2 DEF DeskReset, RiskReset, ServiceReset
<1>3. ASSUME NEW r \in Requests, ReadPositions(r) \/ Flatten(r)
      PROVE PhantomHaltOnlyFromRiskReset'
  BY <1>3 DEF ReadPositions, Flatten
<1>4. ASSUME NEW r \in Requests, PersistEngage(r)
      PROVE PhantomHaltOnlyFromRiskReset'
  BY <1>4 DEF PersistEngage
<1>5. ASSUME NEW r \in Requests, FinishReset(r)
      PROVE PhantomHaltOnlyFromRiskReset'
  BY <1>5 DEF FinishReset
<1>6. ASSUME NEW t \in Tickers, StageOne(t) \/ ExecStep(t)
      PROVE PhantomHaltOnlyFromRiskReset'
  BY <1>6 DEF StageOne, ExecStep, Decline, Submit, TimeOut, Resubmit,
              OrderDone
<1>7. ASSUME NEW t \in Tickers,
             BrokerFill(t) \/ BrokerCancel(t) \/ BrokerExit(t)
      PROVE PhantomHaltOnlyFromRiskReset'
  BY <1>7 DEF BrokerFill, BrokerCancel, BrokerExit
<1>8. CASE Crash
  BY <1>8 DEF Crash
<1>9. CASE BootRead \/ BootUnreadable \/ BootBlind
  BY <1>9 DEF BootRead, BootUnreadable, BootBlind, Booted
<1>10. CASE UNCHANGED vars
  BY <1>10 DEF vars
<1> QED
  BY <1>1, <1>2, <1>3, <1>4, <1>5, <1>6, <1>7, <1>8, <1>9, <1>10
  DEF Next, RequestStep

LEMMA HaltStep == IInv /\ [Next]_vars => HaltInv'
<1> SUFFICES ASSUME IInv, [Next]_vars PROVE HaltInv'
  OBVIOUS
<1> USE NoneAssumption
    DEF IInv, TypeOK, HaltInv, UnderWay, DeadIsQuiet, memory, broker, tasks,
        history
<1>1. ASSUME NEW r \in Requests, DeskEngage(r) \/ RiskEngage(r)
      PROVE HaltInv'
  BY <1>1 DEF DeskEngage, RiskEngage, ServiceEngage, Active
<1>2. ASSUME NEW r \in Requests, DeskReset(r) \/ RiskReset(r)
      PROVE HaltInv'
  BY <1>2 DEF DeskReset, RiskReset, ServiceReset
<1>3. ASSUME NEW r \in Requests, ReadPositions(r)
      PROVE HaltInv'
  BY <1>3 DEF ReadPositions
<1>4. ASSUME NEW r \in Requests, Flatten(r) PROVE HaltInv'
  BY <1>4 DEF Flatten
<1>5. ASSUME NEW r \in Requests, PersistEngage(r) \/ FinishReset(r)
      PROVE HaltInv'
  BY <1>5 DEF PersistEngage, FinishReset
<1>6. ASSUME NEW t \in Tickers, StageOne(t) \/ ExecStep(t)
      PROVE HaltInv'
  <2>1. CASE StageOne(t)
    BY <2>1 DEF StageOne, Active
  <2>2. CASE Decline(t)
    BY <2>2 DEF Decline
  <2>3. CASE Submit(t)
    BY <2>3 DEF Submit
  <2>4. CASE TimeOut(t)
    BY <2>4 DEF TimeOut
  <2>5. CASE Resubmit(t)
    BY <2>5 DEF Resubmit
  <2>6. CASE OrderDone(t)
    BY <2>6 DEF OrderDone
  <2> QED BY <1>6, <2>1, <2>2, <2>3, <2>4, <2>5, <2>6 DEF ExecStep
<1>7. ASSUME NEW t \in Tickers,
             BrokerFill(t) \/ BrokerCancel(t) \/ BrokerExit(t)
      PROVE HaltInv'
  BY <1>7 DEF BrokerFill, BrokerCancel, BrokerExit
<1>8. CASE Crash
  BY <1>8 DEF Crash
<1>9. CASE BootRead \/ BootUnreadable \/ BootBlind
  BY <1>9 DEF BootRead, BootUnreadable, BootBlind, Booted
<1>10. CASE UNCHANGED vars
  BY <1>10 DEF vars
<1> QED
  BY <1>1, <1>2, <1>3, <1>4, <1>5, <1>6, <1>7, <1>8, <1>9, <1>10
  DEF Next, RequestStep

LEMMA ManagedStep == IInv /\ [Next]_vars => HaltedOrdersAreManaged'
<1> SUFFICES ASSUME IInv, [Next]_vars PROVE HaltedOrdersAreManaged'
  OBVIOUS
<1> USE NoneAssumption
    DEF IInv, TypeOK, HaltedOrdersAreManaged, DeadIsQuiet, memory, broker, tasks,
        history
<1>1. ASSUME NEW r \in Requests, DeskEngage(r) \/ RiskEngage(r)
      PROVE HaltedOrdersAreManaged'
  BY <1>1 DEF DeskEngage, RiskEngage, ServiceEngage, Active
<1>2. ASSUME NEW r \in Requests, DeskReset(r) \/ RiskReset(r)
      PROVE HaltedOrdersAreManaged'
  BY <1>2 DEF DeskReset, RiskReset, ServiceReset
<1>3. ASSUME NEW r \in Requests, ReadPositions(r)
      PROVE HaltedOrdersAreManaged'
  BY <1>3 DEF ReadPositions
<1>4. ASSUME NEW r \in Requests, Flatten(r) PROVE HaltedOrdersAreManaged'
  BY <1>4 DEF Flatten
<1>5. ASSUME NEW r \in Requests, PersistEngage(r) \/ FinishReset(r)
      PROVE HaltedOrdersAreManaged'
  BY <1>5 DEF PersistEngage, FinishReset
<1>6. ASSUME NEW t \in Tickers, StageOne(t) \/ ExecStep(t)
      PROVE HaltedOrdersAreManaged'
  <2>1. CASE StageOne(t)
    BY <2>1 DEF StageOne, Active
  <2>2. CASE Decline(t)
    BY <2>2 DEF Decline
  <2>3. CASE Submit(t)
    BY <2>3 DEF Submit
  <2>4. CASE TimeOut(t)
    BY <2>4 DEF TimeOut
  <2>5. CASE Resubmit(t)
    BY <2>5 DEF Resubmit
  <2>6. CASE OrderDone(t)
    BY <2>6 DEF OrderDone
  <2> QED BY <1>6, <2>1, <2>2, <2>3, <2>4, <2>5, <2>6 DEF ExecStep
<1>7. ASSUME NEW t \in Tickers,
             BrokerFill(t) \/ BrokerCancel(t) \/ BrokerExit(t)
      PROVE HaltedOrdersAreManaged'
  BY <1>7 DEF BrokerFill, BrokerCancel, BrokerExit
<1>8. CASE Crash
  BY <1>8 DEF Crash
<1>9. CASE BootRead \/ BootUnreadable \/ BootBlind
  BY <1>9 DEF BootRead, BootUnreadable, BootBlind, Booted
<1>10. CASE UNCHANGED vars
  BY <1>10 DEF vars
<1> QED
  BY <1>1, <1>2, <1>3, <1>4, <1>5, <1>6, <1>7, <1>8, <1>9, <1>10
  DEF Next, RequestStep

-----------------------------------------------------------------------------
THEOREM Inductive == Spec => []IInv
<1>1. IInv /\ [Next]_vars => IInv'
  BY TypeStep, DeadStep, AckStep, PhantomStep, HaltStep, ManagedStep DEF IInv
<1>2. QED
  BY <1>1, InitIInv, PTL DEF Spec

\* A halt an operator was told is in force and persisted is in force in
\* every later life of the process, until a reset begins.
THEOREM AckedHaltStands == Spec => []AckedHaltSurvives
<1>1. IInv => AckedHaltSurvives
  BY DEF IInv, AckInv, AckedHaltSurvives
<1>2. QED
  BY <1>1, Inductive, PTL

\* After engage() has flattened, only failed closings and executions that
\* were under way leave a position.
THEOREM HaltFlattens == Spec => []FlattenedBook
<1>1. IInv => FlattenedBook
  BY DEF IInv, HaltInv, FlattenedBook
<1>2. QED
  BY <1>1, Inductive, PTL

\* No order of an earlier life is left working unwatched under a halt.
THEOREM HaltManagesOrders == Spec => []HaltedOrdersAreManaged
<1>1. IInv => HaltedOrdersAreManaged
  BY DEF IInv
<1>2. QED
  BY <1>1, Inductive, PTL

\* Only the risk route's reset leaves the trade-desk flag up on its own.
THEOREM PhantomHaltBlame == Spec => []PhantomHaltOnlyFromRiskReset
<1>1. IInv => PhantomHaltOnlyFromRiskReset
  BY DEF IInv
<1>2. QED
  BY <1>1, Inductive, PTL

\* Orders sent under a halt come from executions it found under way.
THEOREM LateOrders == Spec => LateOrdersWereInFlight
<1> DEFINE Late == \A t \in orders' \ orders :
                     engaged => leader # None /\ t \in exempt
<1>1. IInv /\ [Next]_vars => [Late]_vars
  <2> SUFFICES ASSUME IInv, [Next]_vars PROVE [Late]_vars
    OBVIOUS
  <2> USE DEF IInv, TypeOK, HaltInv, UnderWay
  <2>1. ASSUME NEW t \in Tickers, Submit(t) PROVE Late
    BY <2>1 DEF Submit
  <2>2. ASSUME NEW t \in Tickers, Resubmit(t) PROVE Late
    BY <2>2 DEF Resubmit
  <2>3. ASSUME orders' \subseteq orders PROVE Late
    BY <2>3
  <2>4. ASSUME NEW r \in Requests,
               \/ DeskEngage(r) \/ RiskEngage(r) \/ DeskReset(r)
               \/ RiskReset(r) \/ RequestStep(r)
        PROVE orders' \subseteq orders
    BY <2>4 DEF DeskEngage, RiskEngage, DeskReset, RiskReset, ServiceReset,
       RequestStep, ReadPositions, Flatten, PersistEngage, FinishReset, broker
  <2>5. ASSUME NEW t \in Tickers,
               \/ StageOne(t) \/ Decline(t) \/ TimeOut(t) \/ OrderDone(t)
               \/ BrokerFill(t) \/ BrokerCancel(t) \/ BrokerExit(t)
        PROVE orders' \subseteq orders
    BY <2>5 DEF StageOne, Decline, TimeOut, OrderDone, BrokerFill,
       BrokerCancel, BrokerExit, broker
  <2>6. CASE Crash \/ BootRead \/ BootUnreadable \/ BootBlind
    <3>1. orders' \subseteq orders
      BY <2>6 DEF Crash, BootRead, BootUnreadable, BootBlind, Booted, broker
    <3> QED BY <3>1
  <2> QED
    BY <2>1, <2>2, <2>3, <2>4, <2>5, <2>6 DEF Next, ExecStep
<1>2. QED
  BY <1>1, Inductive, PTL DEF Spec, LateOrdersWereInFlight

-----------------------------------------------------------------------------
(* DeskOrders and PositionsDesk.                                           *)

\* What was shown of an order and what its execution asked, of the day they name.
PreviewFits(p) ==
  /\ p.status \in {"BLOCKED", "MANUAL_ELIGIBLE", "COPILOT_REVIEW_REQUIRED"}
  /\ p.order \in Compositions
  /\ p.current => p.found = O!Reasons(p.order, day)

OrderInv ==
  /\ day \in Days /\ rule \in O!Modes /\ composed \in Compositions \cup {None}
  /\ preview # None => PreviewFits(preview)
  /\ sent # None =>
       /\ sent.order \in Compositions /\ sent.refusing = O!Refusing(sent.order, day)
       /\ sent.preview # None =>
            /\ sent.preview.order = sent.order
            /\ sent.preview.current => sent.preview.found = O!Reasons(sent.order, day)

LEMMA OrdersStart == O!Init => OrderInv
BY DEF O!Init, OrderInv

LEMMA ExecutionFits ==
  ASSUME OrderInv, NEW o \in Compositions, NEW by, sent' = O!Executed(o, by, O!Shown(o)),
         UNCHANGED <<day, rule, preview>>, composed' \in Compositions \cup {None}
  PROVE  OrderInv'
<1>1. sent' = [order |-> o, by |-> by, preview |-> O!Shown(o), refusing |-> O!Refusing(o, day)]
  BY DEF O!Executed
<1>2. O!Refusing(o, day)' = O!Refusing(o, day)
  BY DEF O!Refusing, O!Options, O!Size
<1>3. \A x \in Compositions : O!Reasons(x, day)' = O!Reasons(x, day)
  BY DEF O!Reasons
<1>4. O!Shown(o) # None =>
        /\ preview # None /\ O!Shown(o) = preview /\ preview.order = o
  BY DEF O!Shown
<1>5. preview' # None => PreviewFits(preview)'
  BY <1>3 DEF OrderInv, PreviewFits
<1>6. /\ sent'.order = o /\ sent'.preview = O!Shown(o) /\ sent'.refusing = O!Refusing(o, day)
  BY <1>1
<1>7. O!Shown(o) # None => O!Shown(o).order = o
                           /\ (O!Shown(o).current => O!Shown(o).found = O!Reasons(o, day))
  BY <1>4 DEF OrderInv, PreviewFits
<1> QED BY <1>2, <1>3, <1>5, <1>6, <1>7 DEF OrderInv

LEMMA OrdersKept ==
  ASSUME OrderInv, [O!Next]_(O!vars)
  PROVE  OrderInv'
<1>1. CASE O!Shift
  <2>1. day' \in Days /\ rule' \in O!Modes /\ composed' = composed /\ sent' = None
        /\ preview' = O!Stale(preview)
    BY <1>1 DEF O!Shift, OrderInv
  <2>2. CASE preview = None
    BY <2>1, <2>2 DEF O!Stale, OrderInv
  <2>3. CASE preview # None
    <3>1. preview' = [preview EXCEPT !.current = FALSE]
      BY <2>1, <2>3 DEF O!Stale
    <3>2. preview'.status = preview.status /\ preview'.order = preview.order
          /\ (preview'.current = preview.current \/ preview'.current = FALSE)
      BY <3>1
    <3> QED BY <2>1, <2>3, <3>1, <3>2 DEF OrderInv, PreviewFits
  <2> QED BY <2>2, <2>3
<1>2. CASE O!Preview
  <2>1. PICK o \in Compositions :
          preview' = [order |-> o, found |-> O!Reasons(o, day), current |-> TRUE,
                      status |-> IF O!Reasons(o, day) # {} THEN "BLOCKED"
                                 ELSE IF rule = "manual" THEN "MANUAL_ELIGIBLE"
                                 ELSE "COPILOT_REVIEW_REQUIRED"]
    BY <1>2 DEF O!Preview
  <2>2. UNCHANGED <<day, rule, composed, sent>>
    BY <1>2 DEF O!Preview
  <2>3. \A x : O!Reasons(x, day)' = O!Reasons(x, day)
    BY <2>2 DEF O!Reasons
  <2>4. \A x : O!Refusing(x, day)' = O!Refusing(x, day)
    BY <2>2 DEF O!Refusing
  <2> QED BY <2>1, <2>2, <2>3, <2>4 DEF OrderInv, PreviewFits
<1>3. CASE O!Submit
  BY <1>3 DEF O!Submit, OrderInv, PreviewFits
<1>4. CASE O!Approve
  <2>1. composed \in Compositions /\ composed' = None
        /\ sent' = O!Executed(composed, "user", O!Shown(composed))
        /\ UNCHANGED <<day, rule, preview>>
    BY <1>4 DEF O!Approve, OrderInv
  <2> QED BY <2>1, ExecutionFits
<1>5. CASE O!Reject
  BY <1>5 DEF O!Reject, OrderInv, PreviewFits
<1>6. CASE O!ManualTrade
  <2>1. PICK o \in Compositions : sent' = O!Executed(o, "manual", O!Shown(o))
    BY <1>6 DEF O!ManualTrade
  <2>2. UNCHANGED <<day, rule, preview, composed>> /\ composed' \in Compositions \cup {None}
    BY <1>6 DEF O!ManualTrade, OrderInv
  <2> QED BY <2>1, <2>2, ExecutionFits
<1>7. CASE UNCHANGED O!vars
  BY <1>7 DEF O!vars, OrderInv, PreviewFits
<1> QED BY <1>1, <1>2, <1>3, <1>4, <1>5, <1>6, <1>7 DEF O!Next

\* Where a preview finds no gate closed, and where an execution does.
LEMMA ClearOrder ==
  ASSUME NEW o \in Compositions, NEW d \in Days, O!Reasons(o, d) = {}
  PROVE  /\ O!Refusing(o, d) \subseteq {"rest", "preservation", "portfolio"}
         /\ "portfolio" \in O!Refusing(o, d) => O!Options(o)
         /\ "preservation" \in O!Refusing(o, d) => O!Options(o)
<1>1. o.size \in Int /\ o.risk \in Nat /\ d.room \in Int /\ (~O!Options(o) => o.strategy = "")
  BY OrdersAssumption DEF O!OrderConstants
<1>2. /\ ~(~O!Options(o) /\ (~o.filled \/ o.size < 1))
      /\ ~d.killed /\ d.open /\ d.account /\ d.guard \notin {"blocks", "unread"}
  BY DEF O!Reasons
<1>3. ~O!Options(o) => ~(d.room < o.risk * o.size) /\ O!Size(o) = o.size
  BY <1>1, <1>2 DEF O!Reasons, O!Size
<1> QED BY <1>1, <1>2, <1>3 DEF O!Refusing

LEMMA PassedOrder ==
  ASSUME NEW o \in Compositions, NEW d \in Days, O!Refusing(o, d) = {}
  PROVE  /\ O!Reasons(o, d) \subseteq {"form", "banned", "regime", "portfolio"}
         /\ "portfolio" \in O!Reasons(o, d) => O!Options(o)
<1>1. o.size \in Int /\ o.risk \in Nat /\ d.room \in Int
  BY OrdersAssumption DEF O!OrderConstants
<1>2. /\ ~d.killed /\ d.open /\ d.account /\ d.guard \notin {"blocks", "unread"}
      /\ ~(d.room < o.risk * O!Size(o))
  BY DEF O!Refusing
<1>3. o.risk * o.size <= o.risk * O!Size(o)
  <2>1. o.size <= O!Size(o) /\ O!Size(o) \in Int
    BY <1>1 DEF O!Size
  <2>2. \A r \in Nat, a \in Int, b \in Int : a <= b => r * a <= r * b
    OBVIOUS
  <2> QED BY <1>1, <2>1, <2>2
<1>4. /\ O!Size(o) \in Int /\ o.risk * O!Size(o) \in Int /\ o.risk * o.size \in Int
  BY <1>1 DEF O!Size
<1>5. ~O!Options(o) => ~(d.room < o.risk * o.size)
  BY <1>1, <1>2, <1>3, <1>4
<1> QED BY <1>2, <1>5 DEF O!Reasons

LEMMA OrdersMean == OrderInv => O!TypeOK /\ O!DeskOrdersHold
<1> SUFFICES ASSUME OrderInv PROVE O!TypeOK /\ O!DeskOrdersHold
  OBVIOUS
<1>1. O!TypeOK
  BY DEF OrderInv, PreviewFits, O!TypeOK
<1>2. ASSUME O!Fresh
      PROVE  /\ sent.order \in Compositions /\ day \in Days
             /\ sent.refusing = O!Refusing(sent.order, day)
             /\ sent.preview.found = O!Reasons(sent.order, day)
  BY <1>2 DEF OrderInv, O!Fresh
<1>3. O!ClearPreviewHolds
  BY <1>2, ClearOrder DEF O!ClearPreviewHolds
<1>4. O!BlockedPreviewHolds
  BY <1>2, PassedOrder DEF O!BlockedPreviewHolds
<1> QED BY <1>1, <1>3, <1>4 DEF O!DeskOrdersHold

-----------------------------------------------------------------------------
\* Contracts held are those of the spreads that were entered; a close whose check
\* nothing has overtaken finds no row and the shares that it read.
CloseFits(c) ==
  step[c] # "idle" /\ c \notin overtaken =>
    /\ P!OfClass(listed, "equity") = {}
    /\ step[c] \in {"read", "cancelled"} => counted[c] = stock

BookTyped ==
  /\ stock \in Int
  /\ listed \cup due \subseteq entered /\ entered \subseteq DeskRows
  /\ spreads = 2 * Cardinality(P!OfClass(entered, "options"))
  /\ step \in [DeskClosers -> {"idle", "checked", "read", "cancelled"}]
  /\ counted \in [DeskClosers -> Int]

RecordFits ==
  /\ record \in {None, "clean", "warning", "error"}
  /\ mishaps \in Nat /\ (verdict # record => mishaps > 0)

PositionInv ==
  /\ BookTyped /\ RecordFits
  /\ \A c \in DeskClosers : CloseFits(c)
  /\ P!RowHiddenTakesATwin /\ P!GhostTakesARace /\ P!CloseTakesNoMore

LEMMA CountIs ==
  /\ \A x : P!Cardinality(x) = Cardinality(x)
  /\ \A x : P!IsFiniteSet(x) <=> IsFiniteSet(x)
BY DEF P!Cardinality, Cardinality, P!IsFiniteSet, IsFiniteSet

LEMMA PositionsStart == P!Init => PositionInv
<1> SUFFICES ASSUME P!Init PROVE PositionInv
  OBVIOUS
<1>1. P!OfClass({}, "options") = {} /\ Cardinality({}) = 0
  BY FS_EmptySet DEF P!OfClass
<1>2. BookTyped
  BY <1>1 DEF P!Init, BookTyped
<1>3. RecordFits
  BY DEF P!Init, RecordFits
<1>4. \A c \in DeskClosers : CloseFits(c)
  BY DEF P!Init, CloseFits
<1> QED BY <1>2, <1>3, <1>4
        DEF PositionInv, P!Init, P!RowHiddenTakesATwin, P!GhostTakesARace, P!CloseTakesNoMore

\* One more row of a class, or of the other one.
LEMMA OneMoreOfClass ==
  ASSUME NEW E \in SUBSET DeskRows, NEW r \in DeskRows \ E
  PROVE  Cardinality(P!OfClass(E \cup {r}, "options"))
           = Cardinality(P!OfClass(E, "options")) + (IF Class[r] = "options" THEN 1 ELSE 0)
<1>1. IsFiniteSet(DeskRows)
  BY PositionsAssumption, CountIs DEF P!DeskConstants
<1>2. IsFiniteSet(P!OfClass(E, "options")) /\ r \notin P!OfClass(E, "options")
  BY <1>1, FS_Subset DEF P!OfClass
<1>3. Cardinality(P!OfClass(E, "options")) \in Nat
  BY <1>2, FS_CardinalityType
<1>4. CASE Class[r] = "options"
  <2>1. P!OfClass(E \cup {r}, "options") = P!OfClass(E, "options") \cup {r}
    BY <1>4 DEF P!OfClass
  <2> QED BY <1>2, <1>4, <2>1, FS_AddElement
<1>5. CASE Class[r] # "options"
  <2>1. P!OfClass(E \cup {r}, "options") = P!OfClass(E, "options")
    BY <1>5 DEF P!OfClass
  <2> QED BY <1>3, <1>5, <2>1
<1> QED BY <1>4, <1>5

\* The rows and what the closes have read.
LEMMA BookKept ==
  ASSUME BookTyped, [P!Next]_(P!vars)
  PROVE  BookTyped'
<1> USE DEF P!bookVars, P!closeVars, P!runVars
<1>1. CASE P!Enter
  <2>1. PICK r \in DeskRows \ entered :
          /\ entered' = entered \cup {r} /\ due' = due \cup {r}
          /\ IF Class[r] = "equity"
             THEN stock' = stock + 1 /\ spreads' = spreads
             ELSE spreads' = spreads + 2 /\ stock' = stock
    BY <1>1 DEF P!Enter
  <2>2. UNCHANGED <<listed, step, counted>>
    BY <1>1 DEF P!Enter
  <2>3. Class[r] \in {"equity", "options"}
    BY PositionsAssumption DEF P!DeskConstants
  <2>4. Cardinality(P!OfClass(entered', "options"))
          = Cardinality(P!OfClass(entered, "options")) + (IF Class[r] = "options" THEN 1 ELSE 0)
    BY <2>1, OneMoreOfClass DEF BookTyped
  <2>5. Cardinality(P!OfClass(entered, "options")) \in Nat
    BY FS_Subset, FS_CardinalityType, PositionsAssumption, CountIs
       DEF P!OfClass, P!DeskConstants, BookTyped
  <2>6. spreads' = 2 * Cardinality(P!OfClass(entered', "options")) /\ stock' \in Int
    BY <2>1, <2>3, <2>4, <2>5 DEF BookTyped
  <2>7. listed' \cup due' \subseteq entered' /\ entered' \subseteq DeskRows
    BY <2>1, <2>2 DEF BookTyped
  <2> QED BY <2>2, <2>6, <2>7 DEF BookTyped
<1>2. CASE P!Record
  <2>1. PICK r \in due : due' = due \ {r} /\ listed' \in {listed, listed \cup {r}}
    BY <1>2 DEF P!Record
  <2>2. UNCHANGED <<stock, spreads, entered, step, counted>>
    BY <1>2 DEF P!Record
  <2> QED BY <2>1, <2>2 DEF BookTyped
<1>3. CASE P!RowCloses
  <2>1. listed' \subseteq listed /\ UNCHANGED <<stock, spreads, entered, due, step, counted>>
    BY <1>3 DEF P!RowCloses
  <2> QED BY <2>1 DEF BookTyped
<1>4. CASE P!StopFills
  BY <1>4 DEF P!StopFills, BookTyped
<1>5. ASSUME NEW c \in DeskClosers,
             P!CloseChecks(c) \/ P!CloseReads(c) \/ P!CloseCancels(c) \/ P!CloseSends(c)
      PROVE  BookTyped'
  <2>1. UNCHANGED <<spreads, listed, entered, due>>
    BY <1>5 DEF P!CloseChecks, P!CloseReads, P!CloseCancels, P!CloseSends
  <2>2. stock' \in Int /\ step' \in [DeskClosers -> {"idle", "checked", "read", "cancelled"}]
        /\ counted' \in [DeskClosers -> Int]
    BY <1>5 DEF P!CloseChecks, P!CloseReads, P!CloseCancels, P!CloseSends, BookTyped
  <2> QED BY <2>1, <2>2 DEF BookTyped
<1>6. CASE UNCHANGED <<P!bookVars, P!closeVars>>
  BY <1>6 DEF BookTyped
<1>7. [P!Next]_(P!vars) =>
        \/ P!Enter \/ P!Record \/ P!RowCloses \/ P!StopFills
        \/ \E c \in DeskClosers :
             P!CloseChecks(c) \/ P!CloseReads(c) \/ P!CloseCancels(c) \/ P!CloseSends(c)
        \/ UNCHANGED <<P!bookVars, P!closeVars>>
  BY DEF P!Next, P!Elsewhere, P!vars, P!PageReadsRows, P!PageReadsBroker, P!RunReadsBroker,
         P!RunWithoutBroker, P!RunReadsRows, P!RunWithoutRows
<1> QED BY <1>1, <1>2, <1>3, <1>4, <1>5, <1>6, <1>7

\* The checks of the closes, and what the closes have done.
LEMMA ClosesKept ==
  ASSUME BookTyped, \A c \in DeskClosers : CloseFits(c), P!CloseTakesNoMore, [P!Next]_(P!vars)
  PROVE  (\A c \in DeskClosers : CloseFits(c))' /\ P!CloseTakesNoMore'
<1> USE DEF P!bookVars, P!closeVars, P!runVars
<1>1. CASE P!Enter \/ P!Record \/ P!StopFills
  <2>1. UNCHANGED <<step, robbed, turned>> /\ P!Disturbed
    BY <1>1 DEF P!Enter, P!Record, P!StopFills
  <2> QED BY <2>1 DEF P!Disturbed, CloseFits, P!CloseTakesNoMore
<1>2. CASE P!RowCloses
  <2>1. listed' \subseteq listed /\ UNCHANGED <<stock, step, counted, overtaken, robbed, turned>>
    BY <1>2 DEF P!RowCloses
  <2>2. P!OfClass(listed', "equity") \subseteq P!OfClass(listed, "equity")
    BY <2>1 DEF P!OfClass
  <2> QED BY <2>1, <2>2 DEF CloseFits, P!CloseTakesNoMore
<1>3. ASSUME NEW c \in DeskClosers, P!CloseChecks(c)
      PROVE  (\A d \in DeskClosers : CloseFits(d))' /\ P!CloseTakesNoMore'
  <2>1. /\ step[c] = "idle" /\ listed = {} /\ step' = [step EXCEPT ![c] = "checked"]
        /\ overtaken' = overtaken \ {c}
        /\ UNCHANGED <<listed, stock, counted, robbed, turned>>
    BY <1>3 DEF P!CloseChecks
  <2>2. P!OfClass(listed', "equity") = {}
    BY <2>1 DEF P!OfClass
  <2>3. ASSUME NEW d \in DeskClosers PROVE CloseFits(d)'
    BY <2>1, <2>2 DEF CloseFits, BookTyped
  <2> QED BY <2>1, <2>3 DEF P!CloseTakesNoMore
<1>4. ASSUME NEW c \in DeskClosers, P!CloseReads(c)
      PROVE  (\A d \in DeskClosers : CloseFits(d))' /\ P!CloseTakesNoMore'
  <2>1. /\ step[c] = "checked" /\ UNCHANGED <<listed, stock, overtaken, robbed, turned>>
        /\ \/ /\ step' = [step EXCEPT ![c] = "read"]
              /\ counted' = [counted EXCEPT ![c] = stock]
           \/ step' = [step EXCEPT ![c] = "idle"] /\ counted' = counted
    BY <1>4 DEF P!CloseReads
  <2>2. P!OfClass(listed', "equity") = P!OfClass(listed, "equity")
    BY <2>1
  <2>3. ASSUME NEW d \in DeskClosers PROVE CloseFits(d)'
    BY <2>1, <2>2 DEF CloseFits, BookTyped
  <2> QED BY <2>1, <2>3 DEF P!CloseTakesNoMore
<1>5. ASSUME NEW c \in DeskClosers, P!CloseCancels(c)
      PROVE  (\A d \in DeskClosers : CloseFits(d))' /\ P!CloseTakesNoMore'
  <2>1. /\ step[c] = "read" /\ step' = [step EXCEPT ![c] = "cancelled"]
        /\ UNCHANGED <<listed, stock, counted, overtaken, robbed, turned>>
    BY <1>5 DEF P!CloseCancels
  <2>2. P!OfClass(listed', "equity") = P!OfClass(listed, "equity")
    BY <2>1
  <2>3. ASSUME NEW d \in DeskClosers PROVE CloseFits(d)'
    BY <2>1, <2>2 DEF CloseFits, BookTyped
  <2> QED BY <2>1, <2>3 DEF P!CloseTakesNoMore
<1>6. ASSUME NEW c \in DeskClosers, P!CloseSends(c)
      PROVE  (\A d \in DeskClosers : CloseFits(d))' /\ P!CloseTakesNoMore'
  <2>1. /\ step[c] = "cancelled" /\ stock' = stock - counted[c]
        /\ robbed' = (robbed \/ (P!OfClass(listed, "equity") # {} /\ c \notin overtaken))
        /\ turned' = (turned \/ (stock' * counted[c] < 0 /\ c \notin overtaken))
        /\ overtaken' = {d \in DeskClosers : step'[d] # "idle"}
    BY <1>6 DEF P!CloseSends
  <2>2. c \notin overtaken => P!OfClass(listed, "equity") = {} /\ counted[c] = stock
    BY <2>1 DEF CloseFits
  <2>3. c \notin overtaken => stock' = 0
    BY <2>1, <2>2 DEF BookTyped
  <2>4. counted[c] \in Int
    BY DEF BookTyped
  <2>5. c \notin overtaken => ~(stock' * counted[c] < 0)
    BY <2>3, <2>4
  <2>6. ~robbed' /\ ~turned'
    BY <2>1, <2>2, <2>5 DEF P!CloseTakesNoMore
  <2>7. ASSUME NEW d \in DeskClosers PROVE CloseFits(d)'
    BY <2>1 DEF CloseFits
  <2> QED BY <2>6, <2>7 DEF P!CloseTakesNoMore
<1>7. CASE UNCHANGED <<P!bookVars, P!closeVars>>
  <2>1. UNCHANGED <<stock, listed, step, counted, overtaken, robbed, turned>>
    BY <1>7
  <2>2. P!OfClass(listed', "equity") = P!OfClass(listed, "equity")
    BY <2>1
  <2> QED BY <2>1, <2>2 DEF CloseFits, P!CloseTakesNoMore
<1>8. [P!Next]_(P!vars) =>
        \/ P!Enter \/ P!Record \/ P!StopFills \/ P!RowCloses
        \/ \E c \in DeskClosers :
             P!CloseChecks(c) \/ P!CloseReads(c) \/ P!CloseCancels(c) \/ P!CloseSends(c)
        \/ UNCHANGED <<P!bookVars, P!closeVars>>
  BY DEF P!Next, P!Elsewhere, P!vars, P!PageReadsRows, P!PageReadsBroker, P!RunReadsBroker,
         P!RunWithoutBroker, P!RunReadsRows, P!RunWithoutRows
<1> QED BY <1>1, <1>2, <1>3, <1>4, <1>5, <1>6, <1>7, <1>8

\* The page, which is judged as it is shown.
LEMMA PageKept ==
  ASSUME P!RowHiddenTakesATwin, P!GhostTakesARace, [P!Next]_(P!vars)
  PROVE  P!RowHiddenTakesATwin' /\ P!GhostTakesARace'
<1>1. CASE P!PageReadsRows
  <2>1. PICK pick \in [{Class[r] : r \in listed} -> listed] :
          /\ \A c \in DOMAIN pick : Class[pick[c]] = c
          /\ page' = [shown     |-> P!Range(pick),
                      untracked |-> look.held \ DOMAIN pick,
                      before    |-> look.rows, after |-> listed]
    BY <1>1 DEF P!PageReadsRows
  <2>2. ASSUME NEW r \in listed
        PROVE  pick[Class[r]] \in P!Range(pick) /\ Class[pick[Class[r]]] = Class[r]
               /\ Class[r] \in DOMAIN pick
    BY <2>1 DEF P!Range
  <2>3. /\ page'.shown = P!Range(pick) /\ page'.untracked = look.held \ DOMAIN pick
        /\ page'.before = look.rows /\ page'.after = listed
    BY <2>1
  <2>4. P!RowHiddenTakesATwin'
    BY <2>2, <2>3 DEF P!RowHiddenTakesATwin
  <2>5. P!GhostTakesARace'
    BY <2>2, <2>3 DEF P!GhostTakesARace, P!OfClass
  <2> QED BY <2>4, <2>5
<1>2. CASE page' = None
  BY <1>2 DEF P!RowHiddenTakesATwin, P!GhostTakesARace
<1>3. CASE page' = page
  BY <1>3 DEF P!RowHiddenTakesATwin, P!GhostTakesARace, P!OfClass
<1> QED BY <1>1, <1>2, <1>3 DEF P!Next, P!vars

\* The verdict and its record.
LEMMA RecordKept ==
  ASSUME RecordFits, [P!Next]_(P!vars)
  PROVE  RecordFits'
<1> USE DEF P!bookVars, P!closeVars, P!runVars
<1>1. CASE P!RunWithoutBroker
  <2>1. verdict' = "error" /\ P!Persist("error")
    BY <1>1 DEF P!RunWithoutBroker
  <2> QED BY <2>1 DEF P!Persist, RecordFits
<1>2. CASE P!RunReadsRows
  <2>1. verdict' = P!Verdict(round, listed) /\ P!Persist(verdict')
    BY <1>2 DEF P!RunReadsRows
  <2>2. P!Verdict(round, listed) \in {"clean", "warning", "error"}
    BY DEF P!Verdict
  <2> QED BY <2>1, <2>2 DEF P!Persist, RecordFits
<1>3. CASE P!RunWithoutRows
  BY <1>3 DEF P!RunWithoutRows, RecordFits
<1>4. CASE P!Record
  <2>1. UNCHANGED <<record, verdict>> /\ mishaps' \in {mishaps, mishaps + 1}
    BY <1>4 DEF P!Record
  <2> QED BY <2>1 DEF RecordFits
<1>5. CASE UNCHANGED <<record, verdict, mishaps>>
  BY <1>5 DEF RecordFits
<1>6. [P!Next]_(P!vars) =>
        P!RunWithoutBroker \/ P!RunReadsRows \/ P!RunWithoutRows \/ P!Record
        \/ UNCHANGED <<record, verdict, mishaps>>
  BY DEF P!Next, P!Elsewhere, P!vars, P!PageReadsRows, P!PageReadsBroker, P!RunReadsBroker,
         P!Enter, P!RowCloses, P!StopFills, P!CloseChecks, P!CloseReads, P!CloseCancels,
         P!CloseSends
<1> QED BY <1>1, <1>2, <1>3, <1>4, <1>5, <1>6

LEMMA PositionsKept ==
  ASSUME PositionInv, [P!Next]_(P!vars)
  PROVE  PositionInv'
BY BookKept, ClosesKept, PageKept, RecordKept DEF PositionInv

LEMMA PositionsMean == PositionInv => P!TypeOK /\ P!PositionsHold
<1> SUFFICES ASSUME PositionInv PROVE P!TypeOK /\ P!PositionsHold
  OBVIOUS
<1> DEFINE taken == P!OfClass(entered, "options")
<1>1. IsFiniteSet(DeskRows)
  BY PositionsAssumption, CountIs DEF P!DeskConstants
<1>2. taken \subseteq DeskRows
  BY DEF PositionInv, BookTyped, P!OfClass
<1>3. Cardinality(taken) \in Nat /\ Cardinality(DeskRows) \in Nat
      /\ Cardinality(taken) <= Cardinality(DeskRows)
  BY <1>1, <1>2, FS_Subset, FS_CardinalityType
<1>4. spreads = 2 * Cardinality(taken) /\ P!Cardinality(DeskRows) = Cardinality(DeskRows)
  BY CountIs DEF PositionInv, BookTyped
<1>5. P!TypeOK
  <2>1. spreads \in 0 .. 2 * P!Cardinality(DeskRows)
    <3> HIDE DEF taken
    <3> QED BY <1>3, <1>4
  <2> QED BY <2>1 DEF P!TypeOK, PositionInv, BookTyped, RecordFits
<1>6. P!CheckIsStricter
  BY DEF P!CheckIsStricter, P!Verdict, P!CheckClean
<1>7. P!RecordLagsAFailure
  BY DEF P!RecordLagsAFailure, PositionInv, RecordFits
<1> QED BY <1>5, <1>6, <1>7 DEF P!PositionsHold, PositionInv

-----------------------------------------------------------------------------
DeskInv == OrderInv /\ PositionInv

(***************************************************************************)
(* An order whose preview was clear, the day being the same, is refused    *)
(* only by the gates that no preview asks, and one that was blocked only   *)
(* passes what no execution asks; a page hides a row only behind another   *)
(* of its class; a close of untracked shares sells none that a row tracks  *)
(* unless it is overtaken; a reconciliation's record is its verdict.       *)
(***************************************************************************)
THEOREM DeskShowsTheTruth == SumSpec => []DeskShowsWhatItDoes
<1>1. SumInit => DeskInv
  BY OrdersStart, PositionsStart DEF SumInit, DeskInv
<1>2. DeskInv /\ [SumNext]_<<subject, vars, ledgerVars, deskVars>> => DeskInv'
  <2> SUFFICES ASSUME DeskInv, [SumNext]_<<subject, vars, ledgerVars, deskVars>>
               PROVE  DeskInv'
    OBVIOUS
  <2>1. [SumNext]_<<subject, vars, ledgerVars, deskVars>> =>
          /\ O!Next \/ UNCHANGED orderVars
          /\ P!Next \/ UNCHANGED positionVars
    BY DEF SumNext, deskVars
  <2>2. UNCHANGED orderVars => UNCHANGED O!vars
    BY DEF orderVars, O!vars
  <2>3. UNCHANGED positionVars => UNCHANGED P!vars
    BY DEF positionVars, P!vars, P!bookVars, P!closeVars, P!runVars
  <2> QED BY <2>1, <2>2, <2>3, OrdersKept, PositionsKept DEF DeskInv
<1>3. DeskInv => DeskShowsWhatItDoes
  BY OrdersMean, PositionsMean DEF DeskInv, DeskShowsWhatItDoes
<1> QED BY <1>1, <1>2, <1>3, PTL DEF SumSpec
=============================================================================
