----------------------------- MODULE DeskOrders -----------------------------
(***************************************************************************)
(* An order a person composes on the equity or the options desk            *)
(* (api/routes/trade_desk.py): the preview that says whether it would be   *)
(* let through, its submission, which only queues it, and its execution    *)
(* once a person approves it.  The preview and the execution ask the same  *)
(* gates through different code, the preview fewer of them; the day moves  *)
(* on between the two.  A manual trade is executed at once.                *)
(***************************************************************************)
EXTENDS Integers

CONSTANTS
  None,
  Orders,     \* asset, strategy ("" for shares), size, risk of one unit, filled in
  Days,       \* circumstances: what each gate would read
  Nominal,    \* the risk of the one spread the options preview assumes
  MaxShifts   \* bound: changes of the day or of the execution mode

Options(o) == o.asset = "options"

\* Sizes are whole, risks are none or more, and shares have no strategy.
OrderConstants ==
  /\ \A o \in Orders : o.size \in Int /\ o.risk \in Nat /\ (~Options(o) => o.strategy = "")
  /\ \A d \in Days : d.room \in Int

VARIABLES day, mode, shown, pending, sent, shifts

vars == <<day, mode, shown, pending, sent, shifts>>

Modes  == {"manual", "copilot", "autopilot"}
Banned == {"iron_condor"}
Kept   == {"bull_put_spread", "bear_call_spread"}   \* allowed in capital preservation

\* Submission makes at least one share or contract of any size.
Size(o) == IF o.size < 1 THEN 1 ELSE o.size

\* The gates a preview finds closed.  Of an options order it does not look at the
\* legs or the size; where the book cannot be read it does not get to the portfolio.
Reasons(o, d) ==
  {g \in {"form", "banned", "kill_switch", "hours", "regime", "account", "guardrail", "portfolio"} :
     CASE g = "form"        -> ~Options(o) /\ (~o.filled \/ o.size < 1)
       [] g = "banned"      -> o.strategy \in Banned
       [] g = "kill_switch" -> d.killed
       [] g = "hours"       -> ~d.open
       [] g = "regime"      -> d.regime # None /\ o.asset \notin d.regime
       [] g = "account"     -> ~d.account
       [] g = "guardrail"   -> d.guard \in {"blocks", "unread"}
       [] g = "portfolio"   -> /\ d.guard # "unread"
                               /\ d.room < IF Options(o) THEN Nominal ELSE o.risk * o.size}

\* The gates that would refuse the execution; "rest" stands for those that no
\* preview asks: frequency, health, duplicates, cooldown, tenure, margin.
Refusing(o, d) ==
  {g \in {"kill_switch", "hours", "account", "guardrail", "preservation", "portfolio", "rest"} :
     CASE g = "kill_switch"  -> d.killed
       [] g = "hours"        -> ~d.open
       [] g = "account"      -> ~d.account
       [] g = "guardrail"    -> d.guard \in {"blocks", "unread"}
       [] g = "preservation" -> d.guard = "preserves" /\ o.strategy \notin Kept \cup {""}
       [] g = "portfolio"    -> d.room < o.risk * Size(o)
       [] g = "rest"         -> d.rest}

Executed(o, by, preview) ==
  [order |-> o, by |-> by, preview |-> preview, refusing |-> Refusing(o, day)]

-----------------------------------------------------------------------------
Init ==
  /\ day \in Days /\ mode \in Modes
  /\ shown = None /\ pending = None /\ sent = None /\ shifts = 0

Stale(p) == IF p = None THEN None ELSE [p EXCEPT !.current = FALSE]

\* The day moves on, and the user may turn the execution mode.
Shift ==
  /\ shifts < MaxShifts
  /\ shifts' = shifts + 1
  /\ \/ day' \in Days \ {day} /\ mode' = mode
     \/ mode' \in Modes \ {mode} /\ day' = day
  /\ shown' = Stale(shown) /\ pending' = pending /\ sent' = None

\* evaluate_equity, evaluate_options: the answer never names an execution that
\* needs no one's approval.
Preview ==
  /\ \E o \in Orders :
       LET found == Reasons(o, day)
       IN shown' = [order |-> o, found |-> found, current |-> TRUE,
                    status |-> IF found # {} THEN "BLOCKED"
                               ELSE IF mode = "manual" THEN "MANUAL_ELIGIBLE"
                               ELSE "COPILOT_REVIEW_REQUIRED"]
  /\ UNCHANGED <<day, mode, pending, sent, shifts>>

\* submit_scan_signal: queued in every mode.  An options order must be filled in;
\* of shares nothing is asked.
Submit ==
  /\ pending = None
  /\ \E o \in Orders :
       /\ Options(o) => o.filled
       /\ pending' = o
  /\ sent' = None
  /\ UNCHANGED <<day, mode, shown, shifts>>

\* What was shown of this order, if anything was.
Shown(o) == IF shown # None /\ shown.order = o THEN shown ELSE None

\* approve_signal: the approval is used up, whatever the gates say.
Approve ==
  /\ pending # None
  /\ sent' = Executed(pending, "user", Shown(pending))
  /\ pending' = None
  /\ UNCHANGED <<day, mode, shown, shifts>>

\* reject_signal.
Reject ==
  /\ pending # None
  /\ pending' = None /\ sent' = None
  /\ UNCHANGED <<day, mode, shown, shifts>>

\* manual_trade: shares only, without a queue.
ManualTrade ==
  /\ \E o \in Orders : ~Options(o) /\ sent' = Executed(o, "manual", Shown(o))
  /\ UNCHANGED <<day, mode, shown, pending, shifts>>

Next == Shift \/ Preview \/ Submit \/ Approve \/ Reject \/ ManualTrade

-----------------------------------------------------------------------------
TypeOK ==
  /\ day \in Days /\ mode \in Modes
  /\ pending \in Orders \cup {None}
  /\ shown # None => shown.status \in {"BLOCKED", "MANUAL_ELIGIBLE", "COPILOT_REVIEW_REQUIRED"}

Fresh == sent # None /\ sent.preview # None /\ sent.preview.current

\* An order whose preview was clear, the day being the same, is refused only by
\* a gate no preview asks, by the strategies capital preservation keeps, or, an
\* options order, for a risk other than the preview's nominal one.
ClearPreviewHolds ==
  Fresh /\ sent.preview.found = {} =>
    /\ sent.refusing \subseteq {"rest", "preservation", "portfolio"}
    /\ "portfolio" \in sent.refusing => Options(sent.order)
    /\ "preservation" \in sent.refusing => Options(sent.order)

\* An order whose preview was blocked, the day being the same, is refused, unless
\* it was blocked for the regime, which no execution asks, for its form or its
\* strategy, which no submission asks, or for more risk than it has.
BlockedPreviewHolds ==
  Fresh /\ sent.refusing = {} =>
    /\ sent.preview.found \subseteq {"form", "banned", "regime", "portfolio"}
    /\ "portfolio" \in sent.preview.found => Options(sent.order)

DeskOrdersHold == ClearPreviewHolds /\ BlockedPreviewHolds
=============================================================================
