------------------------------- MODULE Books -------------------------------
(***************************************************************************)
(* The tables of state/schema.sql that one trading day moves, and the      *)
(* compare-and-swap every status change goes through (state/transition.py).*)
(*                                                                         *)
(* A decision is keyed by (run_date, ticker).  The schema allows one       *)
(* ticket per decision (UNIQUE decision_id), and an order's key IS its     *)
(* ticket's id, so a single index identifies the decision, its ticket and  *)
(* its order; status "none" says that the row has not been written.        *)
(* Prices, theses, sides and time stamps are left out: the only fact the   *)
(* trading day reads off a clock is whether a ticket has outlived its TTL. *)
(***************************************************************************)
EXTENDS Integers, FiniteSets

CONSTANTS
    Tickers,      \* the day's active tickers
    MaxDay,       \* trading days on which the PM decides; later days are quiet
    MaxQty,       \* largest share count of a decision, a cap or a fill
    Watched,      \* alert and gate event codes the run keeps track of
    None          \* "no decision", outside Decisions

ASSUME BooksAssumption ==
    /\ MaxDay \in Nat \ {0}
    /\ MaxQty \in Nat \ {0}
    /\ Watched \subseteq STRING
    /\ None \notin (1 .. MaxDay) \X Tickers

Decisions == (1 .. MaxDay) \X Tickers
RunDate(d) == d[1]

DecisionStatus == {"none", "submitted", "approved", "rejected", "held",
                   "executed", "failed", "expired"}
TicketStatus == {"none", "open", "consumed", "expired"}
OrderStatus == {"none", "submitted", "partially_filled", "filled",
                "canceled", "rejected"}

OrderEdges ==
    {<<"submitted", s>> :
        s \in {"filled", "partially_filled", "canceled", "rejected"}}
      \cup {<<"partially_filled", s>> : s \in {"filled", "canceled"}}

VARIABLES
    decision,     \* decisions.status
    ask,          \* decisions.qty, 0 for a hold
    ticket,       \* tickets.status
    maxQty,       \* tickets.max_qty
    lapsed,       \* tickets whose expires_at has passed on the fund's clock
    order,        \* orders.status
    filledQty,    \* orders.filled_qty
    fills,        \* 'fill' rows in events, per order
    alerts,       \* <<code, decision>> of the watched rows in events
    day,          \* ctx.run_date
    checkpoint,   \* checkpoints.status of the run date's stages
    crashes       \* how often the process has died (bounded by MaxCrashes)

decisionVars == <<decision, ask>>
ticketVars == <<ticket, maxQty, lapsed>>
orderVars == <<order, filledQty, fills>>
tables == <<decisionVars, ticketVars, orderVars, alerts>>
dayVars == <<day, checkpoint, crashes>>

Stages == {"decision", "gate", "execution", "reconciliation"}

BooksTypeOK ==
    /\ decision \in [Decisions -> DecisionStatus]
    /\ ask \in [Decisions -> 0 .. MaxQty]
    /\ ticket \in [Decisions -> TicketStatus]
    /\ maxQty \in [Decisions -> 0 .. MaxQty]
    /\ lapsed \in SUBSET Decisions
    /\ order \in [Decisions -> OrderStatus]
    /\ filledQty \in [Decisions -> 0 .. MaxQty]
    /\ fills \in [Decisions -> Nat]
    /\ alerts \in SUBSET (Watched \X (Decisions \cup {None}))
    /\ day \in 1 .. MaxDay + 1
    /\ checkpoint \in [Stages -> {"pending", "running", "done"}]
    /\ crashes \in Nat

BooksInit ==
    /\ decision = [d \in Decisions |-> "none"]
    /\ ask = [d \in Decisions |-> 0]
    /\ ticket = [d \in Decisions |-> "none"]
    /\ maxQty = [d \in Decisions |-> 0]
    /\ lapsed = {}
    /\ order = [d \in Decisions |-> "none"]
    /\ filledQty = [d \in Decisions |-> 0]
    /\ fills = [d \in Decisions |-> 0]
    /\ alerts = {}
    /\ day = 1
    /\ checkpoint = [s \in Stages |-> "pending"]
    /\ crashes = 0

(***************************************************************************)
(* try_transition: the row moves iff it is in the expected status.  f is   *)
(* one of decision, ticket and order; the caller tests f[d] = from to      *)
(* learn whether its swap won.                                             *)
(***************************************************************************)
Swap(f, d, from, to) == IF f[d] = from THEN [f EXCEPT ![d] = to] ELSE f

\* Mutant: the clock-filtered query that issue #40 replaced.
OpenInTimeWithoutOrder ==
    {d \in Decisions :
        ticket[d] = "open" /\ d \notin lapsed /\ order[d] = "none"}

\* open_tickets_without_orders: keyed on status and id, never on the clock.
OpenWithoutOrder == {d \in Decisions : ticket[d] = "open" /\ order[d] = "none"}

\* open_tickets: what the trader may still act on.
OpenTickets == {d \in Decisions : ticket[d] = "open" /\ d \notin lapsed}

\* Mutant: the poll is scoped to the run date.
PendingOrdersToday ==
    {d \in Decisions : RunDate(d) = day
                       /\ order[d] \in {"submitted", "partially_filled"}}

\* _statuses: every order not known to be dead or filled, whatever its date.
PendingOrders ==
    {d \in Decisions : order[d] \in {"submitted", "partially_filled"}}

\* The rows of the run date; empty on a quiet day.
Today == {d \in Decisions : RunDate(d) = day}

\* append_alert and append_event, one commit of its own; the row stays for good.
Alert(code, d) ==
    alerts' = IF code \in Watched THEN alerts \cup {<<code, d>>} ELSE alerts
=============================================================================
