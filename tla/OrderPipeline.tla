--------------------------- MODULE OrderPipeline ---------------------------
(***************************************************************************)
(* The trading day end to end: one run_day process working through its     *)
(* stages over the books, dying and being re-fired, against a broker that  *)
(* fills, cancels and answers as it likes.                                 *)
(***************************************************************************)
EXTENDS DecideAndGate, Execution, Reconcile

vars == <<tables, dayVars, brokerVars, wire, pc, locals, pollVars>>

Init == BooksInit /\ BrokerInit /\ ProcessInit

RunStageStep == EnterStage \/ LeaveStage \/ Exit

\* What the process does of itself, one commit at a time.
ProcessStep ==
    \/ RunStageStep \/ DecideAndGateStep \/ ExecutionStep \/ ReconcileStep

\* The broker, at any moment, whatever the process is doing.
BrokerStep ==
    /\ \/ \E c \in calls : Land(c) \/ LoseCall(c)
       \/ \E a \in acks : LoseAck(a)
       \/ \E d \in Decisions : Fill(d) \/ PartialFill(d) \/ Die(d)
    /\ UNCHANGED <<tables, dayVars, pc, locals, pollVars>>

Next ==
    \/ ProcessStep
    \/ BrokerStep
    \/ Fire \/ Crash \/ NextDay
    \/ \E d \in Decisions : TicketLapses(d)

Spec == Init /\ [][Next]_vars

TypeOK == BooksTypeOK /\ BrokerTypeOK /\ ProcessTypeOK

(***************************************************************************)
(* Fairness.  A running process takes its next step; a seat's turn ends at *)
(* SEAT_MAX_WALL_S whatever the model does; the timer fires each trading   *)
(* day and the days go on; the broker works a cancel it has accepted; and  *)
(* a broker asked again and again sometimes tells the truth.               *)
(***************************************************************************)
Fairness ==
    /\ WF_vars(ProcessStep)
    /\ SF_vars(EndPmTurn) /\ SF_vars(EndTurn)
    /\ SF_vars(Fire) /\ SF_vars(NextDay)
    /\ \A d \in Decisions :
         /\ WF_vars(d \in cancelReq /\ (Fill(d) \/ Die(d))
                    /\ UNCHANGED <<tables, dayVars, pc, locals, pollVars>>)
         /\ SF_vars(PollOrder(d, Truth(d)))
         /\ SF_vars(CancelOrder(d) /\ d \in cancelReq')
         /\ SF_vars(cur = d /\ Requery(Truth(d)))

FairSpec == Spec /\ Fairness

-----------------------------------------------------------------------------
(* Safety. *)

Decided(d) == decision[d] \notin {"none", "submitted", "held", "rejected"}

\* No order is on the wire or at the broker that the gate did not approve:
\* whatever the trader's model requests, and however the gate was resumed,
\* its decision passed the gate and its size is within the ticket's cap,
\* itself within the PM's ask.  (validate_order, _gate_handle)
OnlyAuthorizedOrders ==
    /\ \A c \in calls :
         Decided(c.d) /\ c.qty \in 1 .. maxQty[c.d] /\ maxQty[c.d] <= ask[c.d]
    /\ \A d \in Decisions : atBroker[d] # "none" =>
         Decided(d) /\ brokerQty[d] \in 1 .. maxQty[d] /\ maxQty[d] <= ask[d]

\* The books never run ahead of the broker: an order recorded as filled or
\* dead is filled or dead there, and a decision settled as executed or
\* failed has, or has not, shares behind it.  (_apply, _timeout_close,
\* record_order)
BooksNeverAhead ==
    \A d \in Decisions :
      /\ order[d] # "none" => atBroker[d] # "none"
      /\ order[d] = "filled" => atBroker[d] = "filled"
      /\ order[d] \in {"canceled", "rejected"} => atBroker[d] \in Dead
      /\ decision[d] = "executed" => brokerFilled[d] > 0
      /\ decision[d] = "failed" => atBroker[d] \in Dead /\ brokerFilled[d] = 0

\* However often a stage body is re-run, an order produces at most one fill
\* event, and that only for shares that changed hands at an order that is
\* closed.  (the CAS that gates the event)
OneFillPerOrder ==
    \A d \in Decisions : fills[d] > 0 =>
      /\ fills[d] = 1
      /\ order[d] \notin {"none", "submitted", "partially_filled"}
      /\ brokerFilled[d] > 0

\* What the gate approved is frozen: once a decision has left 'submitted'
\* neither the PM's ask nor the ticket's cap changes any more, on this day
\* or a later one, resumed or not.  (the ruling "irrevocable for the day")
ApprovedTermsFrozen ==
    [][\A d \in Decisions : decision[d] \notin {"none", "submitted"} =>
         ask'[d] = ask[d] /\ maxQty'[d] = maxQty[d]]_vars

\* A ticket the trader left without an order is loud by the time the
\* execution stage is done, even when its TTL ran out during the turn.
\* (_alert_unexecuted_tickets, issue #40)
SilentTickets ==
    {d \in Today : ticket[d] = "open" /\ order[d] = "none"
                   /\ <<"ticket_open_after_exec", d>> \notin alerts}
UnexecutedTicketIsLoud ==
    "ticket_open_after_exec" \in Watched /\ checkpoint["execution"] = "done"
      => SilentTickets = {}

\* A ticket is consumed only by an order row: in whatever order a crash and
\* a resume leave the two commits of record_order or recover_lost_orders, the
\* books never say "consumed" of a ticket whose order they do not hold.
ConsumedHasOrder ==
    \A d \in Decisions : ticket[d] = "consumed" => order[d] # "none"

\* A run that was never interrupted leaves nothing half booked: once the
\* process has exited, a filled order has its one fill event, the broker's
\* numbers and an executed decision, and a dead one has failed its decision
\* or, with shares behind it, executed it; no decision expired under an
\* order.  (the order of the commits in _apply, _timeout_close, record_order)
Booked(d) ==
    /\ order[d] = "filled" =>
         decision[d] = "executed" /\ fills[d] = 1
         /\ filledQty[d] = brokerFilled[d]
    /\ order[d] \in {"canceled", "rejected"} =>
         /\ filledQty[d] = brokerFilled[d]
         /\ IF brokerFilled[d] > 0
              THEN decision[d] = "executed" /\ fills[d] = 1
              ELSE decision[d] = "failed" /\ fills[d] = 0
    /\ decision[d] = "expired" => order[d] = "none"
WhollyBooked ==
    pc = "down" /\ crashes = 0 => \A d \in Decisions : Booked(d)

\* A decision trades on its own run date or never: whatever yesterday's crash
\* left behind, no order of it first reaches the broker on a later day.
\* (run_gate reads its run date only, a ticket lives 45 minutes, and the
\* execution stage sweeps before the turn)
TradesOnItsDay ==
    [][\A d \in Decisions :
         atBroker[d] = "none" /\ atBroker'[d] # "none" => RunDate(d) = day]_vars

\* A fill the books cannot attribute is never silent: when a crash between an
\* order's row and its ticket lets the next day's sweep expire the decision
\* of a live order, the fill raises an alert.  (_apply's else branch; a
\* second crash, just before that alert, does lose it)
ExpiredFillIsLoud ==
    crashes <= 1 /\ pc = "down" /\ "fill_on_unapproved_decision" \in Watched =>
      \A d \in Decisions :
        order[d] = "filled" /\ decision[d] = "expired" =>
          <<"fill_on_unapproved_decision", d>> \in alerts

\* Reconciliation never leaves an order behind in silence: one still recorded
\* as submitted when the stage is done has an alert, also when the order
\* polled before or after it went wrong.  (the cap's two loops)
CapAlerts == {"order_unreconciled", "order_unresolved_at_cap"}
OpenOrderIsLoud ==
    CapAlerts \subseteq Watched /\ checkpoint["reconciliation"] = "done" =>
      \A d \in Decisions : order[d] = "submitted" =>
        \E code \in CapAlerts : <<code, d>> \in alerts

-----------------------------------------------------------------------------
(* What the documents and comments of the code promise, and it does not keep. *)

DayIsOver == pc = "down" /\ \A s \in Stages : checkpoint[s] = "done"

\* "running -> crash resume: re-run the idempotent body" (run_stage): after
\* the resumed day is over, a filled order has its fill event and its
\* executed decision.  The re-run polls pending orders only, so a crash after
\* the order's swap and before the rest is never made good.
ResumeFinishesFills ==
    DayIsOver => \A d \in Decisions :
      order[d] = "filled" => fills[d] = 1 /\ decision[d] = "executed"

-----------------------------------------------------------------------------
(* Liveness, under FairSpec. *)

\* An order in the books does not stay there as submitted for ever: filled,
\* dead, or in a human's hands as a partial fill.  (reconcile_orders polls
\* every pending order of every date, and closes it out at the cap)
OrdersAreSettled ==
    \A d \in Decisions : order[d] = "submitted" ~> order[d] # "submitted"

\* With no crash and no failing write, an approved decision is settled:
\* executed, failed or expired, unless the broker holds it half filled, which
\* the code leaves to a human.
ApprovedIsSettled ==
    \A d \in Decisions :
      decision[d] = "approved" /\ crashes = 0 ~>
        decision[d] # "approved" \/ crashes > 0
        \/ order[d] = "partially_filled"
=============================================================================
