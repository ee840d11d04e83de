--------------------------- MODULE OrderInvariant ---------------------------
(***************************************************************************)
(* The inductive strengthening behind the safety theorems of the order     *)
(* pipeline.  The properties relate tables that no single commit writes    *)
(* together; what bridges the commits is what the process knows, from the  *)
(* label it has reached, about the row it is handling.                     *)
(***************************************************************************)
EXTENDS OrderPipeline

\* The labels of each stage body, and those at which cur names a row.
PmLabels == {"pm", "defaults", "default_hold"}
GateLabels == {"gate", "gate_approve", "gate_event", "reject",
               "reject_decision", "reject_event"}
ExecLabels == {"expire", "expire_decision", "trader", "exec_alerts",
               "record_ticket", "record_fill", "record_numbers",
               "record_event", "record_decision"}
RecLabels == {"recover", "recover_ticket", "recover_alert", "poll_read",
              "poll", "fill_order", "fill_event", "fill_decision",
              "fill_alert", "part_order", "part_alert", "close", "requery",
              "dead_order", "dead_event", "dead_decision", "dead_alert",
              "problems"}
RowLabels == Labels \ {"down", "stage", "body_done", "pm", "defaults", "gate",
                       "expire", "trader", "exec_alerts", "recover",
                       "poll_read", "poll", "close", "problems"}
HasRow == pc \in RowLabels => cur \in Decisions

-----------------------------------------------------------------------------
(* The books against the broker. *)

\* What lies at the broker, and what travels to it and back.
BrokerSane ==
    /\ \A c \in calls : c.qty >= 1
    /\ \A d \in Decisions :
         /\ atBroker[d] # "none" => brokerQty[d] >= 1
         /\ atBroker[d] = "none" => brokerFilled[d] = 0
         /\ brokerFilled[d] <= brokerQty[d]
         /\ atBroker[d] = "filled" => brokerFilled[d] = brokerQty[d]
    /\ \A a \in acks :
         /\ atBroker[a.d] # "none"
         /\ a.status = "filled" => atBroker[a.d] = "filled"

\* What the process has learnt of cur from the broker's answer.
KnowsRow ==
    /\ pc \in {"record_ticket", "record_fill", "record_numbers",
               "record_event", "record_decision"}
         => (ans.status = "filled" => atBroker[cur] = "filled")
    /\ pc \in {"record_fill", "record_numbers", "record_event",
               "record_decision"} => ans.status = "filled"
    /\ pc \in {"fill_order", "fill_event", "fill_decision", "fill_alert"}
         => atBroker[cur] = "filled"
    /\ pc \in {"dead_order", "dead_event", "dead_decision", "dead_alert"}
         => atBroker[cur] \in Dead /\ brokerFilled[cur] = ans.filled

BooksInv == TypeOK /\ HasRow /\ BrokerSane /\ KnowsRow /\ BooksNeverAhead

-----------------------------------------------------------------------------
(* Who authorised what. *)

\* The checkpoints are done in order, and a body runs in its own stage.
StageOrder ==
    /\ checkpoint["gate"] = "done" => checkpoint["decision"] = "done"
    /\ checkpoint["execution"] = "done" => checkpoint["gate"] = "done"
    /\ pc \in PmLabels => checkpoint["decision"] # "done"
    /\ pc \in GateLabels =>
         checkpoint["decision"] = "done" /\ checkpoint["gate"] # "done"
    /\ pc \in ExecLabels =>
         checkpoint["gate"] = "done" /\ checkpoint["execution"] # "done"
    /\ pc \in RecLabels => checkpoint["execution"] = "done"

\* The rows a loop has still to visit are rows of the run date; the gate's
\* are all the rows that are still submitted, and no others but cur.
RowsToVisit ==
    /\ pc \in {"defaults", "default_hold"} => todo \subseteq Today
    /\ pc = "default_hold" => cur \in Today /\ decision[cur] = "none"
    /\ pc \in GateLabels =>
         /\ todo \subseteq Today
         /\ \A d \in Today : decision[d] = "submitted" => d \in todo
         /\ \A d \in todo : decision[d] # "submitted" => pc # "gate" /\ d = cur
         /\ pc # "gate" => cur \in todo
    /\ pc \in {"gate_event", "reject_event"} => decision[cur] # "submitted"
    /\ pc \in {"reject_decision", "reject_event"} => ticket[cur] # "open"
    /\ \/ pc = "body_done" /\ checkpoint["decision"] = "done"
       \/ checkpoint["gate"] = "done"
      => \A d \in Today : decision[d] # "submitted"

\* A ticket belongs to a decision that traded, is within its ask, and is
\* live on its run date only, after that day's decision stage.
TicketsSane ==
    \A d \in Decisions : ticket[d] # "none" =>
      /\ decision[d] \notin {"none", "held"}
      /\ 1 <= maxQty[d] /\ maxQty[d] <= ask[d]
      /\ decision[d] = "rejected" => ticket[d] # "open"
      /\ RunDate(d) <= day
      /\ RunDate(d) = day => checkpoint["decision"] = "done"
      /\ d \notin lapsed => RunDate(d) = day

AuthorityInv ==
    /\ TypeOK /\ HasRow /\ StageOrder /\ RowsToVisit /\ TicketsSane
    /\ OnlyAuthorizedOrders

-----------------------------------------------------------------------------
(* Orders, tickets and fill events. *)

Pending == {"submitted", "partially_filled"}
Closed == {"canceled", "rejected"}
RecordLabels == {"record_ticket", "record_fill", "record_numbers",
                 "record_event", "record_decision"}
TurnLabels == RecordLabels \cup {"trader"}
ApplyLabels == {"fill_order", "fill_event", "fill_decision", "fill_alert",
                "part_order", "part_alert"}
DeadLabels == {"dead_order", "dead_event", "dead_decision", "dead_alert"}

\* What is on the wire is of today, and who listens is the turn that placed
\* it: the sweep came before it, so the ticket it used does not expire.
TurnSane ==
    /\ \A c \in calls :
         /\ RunDate(c.d) = day
         /\ c.heard => /\ pc \in TurnLabels
                       /\ ticket[c.d] \in {"open", "consumed"}
    /\ \A a \in acks : /\ pc \in TurnLabels
                       /\ ticket[a.d] \in {"open", "consumed"}
    /\ pc = "record_ticket" => ticket[cur] \in {"open", "consumed"}
    /\ pc \in RecordLabels \ {"record_ticket"} => ticket[cur] = "consumed"

\* A decision settled otherwise than by expiry has a settled order, and one
\* that expired has an expired ticket.
SettledTogether ==
    \A d \in Decisions :
      /\ decision[d] \in {"executed", "failed"} => order[d] \in Closed \cup {"filled"}
      /\ decision[d] = "expired" => ticket[d] = "expired"

\* What the process knows of the row in hand from the books, and of the rows
\* that recovery has still to visit.
RowInBooks ==
    /\ pc \in RecordLabels \cup {"recover_ticket"} => order[cur] # "none"
    /\ pc = "expire_decision" => ticket[cur] = "expired"
    /\ pc = "recover" => todo \subseteq OpenWithoutOrder
    /\ pc \in {"recover_ticket", "recover_alert"} =>
         todo \ {cur} \subseteq OpenWithoutOrder
    /\ pc = "recover_ticket" => ticket[cur] = "open"
    /\ pc \in {"record_numbers", "record_event", "record_decision",
              "fill_event", "fill_decision", "fill_alert"} => order[cur] = "filled"
    /\ pc = "dead_order" => order[cur] \in Pending
    /\ pc \in DeadLabels \ {"dead_order"} => order[cur] \in Closed
    /\ pc \in {"record_numbers", "record_event", "fill_event", "dead_event"} =>
         fills[cur] = 0
    /\ pc = "dead_event" => ans.filled > 0

\* The books' figures lag behind the broker's, and an order that is not
\* working any more stands at the figure that came with the answer.
FiguresTrue ==
    /\ \A d \in Decisions : filledQty[d] <= brokerFilled[d]
    /\ \A a \in acks : a.status = "filled" => a.filled = brokerFilled[a.d]
    /\ pc \in RecordLabels /\ ans.status = "filled" => ans.filled = brokerFilled[cur]
    /\ pc \in {"record_event", "record_decision", "fill_order", "fill_event",
              "fill_decision", "fill_alert"} \cup DeadLabels =>
         filledQty[cur] = brokerFilled[cur]

RowsInv ==
    TurnSane /\ SettledTogether /\ RowInBooks /\ FiguresTrue
    /\ ConsumedHasOrder /\ OneFillPerOrder

-----------------------------------------------------------------------------
(* Runs that died at most once. *)

\* The labels at which cur is half booked.
HalfBooked == {"record_numbers", "record_event", "record_decision",
               "fill_event", "fill_decision", "dead_event", "dead_decision"}

\* No crash: an order and its ticket are one, and every row is wholly booked
\* but the one in hand, which still has its approved decision.
Uninterrupted ==
    crashes = 0 =>
      /\ \A d \in Decisions : order[d] # "none" =>
           \/ ticket[d] = "consumed"
           \/ d = cur /\ pc \in {"record_ticket", "recover_ticket"}
      /\ \A d \in Decisions : Booked(d) \/ (d = cur /\ pc \in HalfBooked)
      /\ pc \in HalfBooked => decision[cur] = "approved"
      /\ pc # "fill_alert"
      /\ pc \in {"record_decision", "fill_decision"} => fills[cur] = 1
      /\ pc = "dead_decision" => fills[cur] = IF ans.filled > 0 THEN 1 ELSE 0

\* One crash: it may have left a live order with an open ticket, and then the
\* fill is found by a poll, which goes on to the alert.
InterruptedOnce ==
    crashes <= 1 => \A d \in Decisions : order[d] = "filled" =>
      /\ decision[d] = "approved" =>
           \/ ticket[d] = "consumed"
           \/ d = cur /\ pc \in {"fill_event", "fill_decision"}
      /\ decision[d] = "expired" /\ "fill_on_unapproved_decision" \in Watched =>
           \/ <<"fill_on_unapproved_decision", d>> \in alerts
           \/ d = cur /\ pc \in {"fill_event", "fill_decision", "fill_alert"}

-----------------------------------------------------------------------------
(* What falls back is loud. *)

\* From the end of the turn on, a ticket without an order is on the list of
\* those still to be told of, or told of.
TicketsToTell ==
    "ticket_open_after_exec" \in Watched =>
      /\ pc = "exec_alerts" => SilentTickets \subseteq todo
      /\ \/ checkpoint["execution"] = "done"
         \/ pc = "body_done" /\ checkpoint["gate"] = "done"
        => SilentTickets = {}

\* Reconciliation is the last stage, and capped tells in which of its loops
\* _apply was called.
CapSane ==
    /\ checkpoint["reconciliation"] = "done" => checkpoint["execution"] = "done"
    /\ pc \in RecLabels => checkpoint["reconciliation"] # "done"
    /\ pc \notin ApplyLabels \cup {"body_done"} =>
         (capped <=> pc \in DeadLabels \cup {"close", "requery", "problems"})

\* An order recorded as submitted is in one of the lists of reconcile_orders
\* until it is told of.
Told == {d \in Decisions : \E code \in CapAlerts : <<code, d>> \in alerts}
Untold == {d \in Decisions : order[d] = "submitted"} \ Told
Apart == IF pc \in RowLabels THEN {cur} ELSE {}
OrdersToTell ==
    CapAlerts \subseteq Watched =>
      /\ pc \in ApplyLabels \ {"fill_order", "part_order"} => order[cur] # "submitted"
      /\ pc \in ApplyLabels \cup {"poll"} /\ ~capped =>
           Untold \ Apart \subseteq todo \cup confirmed \cup problem
      /\ pc \in ApplyLabels \cup DeadLabels \cup {"close", "requery"} /\ capped =>
           Untold \ Apart \subseteq todo \cup problem
      /\ pc = "problems" => Untold \subseteq todo
      /\ \/ checkpoint["reconciliation"] = "done"
         \/ pc = "body_done" /\ checkpoint["execution"] = "done"
        => Untold = {}

=============================================================================
