----------------------------- MODULE Execution -----------------------------
(***************************************************************************)
(* The execution stage: run_execution and expire_open_tickets, and, inside *)
(* the trader's turn, the two hooks around a place_* call: order_gate with *)
(* validate_order before it and record_order after it.  The turn is a      *)
(* language model's: it may request anything, in any number, several at    *)
(* once, and may be abandoned at its wall-clock ceiling with calls still   *)
(* on the wire.  The recorder never awaits, so only the process's death    *)
(* comes between its commits.                                              *)
(***************************************************************************)
EXTENDS DayProcess

CONSTANT MaxCalls   \* bound on the placements in flight at once

ASSUME ExecutionAssumption == MaxCalls \in Nat \ {0}

\* expire_open_tickets: the ticket commits first, its decision second.
ExpireTicket(d) ==
    /\ pc = "expire"
    /\ d \in todo
    /\ ticket' = Swap(ticket, d, "open", "expired")
    /\ IF ticket[d] = "open"
         THEN Visit("expire_decision", d)
         ELSE Skip("expire", d)
    /\ UNCHANGED <<decisionVars, maxQty, lapsed, orderVars, alerts, dayVars,
                   brokerVars, wire, pollVars>>

\* Mutant: the sweep expires the ticket and forgets its decision.
ExpireTicketOnly ==
    /\ pc = "expire_decision"
    /\ Next1("expire")
    /\ UNCHANGED <<decisionVars, ticketVars, orderVars, alerts, dayVars,
                   brokerVars, wire, pollVars>>

ExpireDecision ==
    /\ pc = "expire_decision"
    /\ decision' = Swap(decision, cur, "approved", "expired")
    /\ Next1("expire")
    /\ UNCHANGED <<ask, ticketVars, orderVars, alerts, dayVars, brokerVars,
                   wire, pollVars>>

\* No open ticket, no turn.
StartTurn ==
    /\ pc = "expire"
    /\ todo = {}
    /\ IF OpenTickets # {}
         THEN Goto("trader") /\ UNCHANGED todo
         ELSE Goto("exec_alerts") /\ todo' = OpenWithoutOrder
    /\ UNCHANGED <<tables, dayVars, brokerVars, wire, cur, ans, pollVars>>

(***************************************************************************)
(* validate_order.  A request names a ticket, a whole share count and      *)
(* terms (symbol, side, order class, stop leg, time in force) that either  *)
(* are the ticket's or are not.                                            *)
(***************************************************************************)
Requests == [d : Decisions, qty : 0 .. MaxQty + 1, terms : BOOLEAN]

Authorized(r) ==
    /\ ticket[r.d] = "open"
    /\ r.d \notin lapsed
    /\ r.terms
    /\ r.qty >= 1
    /\ r.qty <= maxQty[r.d]

\* order_gate lets the request through to the broker, or denies it loudly: any
\* verb of the broker that changes something and is not a ticket's placement,
\* and a placement its ticket does not authorise.
PlaceOrder(r) ==
    /\ pc = "trader"
    /\ Cardinality(calls) < MaxCalls
    /\ Authorized(r)
    /\ calls' = calls \cup {[d |-> r.d, qty |-> r.qty, heard |-> TRUE]}
    /\ UNCHANGED <<tables, dayVars, brokerVars, acks, pc, locals, pollVars>>

DenyOrder(r) ==
    /\ pc = "trader"
    /\ ~Authorized(r)
    /\ Alert("order_gate_denied", r.d)
    /\ UNCHANGED <<decisionVars, ticketVars, orderVars, dayVars, brokerVars,
                   wire, pc, locals, pollVars>>

\* record_order: the row first (INSERT OR IGNORE), then the ticket.
RecordOrder(a) ==
    /\ pc = "trader"
    /\ a \in acks
    /\ acks' = acks \ {a}
    /\ order' = Swap(order, a.d, "none", "submitted")
    /\ Goto("record_ticket")
    /\ cur' = a.d
    /\ ans' = [status |-> a.status, filled |-> a.filled]
    /\ UNCHANGED <<decisionVars, ticketVars, filledQty, fills, alerts, dayVars,
                   brokerVars, calls, todo, pollVars>>

\* Fill numbers that do not parse leave the row submitted, as an ack does.
RecordTicket ==
    /\ pc = "record_ticket"
    /\ ticket' = Swap(ticket, cur, "open", "consumed")
    /\ IF ans.status = "filled"
         THEN Goto("record_fill") /\ UNCHANGED locals
         ELSE Next1("trader")
    /\ UNCHANGED <<decisionVars, maxQty, lapsed, orderVars, alerts, dayVars,
                   brokerVars, wire, pollVars>>

RecordFill ==
    /\ pc = "record_fill"
    /\ order' = Swap(order, cur, "submitted", "filled")
    /\ IF order[cur] = "submitted"
         THEN Goto("record_numbers") /\ UNCHANGED locals
         ELSE Next1("trader")
    /\ UNCHANGED <<decisionVars, ticketVars, filledQty, fills, alerts, dayVars,
                   brokerVars, wire, pollVars>>

RecordNumbers ==
    /\ pc = "record_numbers"
    /\ filledQty' = [filledQty EXCEPT ![cur] = ans.filled]
    /\ Goto("record_event")
    /\ UNCHANGED <<decisionVars, ticketVars, order, fills, alerts, dayVars,
                   brokerVars, wire, locals, pollVars>>

RecordEvent ==
    /\ pc = "record_event"
    /\ fills' = [fills EXCEPT ![cur] = @ + 1]
    /\ Goto("record_decision")
    /\ UNCHANGED <<decisionVars, ticketVars, order, filledQty, alerts, dayVars,
                   brokerVars, wire, locals, pollVars>>

\* No alert here when the decision was not 'approved': reconcile has one.
RecordDecision ==
    /\ pc = "record_decision"
    /\ decision' = Swap(decision, cur, "approved", "executed")
    /\ Next1("trader")
    /\ UNCHANGED <<ask, ticketVars, orderVars, alerts, dayVars, brokerVars,
                   wire, pollVars>>

\* The turn ends, answered or abandoned; no later response is recorded.
EndTurn ==
    /\ pc = "trader"
    /\ Goto("exec_alerts")
    /\ todo' = OpenWithoutOrder
    /\ HangUp
    /\ UNCHANGED <<tables, dayVars, brokerVars, cur, ans, pollVars>>

\* _alert_unexecuted_tickets.
AlertUnexecuted(d) ==
    /\ pc = "exec_alerts"
    /\ d \in todo
    /\ Alert("ticket_open_after_exec", d)
    /\ Skip("exec_alerts", d)
    /\ UNCHANGED <<decisionVars, ticketVars, orderVars, dayVars, brokerVars,
                   wire, pollVars>>

EndExecution ==
    /\ pc = "exec_alerts"
    /\ todo = {}
    /\ Goto("body_done")
    /\ UNCHANGED <<tables, dayVars, brokerVars, wire, locals, pollVars>>

ExecutionStep ==
    \/ \E d \in Decisions : ExpireTicket(d)
    \/ ExpireDecision
    \/ StartTurn
    \/ \E r \in Requests : PlaceOrder(r)
    \/ \E r \in Requests : DenyOrder(r)
    \/ \E a \in acks : RecordOrder(a)
    \/ RecordTicket \/ RecordFill \/ RecordNumbers
    \/ RecordEvent \/ RecordDecision
    \/ EndTurn
    \/ \E d \in Decisions : AlertUnexecuted(d)
    \/ EndExecution
=============================================================================
