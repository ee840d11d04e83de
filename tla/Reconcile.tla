----------------------------- MODULE Reconcile -----------------------------
(***************************************************************************)
(* The reconciliation stage (orchestrator/reconcile.py): recover the       *)
(* orders whose row was never written, poll every pending order, and at    *)
(* the cap cancel, re-query and record what the broker then confirms.      *)
(* Numbers, status, fill event and decision are four commits, in that      *)
(* order.                                                                  *)
(***************************************************************************)
EXTENDS DayProcess

\* _CONFIRMED_DEAD: the status recorded for a broker status that is final.
Recorded(s) == IF s = "rejected" THEN "rejected" ELSE "canceled"

\* What a step of this stage never touches.
beyond == <<ask, maxQty, lapsed, dayVars, wire>>

----------------------------------------------------------------------------
\* recover_lost_orders, one ticket at a time.

\* Mutant: the INSERT is dropped and the ticket consumed all the same.
RecoverUnchecked(d, a) ==
    /\ pc = "recover"
    /\ d \in todo
    /\ a.status \notin {"none", "garbled"}
    /\ Visit("recover_ticket", d)
    /\ UNCHANGED <<decision, ticket, orderVars, alerts, brokerVars, pollVars,
                   beyond>>

\* The ticket has no order row: ask the broker, and write the row at
\* 'submitted' only for an order the ticket authorised (_recoverable_qty).  An
\* answer that is unusable or does not match, or an INSERT that is dropped or
\* raises, alerts and leaves the ticket open.
RecoverOrder(d, a) ==
    /\ pc = "recover"
    /\ d \in todo
    /\ a \in Answers(d)
    /\ \/ /\ a.status = "none"
          /\ Skip("recover", d)
          /\ UNCHANGED <<order, alerts>>
       \/ /\ a.status \notin {"none", "garbled"}
          /\ brokerQty[d] \in 1 .. maxQty[d]
          /\ order' = Swap(order, d, "none", "submitted")
          /\ Visit("recover_ticket", d)
          /\ UNCHANGED alerts
       \/ /\ a.status # "none"
          /\ \E code \in {"order_recovery_mismatch", "order_recovery_failed",
                          "order_recovery_unwritable"} : Alert(code, d)
          /\ Skip("recover", d)
          /\ UNCHANGED order
    /\ UNCHANGED <<decision, ticket, filledQty, fills, brokerVars, pollVars,
                   beyond>>

RecoverTicket ==
    /\ pc = "recover_ticket"
    /\ ticket' = Swap(ticket, cur, "open", "consumed")
    /\ IF ticket[cur] = "open"
         THEN Goto("recover_alert") /\ UNCHANGED locals
         ELSE Next1("recover")
    /\ UNCHANGED <<decision, orderVars, alerts, brokerVars, pollVars, beyond>>

RecoverAlert ==
    /\ pc = "recover_alert"
    /\ Alert("order_recovered", cur)
    /\ Next1("recover")
    /\ UNCHANGED <<decision, ticket, orderVars, brokerVars, pollVars, beyond>>

EndRecover ==
    /\ pc = "recover"
    /\ todo = {}
    /\ Goto("poll_read")
    /\ UNCHANGED <<tables, dayVars, brokerVars, wire, locals, pollVars>>

----------------------------------------------------------------------------
\* reconcile_orders: the poll loop.

PollRead ==
    /\ pc = "poll_read"
    /\ IF PendingOrders = {} THEN Goto("body_done") ELSE Goto("poll")
    /\ todo' = PendingOrders
    /\ UNCHANGED <<tables, dayVars, brokerVars, wire, cur, ans, pollVars>>

\* A fill or a partial fill: its numbers are committed ahead of the status.
WriteNumbers(d, a) ==
    /\ filledQty' = [filledQty EXCEPT ![d] = a.filled]
    /\ cur' = d
    /\ ans' = a
    /\ Goto(IF a.status = "filled" THEN "fill_order" ELSE "part_order")
    /\ UNCHANGED todo

\* One poll.  No order (an outage reads the same) and a dead order both
\* count as still open; an unusable answer is a problem.
PollOrder(d, a) ==
    /\ pc = "poll"
    /\ d \in todo
    /\ a \in Answers(d)
    /\ IF a.status \in {"filled", "partially_filled"}
         THEN WriteNumbers(d, a)
         ELSE Skip("poll", d) /\ UNCHANGED filledQty
    /\ confirmed' = IF a.status \in {"filled", "partially_filled", "garbled"}
                      THEN confirmed \ {d} ELSE confirmed \cup {d}
    /\ problem' = IF a.status = "garbled" THEN problem \cup {d}
                                          ELSE problem \ {d}
    /\ UNCHANGED <<decision, ticket, order, fills, alerts, brokerVars, polls,
                   capped, beyond>>

\* Mutant: "waited > max_wait_s", one round too many.
EndRoundLate ==
    /\ pc = "poll"
    /\ todo = {}
    /\ IF polls <= MaxPolls
         THEN Goto("poll_read") /\ polls' = polls + 1 /\ UNCHANGED <<todo, capped>>
         ELSE Goto("close") /\ capped' = TRUE /\ todo' = confirmed
                            /\ UNCHANGED polls
    /\ UNCHANGED <<tables, dayVars, brokerVars, wire, cur, ans, confirmed,
                   problem>>

\* The round is over: sleep and poll again, or close out what is still open.
EndRound ==
    /\ pc = "poll"
    /\ todo = {}
    /\ IF polls < MaxPolls
         THEN Goto("poll_read") /\ polls' = polls + 1 /\ UNCHANGED <<todo, capped>>
         ELSE Goto("close") /\ capped' = TRUE /\ todo' = confirmed
                            /\ UNCHANGED polls
    /\ UNCHANGED <<tables, dayVars, brokerVars, wire, cur, ans, confirmed,
                   problem>>

----------------------------------------------------------------------------
\* _apply, called from the poll loop and from the close-out of one order.

Resume == Next1(IF capped THEN "close" ELSE "poll")

\* Mutant: the fill event is not gated by the swap of the order.
FillUngated ==
    /\ pc = "fill_order"
    /\ Goto("fill_event")
    /\ UNCHANGED <<decision, ticket, orderVars, alerts, brokerVars, locals,
                   pollVars, beyond>>

FillOrder ==
    /\ pc = "fill_order"
    /\ order' = IF order[cur] = "submitted"
                  THEN Swap(order, cur, "submitted", "filled")
                  ELSE Swap(order, cur, "partially_filled", "filled")
    /\ IF order[cur] \in {"submitted", "partially_filled"}
         THEN Goto("fill_event") /\ UNCHANGED locals
         ELSE Resume
    /\ UNCHANGED <<decision, ticket, filledQty, fills, alerts, brokerVars,
                   pollVars, beyond>>

FillEvent ==
    /\ pc = "fill_event"
    /\ fills' = [fills EXCEPT ![cur] = @ + 1]
    /\ Goto("fill_decision")
    /\ UNCHANGED <<decision, ticket, order, filledQty, alerts, brokerVars,
                   locals, pollVars, beyond>>

\* Mutant: a decision that is not approved is passed over in silence.
FillDecisionSilently ==
    /\ pc = "fill_decision"
    /\ decision' = Swap(decision, cur, "approved", "executed")
    /\ Resume
    /\ UNCHANGED <<ticket, orderVars, alerts, brokerVars, pollVars, beyond>>

FillDecision ==
    /\ pc = "fill_decision"
    /\ decision' = Swap(decision, cur, "approved", "executed")
    /\ IF decision[cur] = "approved"
         THEN Resume
         ELSE Goto("fill_alert") /\ UNCHANGED locals
    /\ UNCHANGED <<ticket, orderVars, alerts, brokerVars, pollVars, beyond>>

FillAlert ==
    /\ pc = "fill_alert"
    /\ Alert("fill_on_unapproved_decision", cur)
    /\ Resume
    /\ UNCHANGED <<decision, ticket, orderVars, brokerVars, pollVars, beyond>>

PartOrder ==
    /\ pc = "part_order"
    /\ order' = Swap(order, cur, "submitted", "partially_filled")
    /\ IF order[cur] = "submitted"
         THEN Goto("part_alert") /\ UNCHANGED locals
         ELSE Resume
    /\ UNCHANGED <<decision, ticket, filledQty, fills, alerts, brokerVars,
                   pollVars, beyond>>

PartAlert ==
    /\ pc = "part_alert"
    /\ Alert("partial_fill_manual_review", cur)
    /\ Resume
    /\ UNCHANGED <<decision, ticket, orderVars, brokerVars, pollVars, beyond>>

----------------------------------------------------------------------------
\* _timeout_close, for each order the last poll left open.

\* Request the cancel; the request itself may fail, and the re-query decides.
CancelOrder(d) ==
    /\ pc = "close"
    /\ d \in todo
    /\ \E sent \in BOOLEAN :
         cancelReq' = IF sent THEN cancelReq \cup {d} ELSE cancelReq
    /\ Visit("requery", d)
    /\ UNCHANGED <<decision, ticket, orderVars, alerts, atBroker, brokerQty,
                   brokerFilled, pollVars, beyond>>

\* A dead order is recorded only along a legal edge, fill numbers first.
Requery(a) ==
    /\ pc = "requery"
    /\ a \in Answers(cur)
    /\ \/ /\ a.status \in {"filled", "partially_filled"}
          /\ WriteNumbers(cur, a)
          /\ UNCHANGED alerts
       \/ /\ a.status \in Dead
          /\ <<order[cur], Recorded(a.status)>> \in OrderEdges
          /\ filledQty' = IF a.filled > 0
                            THEN [filledQty EXCEPT ![cur] = a.filled]
                            ELSE filledQty
          /\ ans' = a
          /\ Goto("dead_order")
          /\ UNCHANGED <<alerts, todo, cur>>
       \/ /\ \/ a.status \in {"none", "garbled", "accepted"}
             \/ /\ a.status \in Dead
                /\ <<order[cur], Recorded(a.status)>> \notin OrderEdges
          /\ Alert("order_unreconciled", cur)
          /\ Next1("close")
          /\ UNCHANGED filledQty
    /\ UNCHANGED <<decision, ticket, order, fills, brokerVars, pollVars, beyond>>

\* Mutant: a partial fill that died gets no fill event.
DeadWithoutEvent ==
    /\ pc = "dead_order"
    /\ order' = [order EXCEPT ![cur] = Recorded(ans.status)]
    /\ Goto("dead_decision")
    /\ UNCHANGED <<decision, ticket, filledQty, fills, alerts, brokerVars,
                   locals, pollVars, beyond>>

DeadOrder ==
    /\ pc = "dead_order"
    /\ order' = [order EXCEPT ![cur] = Recorded(ans.status)]
    /\ Goto(IF ans.filled > 0 THEN "dead_event" ELSE "dead_decision")
    /\ UNCHANGED <<decision, ticket, filledQty, fills, alerts, brokerVars,
                   locals, pollVars, beyond>>

DeadEvent ==
    /\ pc = "dead_event"
    /\ fills' = [fills EXCEPT ![cur] = @ + 1]
    /\ Goto("dead_decision")
    /\ UNCHANGED <<decision, ticket, order, filledQty, alerts, brokerVars,
                   locals, pollVars, beyond>>

\* Mutant: a dead order always fails its decision, shares or none.
DeadAlwaysFails ==
    /\ pc = "dead_decision"
    /\ decision' = Swap(decision, cur, "approved", "failed")
    /\ Goto("dead_alert")
    /\ UNCHANGED <<ticket, orderVars, alerts, brokerVars, locals, pollVars,
                   beyond>>

\* Shares changed hands: executed.  None did: failed.
DeadDecision ==
    /\ pc = "dead_decision"
    /\ decision' = Swap(decision, cur, "approved",
                        IF ans.filled > 0 THEN "executed" ELSE "failed")
    /\ Goto("dead_alert")
    /\ UNCHANGED <<ticket, orderVars, alerts, brokerVars, locals, pollVars,
                   beyond>>

DeadAlert ==
    /\ pc = "dead_alert"
    /\ Alert(IF ans.filled > 0 THEN "order_partial_then_dead"
                               ELSE "order_unfilled_at_cap", cur)
    /\ Next1("close")
    /\ UNCHANGED <<decision, ticket, orderVars, brokerVars, pollVars, beyond>>

\* Mutant: the cap's second loop, over the problem orders, is missing.
EndCloseSilently ==
    /\ pc = "close"
    /\ todo = {}
    /\ Goto("problems")
    /\ UNCHANGED <<tables, dayVars, brokerVars, wire, locals, pollVars>>

EndClose ==
    /\ pc = "close"
    /\ todo = {}
    /\ Goto("problems")
    /\ todo' = problem
    /\ UNCHANGED <<tables, dayVars, brokerVars, wire, cur, ans, pollVars>>

\* An order the last poll could not read is left for the next run, loudly.
ProblemAlert(d) ==
    /\ pc = "problems"
    /\ d \in todo
    /\ Alert("order_unresolved_at_cap", d)
    /\ Skip("problems", d)
    /\ UNCHANGED <<decision, ticket, orderVars, brokerVars, pollVars, beyond>>

EndReconcile ==
    /\ pc = "problems"
    /\ todo = {}
    /\ Goto("body_done")
    /\ UNCHANGED <<tables, dayVars, brokerVars, wire, locals, pollVars>>

ReconcileStep ==
    \/ \E d \in Decisions : \E a \in Answers(d) : RecoverOrder(d, a)
    \/ RecoverTicket \/ RecoverAlert \/ EndRecover
    \/ PollRead
    \/ \E d \in Decisions : \E a \in Answers(d) : PollOrder(d, a)
    \/ EndRound
    \/ FillOrder \/ FillEvent \/ FillDecision \/ FillAlert
    \/ PartOrder \/ PartAlert
    \/ \E d \in Decisions : CancelOrder(d)
    \/ pc = "requery" /\ \E a \in Answers(cur) : Requery(a)
    \/ DeadOrder \/ DeadEvent \/ DeadDecision \/ DeadAlert
    \/ EndClose
    \/ \E d \in Decisions : ProblemAlert(d)
    \/ EndReconcile
=============================================================================
