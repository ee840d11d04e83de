--------------------------- MODULE DecideAndGate ---------------------------
(***************************************************************************)
(* The decision and gate stages: run_decision, handle_submit_decision and  *)
(* run_gate.  What size() answers is any cap from 0 (a rejection) up: its  *)
(* inputs are rebuilt from live market data on every fire, so a resumed    *)
(* gate may size the same decision differently.                            *)
(***************************************************************************)
EXTENDS DayProcess

CONSTANT DbFaults   \* TRUE: a write of the gate body may raise

\* What a step of these two stages never touches.
elsewhere == <<lapsed, orderVars, dayVars, brokerVars, wire, pollVars>>

\* submit_decision: an UPSERT, refused once the row has left 'submitted'.
SubmitDecision(d, q) ==
    /\ pc = "pm"
    /\ d \in Today
    /\ decision[d] \in {"none", "submitted"}
    /\ decision' = [decision EXCEPT ![d] = "submitted"]
    /\ ask' = [ask EXCEPT ![d] = q]
    /\ UNCHANGED <<ticket, maxQty, alerts, pc, locals, elsewhere>>

\* The active tickers are recomputed on every fire from that fire's market
\* data, so a resume may cover fewer of them, or more.
EndPmTurn ==
    /\ pc = "pm"
    /\ Goto("defaults")
    /\ \E active \in SUBSET Today : todo' = active
    /\ UNCHANGED <<decisionVars, ticket, maxQty, alerts, cur, ans, elsewhere>>

\* A ticker the PM left undecided: the alert commits before the hold row.
DefaultAlert(d) ==
    /\ pc = "defaults"
    /\ d \in todo
    /\ IF decision[d] = "none"
         THEN Alert("pm_timeout", d) /\ Visit("default_hold", d)
         ELSE UNCHANGED alerts /\ Skip("defaults", d)
    /\ UNCHANGED <<decisionVars, ticket, maxQty, elsewhere>>

DefaultHold ==
    /\ pc = "default_hold"
    /\ decision' = [decision EXCEPT ![cur] = "submitted"]
    /\ ask' = [ask EXCEPT ![cur] = 0]
    /\ Next1("defaults")
    /\ UNCHANGED <<ticket, maxQty, alerts, elsewhere>>

EndDecision ==
    /\ pc = "defaults"
    /\ todo = {}
    /\ Goto("body_done")
    /\ UNCHANGED <<tables, dayVars, brokerVars, wire, locals, pollVars>>

GateHold(d) ==
    /\ pc = "gate"
    /\ d \in todo
    /\ ask[d] = 0
    /\ decision' = Swap(decision, d, "submitted", "held")
    /\ Skip("gate", d)
    /\ UNCHANGED <<ask, ticket, maxQty, alerts, elsewhere>>

\* _gate_handle on a trade: the ask is capped, and a ticket left by an
\* earlier attempt is reused under its id with a new cap and a new expiry.
GateSize(d, cap) ==
    /\ pc = "gate"
    /\ d \in todo
    /\ ask[d] > 0
    /\ LET qty == IF ask[d] <= cap THEN ask[d] ELSE cap IN
       IF qty < 1
         THEN Visit("reject", d) /\ UNCHANGED <<ticket, maxQty, lapsed>>
         ELSE /\ Visit("gate_approve", d)
              /\ IF ticket[d] \in {"none", "open"}
                   THEN /\ ticket' = [ticket EXCEPT ![d] = "open"]
                        /\ maxQty' = [maxQty EXCEPT ![d] = qty]
                        /\ lapsed' = lapsed \ {d}
                   ELSE UNCHANGED <<ticket, maxQty, lapsed>>
    /\ UNCHANGED <<decisionVars, orderVars, alerts, dayVars, brokerVars, wire,
                   pollVars>>

GateApprove ==
    /\ pc = "gate_approve"
    /\ decision' = Swap(decision, cur, "submitted", "approved")
    /\ IF decision[cur] = "submitted"
         THEN Goto("gate_event") /\ UNCHANGED locals
         ELSE Next1("gate")
    /\ UNCHANGED <<ask, ticket, maxQty, alerts, elsewhere>>

\* The gate_approved event commits after the status it reports.
GateEvent ==
    /\ pc = "gate_event"
    /\ Alert("gate_approved", cur)
    /\ Next1("gate")
    /\ UNCHANGED <<decisionVars, ticket, maxQty, elsewhere>>

\* run_gate's per-decision except: any raise, one inside _gate_reject too, is
\* handled as a rejection.  (A raise in that handler is a Crash.)
GateRaise(d) ==
    /\ DbFaults
    /\ \/ pc = "gate" /\ d \in todo
       \/ pc \in {"gate_approve", "gate_event", "reject_event"} /\ d = cur
    /\ Visit("reject", d)
    /\ UNCHANGED <<tables, dayVars, brokerVars, wire, pollVars>>

\* Mutant: the reject path leaves an earlier attempt's ticket alive.
RejectLeavesTicket ==
    /\ pc = "reject"
    /\ Goto("reject_decision")
    /\ UNCHANGED <<decisionVars, ticket, maxQty, alerts, locals, elsewhere>>

\* _gate_reject: an open ticket is closed before the decision is rejected.
RejectTicket ==
    /\ pc = "reject"
    /\ ticket' = Swap(ticket, cur, "open", "expired")
    /\ Goto("reject_decision")
    /\ UNCHANGED <<decisionVars, maxQty, alerts, locals, elsewhere>>

RejectDecision ==
    /\ pc = "reject_decision"
    /\ decision' = Swap(decision, cur, "submitted", "rejected")
    /\ IF decision[cur] = "submitted"
         THEN Goto("reject_event") /\ UNCHANGED locals
         ELSE Next1("gate")
    /\ UNCHANGED <<ask, ticket, maxQty, alerts, elsewhere>>

RejectEvent ==
    /\ pc = "reject_event"
    /\ Alert("gate_rejected", cur)
    /\ Next1("gate")
    /\ UNCHANGED <<decisionVars, ticket, maxQty, elsewhere>>

EndGate ==
    /\ pc = "gate"
    /\ todo = {}
    /\ Goto("body_done")
    /\ UNCHANGED <<tables, dayVars, brokerVars, wire, locals, pollVars>>

DecideAndGateStep ==
    \/ \E d \in Decisions, q \in 0 .. MaxQty : SubmitDecision(d, q)
    \/ EndPmTurn
    \/ \E d \in Decisions : DefaultAlert(d)
    \/ DefaultHold
    \/ EndDecision
    \/ \E d \in Decisions : GateHold(d)
    \/ \E d \in Decisions, cap \in 0 .. MaxQty : GateSize(d, cap)
    \/ GateApprove \/ GateEvent
    \/ \E d \in Decisions : GateRaise(d)
    \/ RejectTicket \/ RejectDecision \/ RejectEvent
    \/ EndGate
=============================================================================
