------------------------------- MODULE Broker -------------------------------
(***************************************************************************)
(* The broker, outside the repository, as the fund's code sees it through  *)
(* the place_* tool calls of the execution seat and the BrokerPort of      *)
(* orchestrator/broker.py.  An order is keyed by client_order_id, which is *)
(* the ticket's id, and a second placement under a known id is refused.    *)
(* Orders fill, fill in part or die at any time; an answer may be lost.    *)
(***************************************************************************)
EXTENDS Books

VARIABLES
    atBroker,      \* the broker's status of the order placed under a ticket
    brokerQty,     \* shares ordered
    brokerFilled,  \* shares that changed hands
    cancelReq,     \* orders whose cancel the broker has accepted
    calls,         \* placements the hook allowed that are still on the wire
    acks           \* tool responses the recorder hook has not seen yet

brokerVars == <<atBroker, brokerQty, brokerFilled, cancelReq>>
wire == <<calls, acks>>

Working == {"accepted", "partially_filled"}
Dead == {"canceled", "expired", "rejected"}
BrokerStatus == {"none", "filled"} \cup Working \cup Dead

Call == [d : Decisions, qty : 0 .. MaxQty, heard : BOOLEAN]
Ack == [d : Decisions, status : {"accepted", "filled", "garbled"},
        filled : 0 .. MaxQty]

BrokerTypeOK ==
    /\ atBroker \in [Decisions -> BrokerStatus]
    /\ brokerQty \in [Decisions -> 0 .. MaxQty]
    /\ brokerFilled \in [Decisions -> 0 .. MaxQty]
    /\ cancelReq \in SUBSET Decisions
    /\ calls \in SUBSET Call
    /\ acks \in SUBSET Ack

BrokerInit ==
    /\ atBroker = [d \in Decisions |-> "none"]
    /\ brokerQty = [d \in Decisions |-> 0]
    /\ brokerFilled = [d \in Decisions |-> 0]
    /\ cancelReq = {}
    /\ calls = {}
    /\ acks = {}

(***************************************************************************)
(* What get_order_by_client_order_id may return for d: the truth, nothing  *)
(* (unknown id, or an outage the adapter swallows), or Garbled: an         *)
(* exception, or a payload the caller's checks refuse (_parse_fill,        *)
(* _recoverable_qty).                                                      *)
(***************************************************************************)
Truth(d) == [status |-> atBroker[d], filled |-> brokerFilled[d]]
Nothing == [status |-> "none", filled |-> 0]
Garbled == [status |-> "garbled", filled |-> 0]
Answers(d) == {Truth(d), Nothing, Garbled}
Answer == [status : BrokerStatus \cup {"garbled"}, filled : 0 .. MaxQty]

\* The responses a landed placement may produce; a market order may come
\* back filled, and fill numbers may not parse.
Responses(d, qty) ==
    {[d |-> d, status |-> "accepted", filled |-> 0],
     [d |-> d, status |-> "filled", filled |-> qty],
     [d |-> d, status |-> "garbled", filled |-> 0]}

(***************************************************************************)
(* A placement reaches the broker.  A fresh id is booked (and a response   *)
(* heads back, if the turn that placed it is there to hear it); a known id *)
(* is a 422, and _extract_order turns it into nothing.                     *)
(***************************************************************************)
Land(c) ==
    /\ c \in calls
    /\ calls' = calls \ {c}
    /\ IF atBroker[c.d] = "none"
         THEN \E r \in Responses(c.d, c.qty) :
                /\ atBroker' = [atBroker EXCEPT ![c.d] =
                       IF r.status = "accepted" THEN "accepted" ELSE "filled"]
                /\ brokerQty' = [brokerQty EXCEPT ![c.d] = c.qty]
                /\ brokerFilled' = [brokerFilled EXCEPT ![c.d] =
                       IF r.status = "accepted" THEN 0 ELSE c.qty]
                /\ acks' = IF c.heard THEN acks \cup {r} ELSE acks
         ELSE UNCHANGED <<atBroker, brokerQty, brokerFilled, acks>>
    /\ UNCHANGED cancelReq

\* The request never lands, or the broker refuses it outright.
LoseCall(c) ==
    /\ c \in calls
    /\ calls' = calls \ {c}
    /\ UNCHANGED <<brokerVars, acks>>

\* The seat's session ends, with its turn or its process: what it placed may
\* still land, but no recorder hook of a later session hears of it.
HangUp ==
    /\ acks' = {}
    /\ calls' = {[c EXCEPT !.heard = FALSE] : c \in calls}

\* The response is lost (a gateway 504): the recorder hook never runs.
LoseAck(a) ==
    /\ a \in acks
    /\ acks' = acks \ {a}
    /\ UNCHANGED <<brokerVars, calls>>

Fill(d) ==
    /\ atBroker[d] \in Working
    /\ atBroker' = [atBroker EXCEPT ![d] = "filled"]
    /\ brokerFilled' = [brokerFilled EXCEPT ![d] = brokerQty[d]]
    /\ UNCHANGED <<brokerQty, cancelReq, wire>>

PartialFill(d) ==
    /\ atBroker[d] \in Working
    /\ \E q \in (brokerFilled[d] + 1) .. (brokerQty[d] - 1) :
         brokerFilled' = [brokerFilled EXCEPT ![d] = q]
    /\ atBroker' = [atBroker EXCEPT ![d] = "partially_filled"]
    /\ UNCHANGED <<brokerQty, cancelReq, wire>>

\* A cancel the fund asked for, a day order's expiry, or a late rejection.
Die(d) ==
    /\ atBroker[d] \in Working
    /\ \E s \in Dead : atBroker' = [atBroker EXCEPT ![d] = s]
    /\ UNCHANGED <<brokerQty, brokerFilled, cancelReq, wire>>
=============================================================================
