-------------------------- MODULE OrderedDelivery --------------------------
(***************************************************************************)
(* What slackkit/outbox.py promises of the events table, with the drains,  *)
(* the crashes and the duplicates left out: events are queued in order and *)
(* each is settled in its turn, delivered or abandoned, none is passed     *)
(* over, and one that was delivered is never taken back.                   *)
(***************************************************************************)
EXTENDS Naturals, Sequences

VARIABLE fate   \* "queued", "delivered" or "abandoned", in order of the ids

Init == fate = << >>

Queue == fate' = Append(fate, "queued")

\* Its turn: everything queued before it has been settled.
Settle(i) ==
    /\ fate[i] = "queued"
    /\ \A j \in 1 .. i - 1 : fate[j] # "queued"
    /\ \E f \in {"delivered", "abandoned"} : fate' = [fate EXCEPT ![i] = f]

\* A second drain that still has the event in hand finds the channel mended.
DeliverLate(i) ==
    /\ fate[i] = "abandoned"
    /\ fate' = [fate EXCEPT ![i] = "delivered"]

Next ==
    \/ Queue
    \/ \E i \in DOMAIN fate : Settle(i) \/ DeliverLate(i)

Spec == Init /\ [][Next]_fate
=============================================================================
