------------------------------ MODULE MCOutbox ------------------------------
(* Constants of Outbox for TLC: "posts" stands for a healthy channel. *)
EXTENDS Outbox
=============================================================================
