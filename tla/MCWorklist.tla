----------------------------- MODULE MCWorklist -----------------------------
(* Constants of Worklist for TLC: row 1 was enqueued, row 2 written by hand. *)
EXTENDS Worklist
=============================================================================
