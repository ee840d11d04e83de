-------------------------- MODULE MCOrderPipeline --------------------------
(* Constants of OrderPipeline for TLC. *)
EXTENDS OrderInvariant
=============================================================================
