------------------------------ MODULE MCWebhooks ------------------------------
(***************************************************************************)
(* A small instance of Webhooks: three notifications to one integrator.    *)
(***************************************************************************)
EXTENDS Webhooks

CONSTANTS d1, d2, d3, i1

Owners == [d \in {d1, d2, d3} |-> i1]
=============================================================================
