----------------------------- MODULE MCPlanner -----------------------------
(* A shachain of width 3: eight commitments, indices 7 down to 0. *)
EXTENDS PlannerInv

MCPow2 == [d \in 0..Width |-> 2^d]
=============================================================================
