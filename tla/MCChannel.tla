----------------------------- MODULE MCChannel -----------------------------
(* The driver of main with few updates on either side of the quorum change, *)
(* on a channel of eight commitments.                                      *)
EXTENDS ChannelInv

MCPow2 == [d \in 0..Width |-> 2^d]
=============================================================================
