-------------------------------- MODULE Ring --------------------------------
(***************************************************************************)
(* The engine's three parties, each with a next and a previous neighbour   *)
(* (engine/src/net.rs): indices are taken modulo 3.                        *)
(***************************************************************************)
EXTENDS Integers

Parties == 0..2
NextOf(p) == (p + 1) % 3
PrevOf(p) == (p + 2) % 3
=============================================================================
