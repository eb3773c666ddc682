------------------------------ MODULE MCChain ------------------------------
(* Chain with values of two bytes of two bits, and a hash of twelve gates. *)
EXTENDS Chain

(* Block wires 0-7, start state 8-11, then gates; outputs are wires 20-23. *)
MCCircuit ==
    [wires |-> 24, inputs |-> <<8, 4>>, outputs |-> <<4>>,
     gates |-> << XorGate(7, 8, 12),  AndGate(6, 12, 13), XorGate(5, 2, 14),
                  InvGate(4, 15),     AndGate(14, 15, 16), XorGate(13, 9, 17),
                  XorGate(16, 3, 18), AndGate(17, 18, 19),
                  XorGate(19, 4, 20), XorGate(17, 7, 21),
                  XorGate(18, 10, 22), XorGate(6, 19, 23) >>]
MCIV == {0, 2}
MCSeeds == {{}, {0, 3}}

(* Two patterns of random words.                                         *)
Word(a, k, n) == {l \in 0..15 : ((l * l + a * l + k * n + n) \div (k + 1)) % 2 = 1}
MCRandomness ==
    {[stream |-> [k \in Parties |-> [n \in 1..12 |-> Word(a, k, n)]],
      deal   |-> [m \in Entries |-> <<Word(a, 1, m), Word(a, 2, m)>>],
      pad    |-> [k \in Parties |-> [vid \in 0..7 |-> Word(a, k, vid) \cap Entries]]] : a \in 1..2}
=============================================================================
