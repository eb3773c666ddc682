------------------------------- MODULE MCDzkp -------------------------------
(* Dzkp with blocks of two over GF(32), and three ANDs in two levels.      *)
EXTENDS Dzkp

MCMultiplier ==
    [wires |-> 8, inputs |-> <<3>>, outputs |-> <<2>>,
     gates |-> << AndGate(0, 1, 3), InvGate(2, 4), AndGate(1, 4, 5), AndGate(3, 5, 6),
                  XorGate(6, 2, 7) >>]

MCLambda(s, prover, g) ==
    Numeral(((7 * g + 5 * prover + 3 * Cardinality(s)) % 31) + 1)

MCInputs == {<<<<AllLanes, AllLanes, {}>>>>, <<<<AllLanes, {0}, {0}>>>>}

Number(a, k, n) == (17 * k + 11 * n * n + 3 * n + 13 * a + a * k * n) % 32
MCRandomness ==
    {[zero |-> [k \in Parties |-> [n \in 1..3 |-> {l \in AllLanes : (Number(a, k, n) \div 2^l) % 2 = 1}]],
      coin |-> [k \in Parties |-> [n \in 1..20 |-> Numeral(Number(a, k, n + 5))]],
      prng |-> [k \in Parties |-> [n \in 1..40 |-> Numeral(Number(a + 3, k, n))]],
      deal |-> [w \in 1..3 |-> <<AllLanes, {0}>>]] : a \in 1..2}
=============================================================================
