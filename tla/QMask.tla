------------------------------- MODULE QMask -------------------------------
(***************************************************************************)
(* The q-mask circuit of engine/src/convert.rs: a leaf and three summands  *)
(* added and reduced modulo the group order Q, bit by bit.  Where the code *)
(* pushes a gate, this module has the gate's value, a word: the set of     *)
(* lanes whose bit is one.  A number is a sequence of words, lowest bit    *)
(* first; bits past its end are zero.                                      *)
(***************************************************************************)
EXTENDS Rep3

CONSTANTS
    Width,      \* bits of a value: 256 in the code
    Q           \* the group order

(* Q fills the width, as the order of secp256k1 does.                      *)
ASSUME QMaskSizes ==
    Width \in Nat \ {0} /\ Q \in 2..(2^Width - 1) /\ 4 * (2^Width - 1) < 5 * Q

(* What the proofs need to know of powers of two, as far as they are used. *)
ASSUME PowersOfTwo == 2^0 = 1 /\ \A n \in 0..(Width + 3) : 2^(n + 1) = 2 * 2^n

Word(v, i) == IF i <= Len(v) THEN v[i] ELSE {}
BitAt(n, i) == (n \div 2^(i - 1)) % 2 = 1

(* A number of so many bits, built from the lowest one with a carry.       *)
Rippled(width, bit(_, _)) ==
    LET upTo[i \in 0..width] == IF i = 0 THEN [out |-> << >>, carry |-> {}] ELSE bit(upTo[i - 1], i)
    IN upTo[width]

Adder(r, a, b) ==
    [out |-> Append(r.out, a ## b ## r.carry), carry |-> (a \cap b) ## ((a ## b) \cap r.carry)]

(* add: one bit more than the width. *)
Add(a, b, width) ==
    LET r == Rippled(width, LAMBDA p, i : Adder(p, Word(a, i), Word(b, i)))
    IN Append(r.out, r.carry)

(* add_const: at a one the sum is inverted, and the carry an OR.           *)
ConstAdder(r, a, one, all) ==
    IF one THEN [out |-> Append(r.out, all \ (a ## r.carry)), carry |-> a \cup r.carry]
           ELSE [out |-> Append(r.out, a ## r.carry), carry |-> a \cap r.carry]
AddConst(a, k, width, all) == Rippled(width, LAMBDA p, i : ConstAdder(p, Word(a, i), BitAt(k, i), all))

(* cond_subtract_q: the carry out of u + (2^width - Q) tells whether u is  *)
(* at least Q, and selects the difference.                                 *)
Selector(r, a, b, which) == [out |-> Append(r.out, a ## (which \cap (a ## b))), carry |-> r.carry]
CondSubtractQ(u, width, all) ==
    LET v == AddConst(u, 2^width - Q, width, all)
    IN Rippled(width, LAMBDA p, i : Selector(p, Word(u, i), v.out[i], v.carry)).out

(* Mutant of Subtractions: one for each addition. *)
SubtractionsThree == 3

Subtractions == 4

(* build_qmask_circuit: (s + s0 + s1 + s2) mod Q.                          *)
MaskedSum(s, s0, s1, s2, all) ==
    LET sum == Add(Add(Add(s, s0, Width + 1), s1, Width + 2), s2, Width + 3)
        after[n \in 0..Subtractions] ==
            IF n = 0 THEN sum ELSE CondSubtractQ(after[n - 1], Width + 3, all)
    IN SubSeq(after[Subtractions], 1, Width)
=============================================================================
