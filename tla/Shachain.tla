------------------------------ MODULE Shachain ------------------------------
(***************************************************************************)
(* The BOLT #3 shachain as a free term algebra.  Every hash is a free      *)
(* constructor, so a 32-byte value is the sequence of bits that were       *)
(* flipped and hashed to reach it from the channel seed; equal values are  *)
(* equal walks.  An index is a natural number whose set bits, from the     *)
(* highest down, name the walk that derives its secret.                    *)
(*                                                                         *)
(* The code fixes Width = 48; the model is parameterised by it.  Powers of *)
(* two are a constant function constrained by an assumption, so that the   *)
(* proofs need nothing about exponentiation.                               *)
(***************************************************************************)
EXTENDS Integers, Sequences, FiniteSets

CONSTANTS Width, Pow2

ASSUME WidthAssumption == Width \in Nat \ {0}

(* Pow2 is the powers of two: positive, 1 and 2 to begin with, and turning *)
(* sums into products.                                                     *)
ASSUME Pow2Assumption ==
    /\ Pow2 \in [0..Width -> Nat \ {0}]
    /\ Pow2[0] = 1
    /\ Pow2[1] = 2
    /\ \A a, b \in 0..Width : a + b <= Width => Pow2[a + b] = Pow2[a] * Pow2[b]

-----------------------------------------------------------------------------
(* Numbers. *)

M == Pow2[Width] - 1            \* the index of commitment 0
Bits == 0..(Width - 1)
BitSet(n, b) == (n \div Pow2[b]) % 2 = 1
SetBits(n) == {b \in Bits : BitSet(n, b)}

(* The index whose secret revokes commitment number c. *)
IndexOf(c) == M - c

-----------------------------------------------------------------------------
(* Values. *)

Seed == << >>
Hash(value, bit) == Append(value, bit)      \* SHA256(flip(value, bit))
BitsOf(value) == {value[i] : i \in DOMAIN value}

(* value = generate_from_seed(seed, index): the set bits of index, each    *)
(* flipped once, from the highest down.                                    *)
GeneratesFromSeed(value, index) ==
    /\ BitsOf(value) = SetBits(index)
    /\ \A i, j \in DOMAIN value : i < j => value[i] > value[j]

(* value is a walk, and the one to index. *)
IsValueOf(value, index) == value \in Seq(Bits) /\ GeneratesFromSeed(value, index)

(* Whoever knows a value can go on hashing from it: value derives the      *)
(* secret of index when the walk to index passes through value.            *)
Derives(value, index) ==
    /\ \A i, j \in DOMAIN value : i < j => value[i] > value[j]
    /\ BitsOf(value) \subseteq SetBits(index)
    /\ \A b \in SetBits(index) \ BitsOf(value) : \A x \in BitsOf(value) : b < x
=============================================================================
