-------------------------------- MODULE Rep3 --------------------------------
(***************************************************************************)
(* Replicated sharing among three parties (engine/src/rep3.rs).  A word is *)
(* the set of lanes whose bit is one, so XOR is the symmetric difference   *)
(* and AND the intersection; the code's words have 64 lanes each, here     *)
(* lane l is bit l % 64 of word l / 64.  A secret x is x0 ## x1 ## x2, and *)
(* party p holds the pair <<x_p, x_{p+1}>>.                                *)
(***************************************************************************)
EXTENDS Ring, Sequences, FiniteSetsExt

a ## b == SymDiff(a, b)
PairXor(a, b) == <<a[1] ## b[1], a[2] ## b[2]>>
NoPair == <<{}, {}>>

(* The pairs of the three parties for components c[1], c[2], c[3].         *)
Replicated(c) == [p \in Parties |-> <<c[p + 1], c[NextOf(p) + 1]>>]

(* share_word: two random components, the third makes up the secret.       *)
ShareWord(x, x0, x1) == Replicated(<<x0, x1, x ## x0 ## x1>>)

(* Mutant of PublicPair: both holders put the value where party 0 does. *)
PublicFirst(p, v) == <<IF p \in {0, 2} THEN v ELSE {}, {}>>

(* Party p's pair of a public value: component x0 carries it, which        *)
(* parties 0 and 2 hold.                                                   *)
PublicPair(p, v) == <<IF p = 0 THEN v ELSE {}, IF p = 2 THEN v ELSE {}>>

(* Mutant of Consistent: the last party's copy is not compared. *)
ConsistentButLast(pairs) == \A p \in {0, 1} : pairs[p][2] = pairs[NextOf(p)][1]

(* Every component has two holders; their copies must agree before the     *)
(* value is put together (reconstruct_word, and combine_pairs of chain.rs).*)
Consistent(pairs) == \A p \in Parties : pairs[p][2] = pairs[NextOf(p)][1]
Reconstructed(pairs) == pairs[0][1] ## pairs[1][1] ## pairs[2][1]

(* What has been put together so far, by lane, and one lane's value added. *)
Recorded(f, l, value) == [k \in DOMAIN f \cup {l} |-> IF k = l THEN value ELSE f[k]]

(* Key j is held by parties j and j+1, so party p has the streams of its   *)
(* own key and of its previous party's.  Draw n: the two halves known to   *)
(* different neighbours, the zero share they make up, and the pair of a    *)
(* random sharing whose component j is the stream of key j-1.              *)
Halves(stream, p, n) == <<stream[PrevOf(p)][n], stream[p][n]>>
ZeroWord(stream, p, n) == Halves(stream, p, n)[1] ## Halves(stream, p, n)[2]
=============================================================================
