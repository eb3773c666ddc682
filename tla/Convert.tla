------------------------------ MODULE Convert ------------------------------
(***************************************************************************)
(* Boolean-to-scalar conversion (engine/src/convert.rs).  The parties mask *)
(* every lane of a block of leaves modulo the group order in one joint     *)
(* evaluation and open the results; the adapter then has, lane by lane,    *)
(* the leaf's point from the parties' summand points, and the leaf itself  *)
(* from their summands, which must fit the point.                          *)
(*                                                                         *)
(* The joint evaluation is taken at its promise (SharedResult): its result *)
(* is the circuit's, of the inputs any two neighbours hold.  The curve is  *)
(* external: the point of a scalar is represented by the scalar modulo Q,  *)
(* and the adapter only adds, subtracts and compares points.               *)
(***************************************************************************)
EXTENDS QMask

CONSTANTS
    ByteBits,           \* bits of a byte: 8 in the code
    H,                  \* depth of a block
    Roots,              \* root indices a block may have
    Derived(_, _),      \* qmask_summand_pair: key and value id -> number
    Leaves,             \* [lanes -> numbers] a block may hold
    Deal(_),            \* an entry's two random components
    Shifts              \* what a lie may add to a summand

Bytes == Width \div ByteBits
Numbers == 0..(2^Width - 1)
Lanes == 0..(2^H - 1)

(* A summand that is a multiple of Q has no point that can be published    *)
(* (compress panics); of a 256-bit hash that is not expected.              *)
ASSUME ConvertSizes ==
    /\ ByteBits \in Nat \ {0} /\ ByteBits * Bytes = Width /\ H \in Nat /\ Roots \subseteq Nat
    /\ Leaves \subseteq [Lanes -> Numbers]
    /\ \A k \in Parties, r \in Roots, l \in Lanes :
            Derived(k, r + l) \in Numbers /\ Derived(k, r + l) % Q # 0

VARIABLES
    root, leaf,         \* the block: root index, and lane -> leaf (history)
    shares,             \* party -> entry -> its pair of components
    stage,              \* "prepared", "masked" or "aborted"
    masked,             \* lane -> the public masked leaf t
    point,              \* lane -> the published point, and who lied for it
    released            \* lane -> the released scalar

vars == <<root, leaf, shares, stage, masked, point, released>>

-----------------------------------------------------------------------------
Entries == 0..(Width - 1)

(* A leaf's bytes read as a big-endian integer: bit b of byte m.           *)
InEntry(n, m) == (n \div 2^(ByteBits * (Bytes - 1 - (m \div ByteBits)) + (m % ByteBits))) % 2 = 1
LeafWord(leaves, m) == {l \in Lanes : InEntry(leaves[l], m)}

Init ==
    /\ root \in Roots /\ leaf \in Leaves
    /\ LET dealt(m) == ShareWord(LeafWord(leaf, m), Deal(m)[1], Deal(m)[2])
       IN shares = [p \in Parties |-> [m \in Entries |-> dealt(m)[p]]]
    /\ stage = "prepared"
    /\ masked = << >> /\ point = << >> /\ released = << >>

(* Mutant of EntryOfBit: entries taken from the lowest one. *)
EntryOfBit0(i) == i

(* Integer bit i of a leaf is this entry.                                  *)
EntryOfBit(i) == (ByteBits * (Bytes - 1 - (i \div ByteBits))) + (i % ByteBits)

(* qmask_summand_pair: from the keys of the previous party and its own.    *)
SummandPair(p, vid) == <<Derived(PrevOf(p), vid), Derived(p, vid)>>

(* The component of summand j that party p writes; all others are zero.    *)
HeldAs(p, j) == {c \in 1..2 : (p + c - 1) % 3 = j}
SummandBit(p, j, i) ==
    [c \in 1..2 |-> IF c \in HeldAs(p, j)
                      THEN {l \in Lanes : BitAt(SummandPair(p, root + l)[c], i)} ELSE {}]

(* mask_block's tape: the leaf, then the three summands.                   *)
InputOf(p, k) ==
    [i \in 1..Width |-> IF k = 0 THEN shares[p][EntryOfBit(i - 1)] ELSE SummandBit(p, k - 1, i)]

(* What p and its next party hold an input to be.                          *)
Held(p, k) ==
    LET mine == InputOf(p, k)  theirs == InputOf(NextOf(p), k)
    IN [i \in 1..Width |-> mine[i][1] ## mine[i][2] ## theirs[i][2]]

NumberIn(words, l) == SumSet({2^(i - 1) : i \in {b \in DOMAIN words : l \in words[b]}})

MaskBlock ==
    /\ stage = "prepared" /\ stage' = "masked"
    /\ \E p \in Parties :
        LET opened == MaskedSum(Held(p, 0), Held(p, 1), Held(p, 2), Held(p, 3), Lanes)
        IN masked' = [l \in Lanes |-> NumberIn(opened, l)]
    /\ UNCHANGED <<root, leaf, shares, point, released>>

(* A party that detects a cheat, or loses a peer, aborts the block.        *)
BlockAborts ==
    /\ stage = "prepared" /\ stage' = "aborted"
    /\ UNCHANGED <<root, leaf, shares, masked, point, released>>

-----------------------------------------------------------------------------
(* The adapter handles the highest lane first, its point before its        *)
(* release.  A refused answer leaves it where it is, and it can ask again. *)
LaneNow == 2^H - 1 - Cardinality(DOMAIN released)
Vid == root + LaneNow

NotAPoint == Q
PointPair(p) == <<SummandPair(p, Vid)[1] % Q, SummandPair(p, Vid)[2] % Q>>

(* A party may answer with another value in either component.              *)
OtherPoints(x) == {(x + d) % Q : d \in Shifts} \cup {x, NotAPoint}
OtherSummands(x) == {(x + d) % 2^Width : d \in Shifts} \cup {x}
Answers(pairs, Others(_)) ==
    {[p \in Parties |-> (<<a, b, c>>)[p + 1]] :
        a \in Others(pairs[0][1]) \X Others(pairs[0][2]),
        b \in Others(pairs[1][1]) \X Others(pairs[1][2]),
        c \in Others(pairs[2][1]) \X Others(pairs[2][2])}
Liars(pairs, honest) == {p \in Parties : pairs[p] # honest[p]}

(* t less the three summands, of points or of scalars.                     *)
Unmasked(t, pairs) == (t - pairs[0][1] - pairs[1][1] - pairs[2][1]) % Q

(* published_point: the copies agree and are points, and the result has a  *)
(* compressed form (compress panics on the identity).                      *)
PublishPoint ==
    LET honest == [p \in Parties |-> PointPair(p)]
    IN /\ stage = "masked" /\ LaneNow \in Lanes \ DOMAIN point
       /\ \E pairs \in Answers(honest, OtherPoints) :
            /\ Consistent(pairs)
            /\ \A p \in Parties : pairs[p][1] \in 1..(Q - 1)
            /\ Unmasked(masked[LaneNow], pairs) # 0
            /\ point' = Recorded(point, LaneNow, [value |-> Unmasked(masked[LaneNow], pairs),
                                                  liars |-> Liars(pairs, honest)])
       /\ UNCHANGED <<root, leaf, shares, stage, masked, released>>

(* Mutant of Matches: the point is not checked. *)
MatchesAny(s, p) == TRUE

(* The equation the counterparty verifies.                                 *)
Matches(s, p) == s = p

(* release_q: the copies agree, and the result fits the point.             *)
Release ==
    /\ stage = "masked" /\ LaneNow \in DOMAIN point
    /\ \E pairs \in Answers([p \in Parties |-> SummandPair(p, Vid)], OtherSummands) :
        LET s == Unmasked(masked[LaneNow], pairs)
        IN /\ Consistent(pairs)
           /\ Matches(s, point[LaneNow].value)
           /\ released' = Recorded(released, LaneNow, s)
    /\ UNCHANGED <<root, leaf, shares, stage, masked, point>>

Next == MaskBlock \/ BlockAborts \/ PublishPoint \/ Release

Spec == Init /\ [][Next]_vars

-----------------------------------------------------------------------------
Scalars == 0..(Q - 1)

TypeOK ==
    /\ root \in Roots /\ leaf \in Leaves
    /\ stage \in {"prepared", "masked", "aborted"}
    /\ DOMAIN masked = IF stage = "masked" THEN Lanes ELSE {}
    /\ \A l \in DOMAIN masked : masked[l] \in Scalars
    /\ \A l \in DOMAIN point : point[l].value \in Scalars \ {0} /\ point[l].liars \subseteq Parties
    /\ DOMAIN released \subseteq DOMAIN point

(* What a block publishes of a leaf is the leaf plus its three summands    *)
(* modulo the order: four 256-bit numbers never need a fifth subtraction,  *)
(* and sometimes the fourth ("three ripple additions and four conditional  *)
(* subtractions of q", convert.rs:12).                                     *)
MaskedRight ==
    \A l \in DOMAIN masked :
        masked[l] = (leaf[l] + Derived(0, root + l) + Derived(1, root + l) + Derived(2, root + l)) % Q

(* If at most one party lied about its summand points, the point published *)
(* for a leaf is the leaf's ("each s_j*G published by its two holders and  *)
(* cross-checked", convert.rs:15).                                         *)
PointRight ==
    \A l \in DOMAIN point :
        Cardinality(point[l].liars) <= 1 => point[l].value = leaf[l] % Q

(* Once a leaf's point was published with at most one lie, nothing but the *)
(* leaf can be released for it, however many parties lie about their       *)
(* summands (release_q, convert.rs:345).                                   *)
ReleasedRight ==
    \A l \in DOMAIN released :
        Cardinality(point[l].liars) <= 1 => released[l] = leaf[l] % Q
=============================================================================
