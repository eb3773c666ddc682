--------------------------- MODULE PlannerProofs ---------------------------
(***************************************************************************)
(* The planner keeps its invariant, for every width and any number of      *)
(* aborts, retries and restores.  The first part is about which indices    *)
(* are where and which ids are used; the second about what the ids stand   *)
(* for: values hidden under an id are those of the index it is filed       *)
(* under, nothing is revealed early, and the planner implements the        *)
(* channel's promise.                                                      *)
(***************************************************************************)
EXTENDS PlannerInv, SequenceTheorems, WellFoundedInduction, TLAPS

-----------------------------------------------------------------------------
(* Indices and their bits. *)

(* The facts about powers of two the other proofs use.                     *)
LEMMA PowerFacts ==
    /\ M \in Nat
    /\ \A d \in 0..Width : Pow2[d] \in Nat \ {0}
    /\ \A d \in 1..Width : Pow2[d] = 2 * Pow2[d - 1]
    /\ Pow2[0] = 1
    /\ Width \in Nat \ {0}
<1>1. /\ \A d \in 0..Width : Pow2[d] \in Nat \ {0}
      /\ Pow2[0] = 1
      /\ Width \in Nat \ {0}
  BY WidthAssumption, Pow2Assumption
<1>2. M \in Nat
  BY <1>1 DEF M
<1>3. ASSUME NEW d \in 1..Width PROVE Pow2[d] = 2 * Pow2[d - 1]
  <2>1. 1 \in 0..Width /\ d - 1 \in 0..Width /\ 1 + (d - 1) = d
    BY <1>1
  <2>2. Pow2[1 + (d - 1)] = Pow2[1] * Pow2[d - 1]
    BY <1>1, <2>1, Pow2Assumption
  <2> QED BY <2>1, <2>2, Pow2Assumption
<1> QED BY <1>1, <1>2, <1>3

(* A quotient is determined by where the number lies among the multiples   *)
(* of the divisor.                                                         *)
LEMMA QuotientUnique ==
    ASSUME NEW P \in Nat \ {0}, NEW k \in Int, NEW n \in Int,
           k * P <= n, n < k * P + P
    PROVE  n \div P = k
<1> DEFINE d == n \div P
           r == n % P
<1>1. d \in Int /\ r \in Int /\ n = P * d + r /\ 0 <= r /\ r < P
  BY Z3
<1>2. k * P \in Int /\ P * d \in Int
  BY <1>1
<1> HIDE DEF d, r
<1>3. ASSUME k + 1 <= d PROVE FALSE
  <2>1. (k + 1) * P <= d * P
    BY <1>1, <1>3, Z3
  <2> QED BY <2>1, <1>1, Z3
<1>4. ASSUME d + 1 <= k PROVE FALSE
  <2>1. (d + 1) * P <= k * P
    BY <1>1, <1>4, Z3
  <2> QED BY <2>1, <1>1, Z3
<1>5. d = k
  BY <1>1, <1>3, <1>4
<1> QED BY <1>5 DEF d

(* The seed walk's bit test, once the higher bits are accounted for.       *)
LEMMA BitTest ==
    ASSUME NEW b \in Bits, NEW n \in Nat, NEW p \in Nat, NEW q \in Nat,
           p = q * Pow2[b + 1], p <= n, n < p + Pow2[b + 1]
    PROVE  BitSet(n, b) <=> p + Pow2[b] <= n
<1> DEFINE P == Pow2[b]
<1>1. P \in Nat \ {0} /\ Pow2[b + 1] = 2 * P
  BY PowerFacts DEF Bits
<1> HIDE DEF P
<1>2. p = (2 * q) * P /\ p + P = (2 * q + 1) * P
  BY <1>1, Z3
<1>3. CASE p + P <= n
  <2>1. n \div P = 2 * q + 1
    BY <1>1, <1>2, <1>3, QuotientUnique
  <2> QED BY <2>1, <1>3 DEF BitSet, P
<1>4. CASE n < p + P
  <2>1. n \div P = 2 * q
    BY <1>1, <1>2, <1>4, QuotientUnique
  <2> QED BY <2>1, <1>4, <1>1 DEF BitSet, P
<1> QED BY <1>1, <1>3, <1>4

(* Every non-empty set of natural numbers has a least element.             *)
LEMMA LeastNatural ==
    ASSUME NEW S \in SUBSET Nat, S # {}
    PROVE  \E x \in S : \A y \in S : x <= y
<1> DEFINE Less == {ss \in Nat \X Nat : ss[1] < ss[2]}
<1>1. IsWellFoundedOn(OpToRel(<, Nat), Nat)
  BY NatLessThanWellFounded
<1>2. Less = OpToRel(<, Nat)
  BY DEF OpToRel
<1>3. IsWellFoundedOn(Less, Nat)
  BY <1>1, <1>2
<1>4. PICK x \in S : \A y \in S : ~ (<<y, x>> \in Less)
  <2> HIDE DEF Less
  <2> QED BY <1>3, WFMin
<1>5. ASSUME NEW y \in S PROVE x <= y
  <2>1. ~ (<<y, x>> \in Less)
    BY <1>4
  <2> QED BY <2>1 DEF Less
<1> QED BY <1>5

(* A multiple of a power of two has no bit below it.                       *)
LEMMA LowBitsClear ==
    ASSUME NEW b \in 0..Width, NEW q \in Nat, NEW j \in Bits, j < b
    PROVE  ~BitSet(q * Pow2[b], j)
<1> DEFINE P == Pow2[j]
           K == Pow2[b - j - 1]
           n == q * Pow2[b]
<1>1. j \in 0..Width /\ b - j \in 1..Width /\ b - j - 1 \in 0..Width /\ (b - j) - 1 = b - j - 1
  BY PowerFacts DEF Bits
<1>2. P \in Nat \ {0} /\ K \in Nat \ {0}
  BY <1>1, PowerFacts
<1>3. Pow2[b - j] = 2 * K
  BY <1>1, PowerFacts
<1>4. Pow2[b] = P * (2 * K)
  <2>1. j + (b - j) = b
    BY <1>1
  <2>2. Pow2[j + (b - j)] = Pow2[j] * Pow2[b - j]
    BY <1>1, <2>1, Pow2Assumption
  <2> QED BY <2>1, <2>2, <1>3
<1> HIDE DEF P, K
<1>5. n = (2 * (q * K)) * P /\ q * K \in Int
  BY <1>2, <1>4, Z3
<1>6. n \in Int
  BY <1>2, <1>5, Z3
<1> DEFINE k == q * K
<1>7. k \in Int /\ n = (2 * k) * P
  BY <1>5
<1> HIDE DEF n, k
<1>8. (2 * k) * P <= n /\ n < (2 * k) * P + P /\ 2 * k \in Int
  BY <1>2, <1>6, <1>7
<1>9. n \div P = 2 * k
  BY <1>2, <1>6, <1>8, QuotientUnique
<1>10. (n \div P) % 2 = 0
  BY <1>7, <1>9
<1> QED BY <1>10 DEF BitSet, n, P

(* Adding a power of two to a multiple of twice that power sets one bit    *)
(* and leaves the others alone.                                            *)
LEMMA HighBitsKept ==
    ASSUME NEW b \in Bits, NEW q \in Nat, NEW j \in Bits, b < j
    PROVE  BitSet(q * Pow2[b + 1] + Pow2[b], j) <=> BitSet(q * Pow2[b + 1], j)
<1> DEFINE H == Pow2[b]
           K == Pow2[j - (b + 1)]
           P == Pow2[j]
           n == q * Pow2[b + 1]
           d == n \div P
<1>1. /\ b + 1 \in 1..Width /\ b \in 0..Width /\ j \in 0..Width
      /\ j - (b + 1) \in 0..Width /\ (b + 1) + (j - (b + 1)) = j
  BY PowerFacts DEF Bits
<1>2. H \in Nat \ {0} /\ K \in Nat \ {0} /\ P \in Nat \ {0}
  BY <1>1, PowerFacts
<1>3. Pow2[b + 1] = 2 * H
  <2>1. (b + 1) - 1 = b
    BY <1>1
  <2> QED BY <1>1, <2>1, PowerFacts
<1>4. P = (2 * H) * K
  <2>1. Pow2[(b + 1) + (j - (b + 1))] = Pow2[b + 1] * Pow2[j - (b + 1)]
    BY <1>1, Pow2Assumption, PowerFacts
  <2> QED BY <1>1, <1>3, <2>1
<1> HIDE DEF H, K, P
<1>5. n = q * (2 * H) /\ n \in Nat
  BY <1>2, <1>3, Z3
<1> HIDE DEF n
<1>6. d \in Int /\ d * P <= n /\ n < d * P + P
  <2>1. d \in Int /\ n = P * d + (n % P) /\ 0 <= n % P /\ n % P < P
    BY <1>2, <1>5, Z3
  <2> QED BY <2>1, <1>2, <1>5, Z3
<1> HIDE DEF d
<1>7. q < d * K + K
  <2>1. ASSUME q >= d * K + K PROVE FALSE
    <3>1. q * (2 * H) >= (d * K + K) * (2 * H)
      BY <1>2, <1>6, <2>1, Z3
    <3>2. (d * K + K) * (2 * H) = d * P + P
      BY <1>2, <1>4, <1>6, Z3
    <3> QED BY <3>1, <3>2, <1>2, <1>5, <1>6, Z3
  <2> QED BY <2>1, <1>2, <1>6, Z3
<1>8. (q + 1) * (2 * H) <= d * P + P
  <2>1. q + 1 <= d * K + K /\ d * K + K \in Int
    BY <1>2, <1>6, <1>7, Z3
  <2>2. (q + 1) * (2 * H) <= (d * K + K) * (2 * H)
    BY <1>2, <2>1, Z3
  <2>3. (d * K + K) * (2 * H) = d * P + P
    BY <1>2, <1>4, <1>6, Z3
  <2> QED BY <2>2, <2>3
<1>9. n + H < d * P + P
  <2> DEFINE top == d * P + P
  <2>1. (q + 1) * (2 * H) = n + 2 * H /\ top \in Int
    BY <1>2, <1>5, <1>6, Z3
  <2> HIDE DEF top
  <2>2. n + 2 * H <= top
    BY <1>8, <2>1 DEF top
  <2>3. n + H < top
    BY <1>2, <1>5, <2>1, <2>2
  <2> QED BY <2>3 DEF top
<1>10. (n + H) \div P = d
  <2>1. d * P <= n + H /\ n + H \in Int
    BY <1>2, <1>5, <1>6, Z3
  <2> QED BY <1>2, <1>6, <1>9, <2>1, QuotientUnique
<1>11. (n + H) \div P = n \div P
  BY <1>10 DEF d
<1> QED BY <1>11 DEF BitSet, n, H, P

(* Adding a power below the lowest set bit adds its bit.                   *)
LEMMA BitAdded ==
    ASSUME NEW b \in Bits, NEW q \in Nat
    PROVE  SetBits(q * Pow2[b + 1] + Pow2[b]) = SetBits(q * Pow2[b + 1]) \cup {b}
<1> DEFINE n == q * Pow2[b + 1]
           P == Pow2[b]
<1>1. P \in Nat \ {0} /\ Pow2[b + 1] = 2 * P /\ b + 1 \in 0..Width /\ b \in 0..Width
  <2>1. b + 1 \in 1..Width /\ b \in 0..Width /\ (b + 1) - 1 = b
    BY PowerFacts DEF Bits
  <2> QED BY <2>1, PowerFacts
<1>2. n + P = (2 * q + 1) * P /\ n + P \in Nat
  BY <1>1, Z3
<1>3. BitSet(n + P, b)
  <2>1. (n + P) \div P = 2 * q + 1
    <3> DEFINE m == n + P
               k == 2 * q + 1
    <3>1. m \in Int /\ k \in Int /\ m = k * P /\ P \in Nat \ {0}
      BY <1>1, <1>2
    <3> HIDE DEF m, k, P
    <3>2. k * P <= m /\ m < k * P + P
      BY <3>1, Z3
    <3>3. m \div P = k
      BY <3>1, <3>2, QuotientUnique
    <3> QED BY <3>3 DEF m, k
  <2>2. (2 * q + 1) % 2 = 1
    OBVIOUS
  <2> QED BY <2>1, <2>2 DEF BitSet
<1>4. ASSUME NEW j \in Bits, j # b
      PROVE  BitSet(n + P, j) <=> BitSet(n, j)
  <2>1. CASE b < j
    BY <2>1, HighBitsKept
  <2>2. CASE j < b
    <3>1. ~BitSet(n, j)
      BY <1>1, <2>2, LowBitsClear DEF Bits
    <3>2. 2 * q + 1 \in Nat
      OBVIOUS
    <3>3. ~BitSet((2 * q + 1) * Pow2[b], j)
      BY <1>1, <2>2, <3>2, LowBitsClear
    <3> QED BY <1>2, <3>1, <3>3
  <2> QED BY <1>4, <2>1, <2>2 DEF Bits
<1>5. ASSUME NEW j \in Bits
      PROVE  j \in SetBits(n + P) <=> j \in SetBits(n) \cup {b}
  BY <1>3, <1>4, <1>5 DEF SetBits
<1>6. SetBits(n + P) \subseteq Bits /\ SetBits(n) \subseteq Bits
  BY DEF SetBits
<1>7. SetBits(n + P) = SetBits(n) \cup {b}
  <2> HIDE DEF n, P
  <2> QED BY <1>5, <1>6
<1> QED BY <1>7

(* A multiple of a power has no lower bits.                                *)
LEMMA MultipleBits ==
    ASSUME NEW b \in 0..Width, NEW q \in Nat, NEW j \in SetBits(q * Pow2[b])
    PROVE  j >= b
BY LowBitsClear, PowerFacts DEF SetBits, Bits

(* Zero has no bits.                                                       *)
LEMMA ZeroBits == SetBits(0) = {}
<1>1. 0 * Pow2[Width] = 0
  BY PowerFacts
<1>2. ASSUME NEW j \in Bits PROVE ~BitSet(0, j)
  <2>1. Width \in 0..Width /\ j < Width
    BY PowerFacts DEF Bits
  <2>2. ~BitSet(0 * Pow2[Width], j)
    BY <2>1, LowBitsClear
  <2> QED BY <1>1, <2>2
<1> QED BY <1>2 DEF SetBits

(* A number whose bits are all bits of another one is not above it.        *)
LEMMA BitsOrder ==
    ASSUME NEW i \in 0..M, NEW j \in 0..M, SetBits(i) \subseteq SetBits(j)
    PROVE  i <= j
<1> SUFFICES ASSUME i > j PROVE FALSE
  BY PowerFacts
<1> DEFINE S == {k \in 0..Width : i \div Pow2[k] <= j \div Pow2[k]}
<1>0. i \in Nat /\ j \in Nat /\ M \in Nat
  BY PowerFacts
<1>1. Width \in S
  <2>1. Pow2[Width] \in Nat \ {0} /\ M + 1 = Pow2[Width] /\ Width \in 0..Width
    BY PowerFacts DEF M
  <2>2. i \div Pow2[Width] = 0 /\ j \div Pow2[Width] = 0
    BY <1>0, <2>1, QuotientUnique
  <2> QED BY <2>1, <2>2
<1>2. PICK k \in S : \A y \in S : k <= y
  <2>1. S \in SUBSET Nat /\ S # {}
    BY <1>1
  <2> HIDE DEF S
  <2> QED BY <2>1, LeastNatural
<1>3. k # 0
  <2>1. i \div 1 = i /\ j \div 1 = j
    BY <1>0
  <2> QED BY <1>2, <2>1, PowerFacts
<1> DEFINE b == k - 1
           P == Pow2[b]
<1>4. b \in Bits /\ k \in 1..Width /\ b \in 0..Width /\ b \notin S
  BY <1>2, <1>3, PowerFacts DEF Bits
<1>5. P \in Nat \ {0} /\ Pow2[k] = 2 * P
  BY <1>4, PowerFacts
<1>6. i \div P > j \div P /\ i \div P \in Int /\ j \div P \in Int
  BY <1>0, <1>4, <1>5
<1> HIDE DEF P
<1>7. ASSUME NEW n \in Nat PROVE n \div (2 * P) = (n \div P) \div 2
  <2> DEFINE d == n \div P
             e == d \div 2
  <2>1. d \in Int /\ n = P * d + (n % P) /\ 0 <= n % P /\ n % P < P
    BY <1>5, Z3
  <2>2. d * P <= n /\ n < d * P + P
    BY <1>5, <2>1, Z3
  <2> HIDE DEF d
  <2>3. e \in Int /\ (d = 2 * e \/ d = 2 * e + 1)
    BY <2>1
  <2> HIDE DEF e
  <2>4. e * (2 * P) <= n /\ n < e * (2 * P) + 2 * P
    BY <1>5, <2>2, <2>3, Z3
  <2>5. n \div (2 * P) = e
    <3>1. 2 * P \in Nat \ {0} /\ n \in Int
      BY <1>5
    <3> QED BY <2>3, <2>4, <3>1, QuotientUnique
  <2> QED BY <2>5 DEF d, e
<1>8. (i \div P) \div 2 <= (j \div P) \div 2
  BY <1>0, <1>2, <1>5, <1>7
<1>9. (i \div P) % 2 = 1 /\ (j \div P) % 2 = 0
  BY <1>6, <1>8
<1>10. b \in SetBits(i) /\ b \notin SetBits(j)
  BY <1>4, <1>9 DEF SetBits, BitSet, P
<1> QED BY <1>10

(* Values. *)

(* Hashing the value of the upper bits of an index with the next bit set   *)
(* gives the value of the index with that bit set (derive's inner step).   *)
LEMMA ValueHash ==
    ASSUME NEW b \in Bits, NEW q \in Nat, NEW p, NEW v,
           p = q * Pow2[b + 1], IsValueOf(v, p)
    PROVE  IsValueOf(Hash(v, b), p + Pow2[b])
<1> DEFINE w == Hash(v, b)
<1>1. /\ v \in Seq(Bits)
      /\ BitsOf(v) = SetBits(p)
      /\ \A i, j \in DOMAIN v : i < j => v[i] > v[j]
  BY DEF IsValueOf, GeneratesFromSeed
<1>2. /\ w \in Seq(Bits)
      /\ DOMAIN v = 1..Len(v) /\ Len(v) \in Nat
      /\ DOMAIN w = 1..(Len(v) + 1)
      /\ w[Len(v) + 1] = b
      /\ \A i \in 1..Len(v) : w[i] = v[i]
  BY <1>1 DEF Hash
<1> HIDE DEF w
<1>3. BitsOf(w) = BitsOf(v) \cup {b}
  BY <1>2 DEF BitsOf
<1>4. SetBits(p + Pow2[b]) = SetBits(p) \cup {b}
  BY BitAdded
<1>5. b + 1 \in 0..Width
  BY PowerFacts DEF Bits
<1>6. \A i \in DOMAIN v : v[i] \in SetBits(p) /\ v[i] \in Int
  BY <1>1 DEF BitsOf, SetBits, Bits
<1>7. \A i \in DOMAIN v : v[i] > b
  <2>1. \A j \in SetBits(p) : j >= b + 1
    BY <1>5, MultipleBits
  <2> QED BY <1>6, <2>1 DEF Bits
<1>8. \A i, j \in DOMAIN w : i < j => w[i] > w[j]
  BY <1>1, <1>2, <1>7
<1>9. BitsOf(w) = SetBits(p + Pow2[b])
  BY <1>1, <1>3, <1>4
<1> QED BY <1>2, <1>8, <1>9 DEF IsValueOf, GeneratesFromSeed, w

(* The seed is the value of index 0.                                       *)
LEMMA SeedValue == IsValueOf(Seed, 0)
<1>1. Seed \in Seq(Bits) /\ DOMAIN Seed = {}
  BY DEF Seed
<1>2. BitsOf(Seed) = {}
  BY <1>1 DEF BitsOf
<1> QED BY <1>1, <1>2, ZeroBits DEF IsValueOf, GeneratesFromSeed

-----------------------------------------------------------------------------
(* Stacks of frames. *)

(* Popping a non-empty stack leaves a sequence one shorter with the same   *)
(* elements below the top.                                                 *)
LEMMA PopFacts ==
    ASSUME NEW stack \in Seq(Frames), stack # << >>
    PROVE  /\ Len(stack) \in Nat \ {0}
           /\ Top(stack) \in Frames
           /\ Pop(stack) \in Seq(Frames)
           /\ Len(Pop(stack)) = Len(stack) - 1
           /\ \A i \in 1..(Len(stack) - 1) : Pop(stack)[i] = stack[i]
<1>1. Len(stack) \in Nat \ {0}
  BY EmptySeq
<1>2. Top(stack) \in Frames
  BY <1>1 DEF Top
<1>3. \A i \in 1..(Len(stack) - 1) : stack[i] \in Frames
  BY <1>1
<1>4. Len(Pop(stack)) = Len(stack) - 1
  BY <1>1 DEF Pop
<1>5. Pop(stack) \in Seq(Frames)
  BY <1>1, <1>3 DEF Pop
<1>6. \A i \in 1..(Len(stack) - 1) : Pop(stack)[i] = stack[i]
  BY <1>1 DEF Pop
<1> QED BY <1>1, <1>2, <1>4, <1>5, <1>6

(* A subtree that starts where a tiling ends extends the tiling (the left  *)
(* siblings and the last node _seed_walk collects).                        *)
LEMMA AppendTiles ==
    ASSUME NEW stack \in Seq(Frames), NEW f \in Frames,
           TilesUpTo(stack, f.prefix)
    PROVE  TilesUpTo(Append(stack, f), f.prefix + Pow2[f.depth])
<1> DEFINE longer == Append(stack, f)
<1>1. /\ longer # << >>
      /\ Len(longer) = Len(stack) + 1
      /\ Len(stack) \in Nat
      /\ longer[Len(longer)] = f
      /\ \A i \in 1..Len(stack) : longer[i] = stack[i]
  OBVIOUS
<1> HIDE DEF longer
<1>2. CASE stack = << >>
  BY <1>1, <1>2 DEF TilesUpTo, Top
<1>3. CASE stack # << >>
  <2>1. Len(stack) >= 1
    BY <1>3, EmptySeq
  <2> QED BY <1>1, <1>3, <2>1 DEF TilesUpTo, Top
<1> QED BY <1>2, <1>3 DEF longer

(* Without its top a tiling ends where the top began (prepare_plan pops    *)
(* the leaf it consumes).                                                  *)
LEMMA PopTiles ==
    ASSUME NEW stack \in Seq(Frames), stack # << >>, NEW n \in Int,
           TilesUpTo(stack, n)
    PROVE  TilesUpTo(Pop(stack), Top(stack).prefix)
<1> DEFINE shorter == Pop(stack)
<1>1. /\ Len(stack) \in Nat \ {0}
      /\ shorter \in Seq(Frames)
      /\ Len(shorter) = Len(stack) - 1
      /\ \A i \in 1..(Len(stack) - 1) : shorter[i] = stack[i]
  BY PopFacts
<1> HIDE DEF shorter
<1>2. ASSUME Len(stack) = 1 PROVE TilesUpTo(shorter, Top(stack).prefix)
  <2>1. shorter = << >>
    BY <1>1, <1>2, EmptySeq
  <2>2. Top(stack).prefix = 0
    BY <1>2 DEF TilesUpTo, Top
  <2>3. 1..(Len(shorter) - 1) = {}
    BY <1>1, <1>2
  <2> QED BY <2>1, <2>2, <2>3 DEF TilesUpTo
<1>3. ASSUME Len(stack) > 1 PROVE TilesUpTo(shorter, Top(stack).prefix)
  <2>1. stack[Len(stack) - 1].prefix + Pow2[stack[Len(stack) - 1].depth]
            = stack[Len(stack)].prefix
    BY <1>1, <1>3 DEF TilesUpTo
  <2>2. shorter # << >>
    BY <1>1, <1>3, EmptySeq
  <2>3. shorter[1] = stack[1] /\ shorter[Len(shorter)] = stack[Len(stack) - 1]
    BY <1>1, <1>3
  <2>4. ASSUME NEW i \in 1..(Len(shorter) - 1)
        PROVE  shorter[i].prefix + Pow2[shorter[i].depth] = shorter[i + 1].prefix
    BY <1>1, <1>3 DEF TilesUpTo
  <2>5. stack[1].prefix = 0
    BY DEF TilesUpTo
  <2> QED BY <2>1, <2>2, <2>3, <2>4, <2>5 DEF TilesUpTo, Top
<1> QED BY <1>1, <1>2, <1>3 DEF shorter

(* Appending a subtree inside the index space keeps a stack inside it.     *)
LEMMA AppendInRange ==
    ASSUME NEW stack \in Seq(Frames), NEW f \in Frames,
           InRange(stack), f.prefix + Pow2[f.depth] <= M + 1
    PROVE  InRange(Append(stack, f))
BY DEF InRange

(* Popping keeps a stack inside the index space.                           *)
LEMMA PopInRange ==
    ASSUME NEW stack \in Seq(Frames), stack # << >>, InRange(stack)
    PROVE  InRange(Pop(stack))
<1>1. /\ Len(stack) \in Nat \ {0}
      /\ DOMAIN stack = 1..Len(stack)
      /\ DOMAIN Pop(stack) = 1..(Len(stack) - 1)
      /\ \A i \in 1..(Len(stack) - 1) : Pop(stack)[i] = stack[i]
  BY PopFacts DEF Pop
<1> QED BY <1>1 DEF InRange

(* Splitting the top subtree leaves a stack that tiles the same range.     *)
LEMMA SplitTiles ==
    ASSUME NEW stack \in Seq(Frames), stack # << >>, NEW n \in Int,
           NEW vid \in Nat, TilesUpTo(stack, n), InRange(stack),
           Top(stack).depth > 0
    PROVE  /\ SplitTop(stack, vid) \in Seq(Frames)
           /\ SplitTop(stack, vid) # << >>
           /\ TilesUpTo(SplitTop(stack, vid), n)
           /\ InRange(SplitTop(stack, vid))
<1> DEFINE top == Top(stack)
           left == LeftHalf(top)
           right == RightHalf(top, vid)
           half == Append(Pop(stack), left)
<1>0. top \in Frames /\ Pop(stack) \in Seq(Frames)
  BY PopFacts
<1>1. /\ top.prefix \in 0..M /\ top.depth \in 1..Width /\ top.vid \in Nat
      /\ Pop(stack) \in Seq(Frames)
  <2>1. top.prefix \in 0..M /\ top.depth \in 0..Width /\ top.vid \in Nat
    BY <1>0 DEF Frames
  <2> QED BY <1>0, <2>1
<1>2. /\ top.prefix + Pow2[top.depth] = n
      /\ TilesUpTo(Pop(stack), top.prefix)
      /\ InRange(Pop(stack))
  BY PopTiles, PopInRange DEF TilesUpTo
<1>3. /\ Pow2[top.depth] = 2 * Pow2[top.depth - 1]
      /\ Pow2[top.depth - 1] \in Nat \ {0}
      /\ M \in Nat /\ Width \in Nat
  BY <1>1, PowerFacts
<1>4. n <= M + 1
  BY <1>2, PopFacts DEF InRange, Top
<1>5. /\ left.prefix = top.prefix /\ left.depth = top.depth - 1
      /\ right.prefix = top.prefix + Pow2[top.depth - 1]
      /\ right.depth = top.depth - 1
  BY DEF LeftHalf, RightHalf, Frame
<1>6. left \in Frames /\ right \in Frames
  <2>1. /\ left = [prefix |-> top.prefix, depth |-> top.depth - 1, vid |-> top.vid]
        /\ right = [prefix |-> top.prefix + Pow2[top.depth - 1],
                    depth |-> top.depth - 1, vid |-> vid]
    BY DEF LeftHalf, RightHalf, Frame
  <2> HIDE DEF top, left, right
  <2>2. top.depth - 1 \in 0..Width
    BY <1>1, <1>3
  <2>3. top.prefix + Pow2[top.depth - 1] \in 0..M
    <3> DEFINE a == top.prefix
               h == Pow2[top.depth - 1]
    <3>1. a \in Nat /\ h \in Nat \ {0} /\ a + 2 * h <= M + 1
      BY <1>1, <1>2, <1>3, <1>4
    <3> HIDE DEF a, h
    <3>2. a + h \in 0..M
      BY <3>1, <1>3
    <3> QED BY <3>2 DEF a, h
  <2> QED BY <1>1, <2>1, <2>2, <2>3 DEF Frames
<1> HIDE DEF top, left, right
<1>7. /\ half \in Seq(Frames)
      /\ TilesUpTo(half, right.prefix)
      /\ InRange(half)
  <2>1. TilesUpTo(half, left.prefix + Pow2[left.depth])
    BY <1>1, <1>2, <1>5, <1>6, AppendTiles
  <2>2. left.prefix + Pow2[left.depth] <= M + 1
    BY <1>1, <1>2, <1>3, <1>4, <1>5
  <2> QED BY <1>1, <1>2, <1>5, <1>6, <2>1, <2>2, AppendInRange
<1> HIDE DEF half
<1>8. /\ Append(half, right) \in Seq(Frames)
      /\ Append(half, right) # << >>
  BY <1>6, <1>7
<1>9. TilesUpTo(Append(half, right), n)
  <2>1. right.prefix + Pow2[right.depth] = n
    BY <1>1, <1>2, <1>3, <1>5
  <2> QED BY <1>6, <1>7, <2>1, AppendTiles
<1>10. InRange(Append(half, right))
  <2>1. right.prefix + Pow2[right.depth] <= M + 1
    BY <1>1, <1>2, <1>3, <1>4, <1>5
  <2> QED BY <1>6, <1>7, <2>1, AppendInRange
<1>11. SplitTop(stack, vid) = Append(half, right)
  BY DEF SplitTop, top, left, right, half
<1> QED BY <1>8, <1>9, <1>10, <1>11

-----------------------------------------------------------------------------
(* Ids. *)

(* The keys of an updated dictionary are those of both.                    *)
LEMMA UpdatedDomain ==
    ASSUME NEW f, NEW g
    PROVE  DOMAIN Updated(f, g) = DOMAIN f \cup DOMAIN g
BY DEF Updated

(* Setting a key adds that key and no other.                               *)
LEMMA WithDomain ==
    ASSUME NEW f, NEW k, NEW v
    PROVE  DOMAIN With(f, k, v) = {k} \cup DOMAIN f
BY DEF With

(* Minting ids for new outputs of the plan keeps every id fresh.           *)
LEMMA MintVids ==
    ASSUME NEW n \in {1, 2}, nextVid \in Nat,
           VidsMinted, FreshUnseen, PadOnce, Mint(n),
           fresh' = fresh \/ \E v : fresh' = With(fresh, nextVid, v),
           UNCHANGED <<masked, seen>>
    PROVE  VidsMinted' /\ FreshUnseen' /\ PadOnce'
<1>1. nextVid' \in Nat /\ nextVid < nextVid'
  BY DEF Mint
<1>2. DOMAIN fresh' \subseteq {nextVid} \cup DOMAIN fresh
  BY WithDomain
<1>3. VidsMinted'
  BY <1>1, <1>2 DEF VidsMinted
<1>4. FreshUnseen'
  BY <1>1, <1>2 DEF FreshUnseen, VidsMinted
<1>5. PadOnce'
  BY DEF PadOnce
<1> QED BY <1>3, <1>4, <1>5

(* When a run reveals the plan's outputs, no id shows a second value.      *)
LEMMA RevealVids ==
    ASSUME nextVid \in Nat, VidsMinted, FreshUnseen, PadOnce, Return,
           seen' \in {seen, seen \cup Revealed},
           DOMAIN masked' \subseteq DOMAIN masked \cup DOMAIN fresh,
           UNCHANGED nextVid
    PROVE  VidsMinted' /\ FreshUnseen' /\ PadOnce'
<1>1. DOMAIN fresh' = {}
  BY DEF Return, NoMap
<1>2. \A s \in Revealed : s[1] \in DOMAIN fresh /\ s[2] = fresh[s[1]]
  BY DEF Revealed
<1>3. VidsMinted'
  BY <1>1, <1>2 DEF VidsMinted
<1>4. FreshUnseen'
  BY <1>1 DEF FreshUnseen
<1>5. PadOnce'
  BY <1>2 DEF PadOnce, FreshUnseen
<1> QED BY <1>3, <1>4, <1>5

-----------------------------------------------------------------------------
(* The invariant holds initially, and each action keeps it. *)

(* The dictionaries of an action that files no leaf.                       *)
LEMMA DictsStable ==
    ASSUME DictsOK, UNCHANGED <<leaves, points, nextCommitment>>,
           rederived' = rederived \/ rederived' = NoMap
    PROVE  DictsOK'
<1>1. DOMAIN NoMap = {}
  BY DEF NoMap
<1> QED BY <1>1 DEF DictsOK

(* A new channel (new_public) satisfies the invariant.                     *)
LEMMA InitInv == Init => IInv
<1> SUFFICES ASSUME Init PROVE IInv
  OBVIOUS
<1>1. /\ frames = << >> /\ work = << >> /\ fresh = << >> /\ masked = << >>
      /\ DOMAIN fresh = {} /\ DOMAIN masked = {} /\ seen = {} /\ opened = {}
      /\ nextVid = 0 /\ nextCommitment = 0 /\ nextRelease = 0
      /\ pc = "idle" /\ kind = "none" /\ target = 0 /\ bit = 0 /\ prefix = 0
  BY DEF Init, NoMap
<1>d. DictsOK
  BY <1>1 DEF DictsOK, Init, NoMap
<1>2. TypeOK
  BY <1>1, <1>d, PowerFacts, EmptySeq DEF TypeOK
<1>3. VidsMinted /\ FreshUnseen /\ PadOnce
  BY <1>1 DEF VidsMinted, FreshUnseen, PadOnce
<1>4. InRange(frames) /\ InRange(work)
  BY <1>1 DEF InRange
<1>5. ~Opened
  BY <1>1 DEF Opened
<1>6. Control /\ WalkInv /\ WorkTiles /\ Tiling
  BY <1>1, <1>5 DEF Control, WalkInv, WorkTiles, Tiling, NoMap
<1> QED BY <1>2, <1>3, <1>4, <1>6 DEF IInv

(* The start of a seed walk: nothing of the index is covered yet.          *)
LEMMA StartWalkInv ==
    ASSUME NEW op, NEW place, NEW index \in -1..M, StartWalk(op, place, index)
    PROVE  /\ WalkInv'
           /\ bit' \in -1..(Width - 1) /\ prefix' \in 0..M /\ target' \in -1..M
<1>1. /\ bit' = Width - 1 /\ prefix' = 0 /\ target' = index
      /\ M \in Nat /\ Width \in Nat \ {0} /\ Pow2[Width] = M + 1
  BY PowerFacts DEF StartWalk, M
<1>2. bit' + 1 = Width
  BY <1>1
<1>3. prefix' = 0 * Pow2[bit' + 1]
  BY <1>1, <1>2
<1> QED BY <1>1, <1>2, <1>3 DEF WalkInv

(* Starting to plan the opening of a channel (init_plan).                  *)
LEMMA PlanInitInv == IInv /\ PlanInit => IInv'
<1> SUFFICES ASSUME IInv, PlanInit PROVE IInv'
  OBVIOUS
<1>1. /\ StartWalk("init", "walk", M)
      /\ work' = << >> /\ fresh' = NoMap
      /\ UNCHANGED <<public, nextVid, history>>
      /\ ~Opened
  BY DEF PlanInit
<1>2. /\ WalkInv'
      /\ bit' \in -1..(Width - 1) /\ prefix' = 0 /\ target' = M /\ M \in Nat
      /\ kind' = "init" /\ pc' = "walk"
  BY <1>1, PowerFacts, StartWalkInv DEF StartWalk
<1>d. DictsOK'
  BY DictsStable DEF PlanInit, IInv, TypeOK, public
<1>3. TypeOK'
  BY <1>1, <1>d, <1>2, EmptySeq DEF IInv, TypeOK, public, history
<1>4. VidsMinted' /\ FreshUnseen' /\ PadOnce'
  BY <1>1 DEF IInv, VidsMinted, FreshUnseen, PadOnce, public, history, NoMap
<1>5. InRange(frames)' /\ InRange(work)'
  BY <1>1 DEF IInv, InRange, public
<1>6. Opened' = Opened /\ nextCommitment = 0
  BY <1>1 DEF Opened, public, IInv, TypeOK
<1>7. Control' /\ Tiling'
  BY <1>1, <1>2, <1>6 DEF Control, Tiling
<1>8. WorkTiles'
  BY <1>1, <1>2, <1>6 DEF WorkTiles, TilesUpTo, IndexOf, public
<1> QED BY <1>2, <1>3, <1>4, <1>5, <1>7, <1>8 DEF IInv

(* Starting to plan a restore (restore_plan).                              *)
LEMMA PlanRestoreInv == IInv /\ PlanRestore => IInv'
<1> SUFFICES ASSUME IInv, PlanRestore PROVE IInv'
  OBVIOUS
<1>1. /\ StartWalk("restore", "walk", IndexOf(nextCommitment))
      /\ work' = << >> /\ fresh' = NoMap
      /\ UNCHANGED <<public, nextVid, history>>
      /\ Opened
  BY DEF PlanRestore
<1>2. M \in Nat /\ nextCommitment \in 0..(M + 1)
  BY PowerFacts DEF IInv, TypeOK
<1>3. IndexOf(nextCommitment) \in -1..M
  BY <1>2 DEF IndexOf
<1>4. /\ WalkInv'
      /\ bit' \in -1..(Width - 1) /\ prefix' = 0 /\ target' = IndexOf(nextCommitment)
      /\ kind' = "restore" /\ pc' = "walk"
  BY <1>1, <1>3, StartWalkInv DEF StartWalk
<1>d. DictsOK'
  BY DictsStable DEF PlanRestore, IInv, TypeOK, public
<1>5. TypeOK'
  BY <1>1, <1>d, <1>2, <1>3, <1>4, EmptySeq DEF IInv, TypeOK, public, history
<1>6. VidsMinted' /\ FreshUnseen' /\ PadOnce'
  BY <1>1 DEF IInv, VidsMinted, FreshUnseen, PadOnce, public, history, NoMap
<1>7. InRange(frames)' /\ InRange(work)'
  BY <1>1 DEF IInv, InRange, public
<1>8. Opened'
  BY <1>1 DEF Opened, public
<1>9. Control'
  BY <1>4, <1>8 DEF Control
<1>10. Tiling'
  BY <1>1 DEF Tiling, TilesUpTo, IInv, public
<1>11. WorkTiles'
  BY <1>1, <1>4 DEF WorkTiles, TilesUpTo, IndexOf, public
<1> QED BY <1>4, <1>5, <1>6, <1>7, <1>9, <1>10, <1>11 DEF IInv

(* A multiple of k by a positive number is at least k.                     *)
LEMMA ProductBound ==
    ASSUME NEW k \in Nat, NEW P \in Nat \ {0}
    PROVE  k <= k * P
BY Z3

(* Half a subtree inside the index space fits, and so does the other half. *)
LEMMA HalfFits ==
    ASSUME NEW a \in Nat, NEW h \in Nat \ {0}, a + 2 * h <= M + 1
    PROVE  a + h \in 0..M /\ a + h + h <= M + 1
BY PowerFacts

(* A set bit moves the walk's prefix up by its power; what is left of the  *)
(* index fits under the lower bits.                                        *)
LEMMA WalkRightInv == IInv /\ WalkRight => IInv'
<1> SUFFICES ASSUME IInv, WalkRight PROVE IInv'
  OBVIOUS
<1>1. /\ pc \in {"walk", "rewalk"} /\ bit \in Bits /\ BitSet(target, bit)
      /\ IF pc = "walk"
           THEN /\ work' = Append(work, Frame(prefix, bit, nextVid))
                /\ fresh' = With(fresh, nextVid, cur)
           ELSE UNCHANGED <<work, fresh>>
      /\ Mint(2)
      /\ prefix' = prefix + Pow2[bit] /\ bit' = bit - 1
      /\ UNCHANGED <<public, pc, kind, target, history>>
  BY DEF WalkRight, IInv, TypeOK, Bits
<1>2. /\ M \in Nat /\ Width \in Nat /\ prefix \in 0..M /\ target \in -1..M
      /\ nextVid \in Nat /\ work \in Seq(Frames) /\ bit \in 0..(Width - 1)
      /\ WalkInv
  BY <1>1, PowerFacts DEF IInv, TypeOK, Bits
<1>3. /\ Pow2[bit] \in Nat \ {0} /\ Pow2[bit + 1] = 2 * Pow2[bit]
      /\ bit + 1 \in 1..Width /\ (bit + 1) - 1 = bit
  BY <1>1, <1>2, PowerFacts DEF Bits
<1>4. prefix + 2 * Pow2[bit] <= M + 1
  BY <1>1, <1>3 DEF WalkInv, IInv
<1>5. prefix' \in 0..M /\ prefix' + Pow2[bit' + 1] <= M + 1
  <2>1. bit' + 1 = bit
    BY <1>1, <1>2
  <2>2. prefix + Pow2[bit] \in 0..M /\ prefix + Pow2[bit] + Pow2[bit] <= M + 1
    BY <1>2, <1>3, <1>4, HalfFits
  <2> QED BY <1>1, <2>1, <2>2
<1>6. ASSUME target >= 0
      PROVE  /\ prefix' <= target
             /\ target < prefix' + Pow2[bit' + 1]
             /\ \E q \in 0..M : prefix' = q * Pow2[bit' + 1]
  <2>1. PICK q \in 0..M : prefix = q * Pow2[bit + 1]
    BY <1>1, <1>2, <1>6 DEF WalkInv
  <2>2. prefix <= target /\ target < prefix + Pow2[bit + 1]
    BY <1>1, <1>2, <1>6 DEF WalkInv
  <2>3. prefix + Pow2[bit] <= target
    BY <1>1, <1>2, <1>6, <2>1, <2>2, BitTest
  <2>4. prefix' = (2 * q + 1) * Pow2[bit' + 1]
    <3> DEFINE P == Pow2[bit]
    <3>1. P \in Nat /\ prefix = q * (2 * P) /\ bit' + 1 = bit
      BY <1>1, <1>2, <1>3, <2>1
    <3> HIDE DEF P
    <3>2. prefix + P = (2 * q + 1) * P
      BY <3>1, <2>1, Z3
    <3> QED BY <1>1, <3>1, <3>2 DEF P
  <2>5. 2 * q + 1 \in 0..M
    <3>1. bit' + 1 = bit /\ 2 * q + 1 \in Nat
      BY <1>1, <1>2
    <3>2. 2 * q + 1 <= (2 * q + 1) * Pow2[bit]
      BY <1>3, <3>1, ProductBound
    <3> QED BY <1>2, <1>5, <2>4, <3>1, <3>2
  <2> QED BY <1>1, <1>2, <1>3, <2>2, <2>3, <2>4, <2>5
<1>7. WalkInv'
  BY <1>1, <1>5, <1>6 DEF WalkInv
<1>8. Frame(prefix, bit, nextVid) \in Frames
  BY <1>2 DEF Frame, Frames
<1>9. /\ Frame(prefix, bit, nextVid).prefix = prefix
      /\ Frame(prefix, bit, nextVid).depth = bit
  BY DEF Frame
<1>10. work' \in Seq(Frames)
  <2>1. Append(work, Frame(prefix, bit, nextVid)) \in Seq(Frames)
    BY <1>2, <1>8
  <2> QED BY <1>1, <1>2, <2>1
<1>d. DictsOK'
  BY DictsStable DEF WalkRight, IInv, TypeOK, public
<1>11. TypeOK'
  BY <1>1, <1>d, <1>2, <1>5, <1>10 DEF IInv, TypeOK, Mint, public, history, Bits
<1>12. VidsMinted' /\ FreshUnseen' /\ PadOnce'
  BY <1>1, <1>2, MintVids DEF IInv, public, history
<1>13. InRange(frames)' /\ InRange(work)'
  <2>1. prefix + Pow2[bit] <= M + 1
    BY <1>2, <1>3, <1>4
  <2>2. InRange(work) /\ InRange(frames)
    BY DEF IInv
  <2>3. InRange(Append(work, Frame(prefix, bit, nextVid)))
    BY <1>2, <1>8, <1>9, <2>1, <2>2, AppendInRange
  <2> QED BY <1>1, <2>2, <2>3 DEF InRange, public
<1>14. Opened' = Opened
  BY <1>1 DEF Opened, public
<1>15. Control' /\ Tiling'
  BY <1>1, <1>14 DEF IInv, Control, Tiling, TilesUpTo, public
<1>16. WorkTiles'
  <2>1. CASE pc = "walk"
    <3>1. TilesUpTo(work, prefix) /\ target = IndexOf(nextCommitment)
      BY <2>1 DEF IInv, WorkTiles
    <3>2. TilesUpTo(work', prefix')
      BY <1>1, <1>2, <1>8, <1>9, <2>1, <3>1, AppendTiles
    <3>3. kind' # "prepare" /\ pc' = "walk"
      BY <1>1, <2>1 DEF IInv, Control
    <3> QED BY <1>1, <3>1, <3>2, <3>3 DEF WorkTiles, TilesUpTo, IndexOf, public
  <2>2. CASE pc = "rewalk"
    <3>1. kind' # "prepare" /\ pc' = "rewalk" /\ work' = work
      BY <1>1, <2>2 DEF IInv, Control
    <3> QED BY <1>1, <2>2, <3>1 DEF IInv, WorkTiles, TilesUpTo, public
  <2> QED BY <1>1, <2>1, <2>2
<1> QED BY <1>7, <1>11, <1>12, <1>13, <1>15, <1>16 DEF IInv

(* A clear bit of the index: the walk goes on with the lower bits.         *)
LEMMA WalkPastInv == IInv /\ WalkPast => IInv'
<1> SUFFICES ASSUME IInv, WalkPast PROVE IInv'
  OBVIOUS
<1>1. /\ pc \in {"walk", "rewalk"} /\ bit \in Bits /\ ~BitSet(target, bit)
      /\ bit' = bit - 1
      /\ UNCHANGED <<public, nextVid, pc, kind, target, prefix, work, fresh, history>>
  BY DEF WalkPast, IInv, TypeOK, Bits
<1>2. /\ M \in Nat /\ Width \in Nat /\ prefix \in 0..M /\ target \in -1..M
      /\ bit \in 0..(Width - 1) /\ WalkInv
  BY <1>1, PowerFacts DEF IInv, TypeOK, Bits
<1>3. /\ Pow2[bit] \in Nat \ {0} /\ Pow2[bit + 1] = 2 * Pow2[bit]
      /\ bit' + 1 = bit
  BY <1>1, <1>2, PowerFacts DEF Bits
<1>4. prefix' + Pow2[bit' + 1] <= M + 1
  BY <1>1, <1>2, <1>3 DEF WalkInv
<1>5. ASSUME target >= 0
      PROVE  /\ prefix <= target
             /\ target < prefix + Pow2[bit]
             /\ \E q \in 0..M : prefix = q * Pow2[bit]
  <2>1. PICK q \in 0..M : prefix = q * Pow2[bit + 1]
    BY <1>1, <1>2, <1>5 DEF WalkInv
  <2>2. prefix <= target /\ target < prefix + Pow2[bit + 1]
    BY <1>1, <1>2, <1>5 DEF WalkInv
  <2>3. ~(prefix + Pow2[bit] <= target)
    BY <1>1, <1>2, <1>5, <2>1, <2>2, BitTest
  <2>4. prefix = (2 * q) * Pow2[bit]
    BY <1>3, <2>1, Z3
  <2>5. 2 * q \in 0..M
    <3>1. 2 * q \in Nat
      BY <1>2
    <3>2. 2 * q <= (2 * q) * Pow2[bit]
      BY <1>3, <3>1, ProductBound
    <3> QED BY <1>2, <2>4, <3>1, <3>2
  <2> QED BY <1>2, <1>3, <2>2, <2>3, <2>4, <2>5
<1>6. WalkInv'
  BY <1>1, <1>3, <1>4, <1>5 DEF WalkInv
<1>d. DictsOK'
  BY DictsStable DEF WalkPast, IInv, TypeOK, public
<1>7. TypeOK'
  BY <1>1, <1>d, <1>2 DEF IInv, TypeOK, public, history
<1>8. VidsMinted' /\ FreshUnseen' /\ PadOnce'
  BY <1>1 DEF IInv, VidsMinted, FreshUnseen, PadOnce, public, history
<1>9. InRange(frames)' /\ InRange(work)'
  BY <1>1 DEF IInv, InRange, public
<1>10. Opened' = Opened
  BY <1>1 DEF Opened, public
<1>11. Control' /\ Tiling' /\ WorkTiles'
  BY <1>1, <1>10 DEF IInv, Control, Tiling, WorkTiles, TilesUpTo, IndexOf, public
<1> QED BY <1>6, <1>7, <1>8, <1>9, <1>11 DEF IInv

(* Where the walk goes when it is done: on to a pending leaf or to the run.*)
LEMMA RederiveInv ==
    ASSUME NEW c \in Nat, IInv, pc \in {"walk", "rewalk"}, Rederive(c),
           UNCHANGED public
    PROVE  /\ pc' \in {"rewalk", "run"} /\ kind' = kind
           /\ WalkInv' /\ Control'
           /\ bit' \in -1..(Width - 1) /\ prefix' \in 0..M /\ target' \in -1..M
<1>1. /\ kind \in {"init", "restore"}
      /\ kind = "init" => ~Opened
      /\ kind = "restore" => Opened
      /\ Opened' = Opened
      /\ nextCommitment \in 0..(M + 1) /\ M \in Nat
  BY PowerFacts DEF IInv, Control, TypeOK, Opened, public
<1>2. CASE kind = "restore" /\ c < nextCommitment
  <2>1. StartWalk(kind, "rewalk", IndexOf(c))
    BY <1>2 DEF Rederive
  <2>2. IndexOf(c) \in 0..M /\ IndexOf(c) > IndexOf(nextCommitment)
    BY <1>1, <1>2 DEF IndexOf
  <2>3. /\ kind' = "restore" /\ pc' = "rewalk" /\ target' \in 0..M
        /\ target' > IndexOf(nextCommitment)'
    BY <1>2, <2>1, <2>2 DEF StartWalk, IndexOf, public
  <2>4. /\ WalkInv'
        /\ bit' \in -1..(Width - 1) /\ prefix' \in 0..M /\ target' \in -1..M
    <3>1. IndexOf(c) \in -1..M
      BY <1>1, <2>2
    <3> QED BY <2>1, <3>1, StartWalkInv
  <2> QED BY <1>1, <1>2, <2>3, <2>4 DEF Control
<1>3. CASE ~(kind = "restore" /\ c < nextCommitment)
  <2>1. pc' = "run" /\ UNCHANGED <<kind, target, bit, prefix>>
    BY <1>3 DEF Rederive
  <2> QED BY <1>1, <2>1 DEF IInv, TypeOK, Control, WalkInv
<1> QED BY <1>2, <1>3

(* The end of a frontier walk: the collected subtrees and the node itself  *)
(* tile everything up to the index.                                        *)
LEMMA WalkDoneInv == IInv /\ WalkDone => IInv'
<1> SUFFICES ASSUME IInv, WalkDone PROVE IInv'
  OBVIOUS
<1> DEFINE leaf == Frame(prefix, 0, nextVid)
<1>1. /\ pc = "walk" /\ prefix = target
      /\ work' = Append(work, leaf)
      /\ fresh' = With(fresh, nextVid, cur)
      /\ Mint(1) /\ Rederive(nextRelease)
      /\ UNCHANGED <<public, history>>
  BY DEF WalkDone
<1>2. /\ M \in Nat /\ Width \in Nat /\ prefix \in 0..M /\ nextVid \in Nat
      /\ nextRelease \in Nat /\ nextCommitment \in 0..(M + 1)
      /\ work \in Seq(Frames) /\ frames \in Seq(Frames) /\ Pow2[0] = 1
  BY PowerFacts DEF IInv, TypeOK
<1>3. /\ pc' \in {"rewalk", "run"} /\ kind' = kind
      /\ WalkInv' /\ Control'
      /\ bit' \in -1..(Width - 1) /\ prefix' \in 0..M /\ target' \in -1..M
  BY <1>1, <1>2, RederiveInv
<1>4. /\ leaf \in Frames /\ leaf.prefix = prefix /\ leaf.depth = 0
  BY <1>2 DEF Frame, Frames
<1> HIDE DEF leaf
<1>5. /\ kind \in {"init", "restore"} /\ target = IndexOf(nextCommitment)
      /\ TilesUpTo(work, prefix) /\ InRange(work) /\ InRange(frames)
  BY <1>1 DEF IInv, Control, WorkTiles
<1>6. Append(work, leaf) \in Seq(Frames)
  BY <1>2, <1>4
<1>d. DictsOK'
  BY DictsStable DEF WalkDone, IInv, TypeOK, public
<1>7. TypeOK'
  <2>1. nextVid' \in Nat
    BY <1>1, <1>2 DEF Mint
  <2>2. kind' \in {"none", "init", "restore", "prepare"}
    BY <1>3, <1>5
  <2> QED BY <1>1, <1>d, <1>3, <1>6, <2>1, <2>2 DEF IInv, TypeOK, public, history
<1>8. VidsMinted' /\ FreshUnseen' /\ PadOnce'
  BY <1>1, <1>2, MintVids DEF IInv, public, history
<1>9. InRange(frames)' /\ InRange(work)'
  <2>1. leaf.prefix + Pow2[leaf.depth] <= M + 1
    BY <1>2, <1>4
  <2>2. InRange(Append(work, leaf))
    BY <1>2, <1>4, <1>5, <2>1, AppendInRange
  <2> QED BY <1>1, <1>5, <2>2 DEF InRange, public
<1>10. TilesUpTo(work', M + 1 - nextCommitment)
  <2>1. TilesUpTo(Append(work, leaf), leaf.prefix + Pow2[leaf.depth])
    BY <1>2, <1>4, <1>5, AppendTiles
  <2>2. leaf.prefix + Pow2[leaf.depth] = M + 1 - nextCommitment
    BY <1>1, <1>2, <1>4, <1>5 DEF IndexOf
  <2> QED BY <1>1, <2>1, <2>2
<1>11. WorkTiles'
  <2>1. nextCommitment' = nextCommitment /\ kind' # "prepare" /\ pc' # "walk"
    BY <1>1, <1>3, <1>5 DEF public
  <2> QED BY <1>10, <2>1 DEF WorkTiles, TilesUpTo
<1>12. Tiling'
  BY <1>1 DEF IInv, Tiling, TilesUpTo, Opened, public
<1> QED BY <1>3, <1>7, <1>8, <1>9, <1>11, <1>12 DEF IInv

(* The end of the walk that re-derives a pending leaf.                     *)
LEMMA RewalkDoneInv == IInv /\ RewalkDone => IInv'
<1> SUFFICES ASSUME IInv, RewalkDone PROVE IInv'
  OBVIOUS
<1>1. /\ pc = "rewalk" /\ Mint(1)
      /\ fresh' = With(fresh, nextVid, cur)
      /\ Rederive(M - target + 1)
      /\ UNCHANGED <<public, work, history>>
  BY DEF RewalkDone, Refiled
<1>2. /\ M \in Nat /\ target \in 0..M /\ nextVid \in Nat /\ kind = "restore"
  BY <1>1, PowerFacts DEF IInv, TypeOK, Control
<1>3. /\ pc' \in {"rewalk", "run"} /\ kind' = kind
      /\ WalkInv' /\ Control'
      /\ bit' \in -1..(Width - 1) /\ prefix' \in 0..M /\ target' \in -1..M
  <2>1. M - target + 1 \in Nat
    BY <1>2
  <2> QED BY <1>1, <2>1, RederiveInv
<1>d. DictsOK'
  <2>1. M - target \in 0..(nextCommitment - 1)
    BY <1>1, <1>2, PowerFacts DEF IInv, Control, TypeOK, IndexOf
  <2>2. /\ rederived' = With(rederived, M - target, nextVid)
        /\ UNCHANGED <<leaves, points, nextCommitment>>
    BY DEF RewalkDone, Refiled, public
  <2>3. DictsOK
    BY DEF IInv, TypeOK
  <2> QED BY <1>2, <2>1, <2>2, <2>3 DEF DictsOK, With
<1>4. TypeOK'
  <2>1. nextVid' \in Nat
    BY <1>1, <1>2 DEF Mint
  <2> QED BY <1>1, <1>d, <1>2, <1>3, <2>1 DEF IInv, TypeOK, public, history
<1>5. VidsMinted' /\ FreshUnseen' /\ PadOnce'
  BY <1>1, <1>2, MintVids DEF IInv, public, history
<1>6. InRange(frames)' /\ InRange(work)'
  BY <1>1 DEF IInv, InRange, public
<1>7. WorkTiles'
  BY <1>1, <1>2, <1>3 DEF IInv, WorkTiles, TilesUpTo, public
<1>8. Tiling'
  BY <1>1 DEF IInv, Tiling, TilesUpTo, Opened, public
<1> QED BY <1>3, <1>4, <1>5, <1>6, <1>7, <1>8 DEF IInv

(* Starting to plan a prepare (prepare_plan).                              *)
LEMMA PlanPrepareInv == IInv /\ PlanPrepare => IInv'
<1> SUFFICES ASSUME IInv, PlanPrepare PROVE IInv'
  OBVIOUS
<1>1. /\ frames # << >> /\ kind' = "prepare" /\ pc' = "descend"
      /\ target' = IndexOf(nextCommitment)
      /\ work' = frames /\ fresh' = NoMap
      /\ UNCHANGED <<public, nextVid, bit, prefix, history>>
  BY DEF PlanPrepare
<1>2. M \in Nat /\ nextCommitment \in 0..(M + 1) /\ frames \in Seq(Frames)
  BY PowerFacts DEF IInv, TypeOK
<1>3. IndexOf(nextCommitment) \in -1..M
  BY <1>2 DEF IndexOf
<1>d. DictsOK'
  BY DictsStable DEF PlanPrepare, IInv, TypeOK, public
<1>4. TypeOK'
  BY <1>1, <1>d, <1>2, <1>3 DEF IInv, TypeOK, public, history
<1>5. VidsMinted' /\ FreshUnseen' /\ PadOnce'
  BY <1>1 DEF IInv, VidsMinted, FreshUnseen, PadOnce, public, history, NoMap
<1>6. InRange(frames)' /\ InRange(work)'
  BY <1>1 DEF IInv, InRange, public
<1>7. Opened /\ Opened'
  BY <1>1 DEF Opened, public
<1>8. Control' /\ WalkInv'
  BY <1>1, <1>7 DEF Control, WalkInv
<1>9. Tiling'
  BY <1>1 DEF IInv, Tiling, TilesUpTo, Opened, public
<1>10. WorkTiles'
  BY <1>1, <1>7 DEF IInv, Tiling, WorkTiles, TilesUpTo, IndexOf, public
<1> QED BY <1>4, <1>5, <1>6, <1>8, <1>9, <1>10 DEF IInv

(* One split of the top subtree in prepare_plan.                           *)
LEMMA DescendInv == IInv /\ Descend => IInv'
<1> SUFFICES ASSUME IInv, Descend PROVE IInv'
  OBVIOUS
<1>1. /\ pc = "descend" /\ Top(work).depth > 0
      /\ work' = SplitTop(work, nextVid)
      /\ fresh' = With(fresh, nextVid, Hash(ValueOf(Top(work).vid), Top(work).depth - 1))
      /\ Mint(1)
      /\ UNCHANGED <<public, pc, kind, target, bit, prefix, history>>
  BY DEF Descend, RightValue
<1>2. /\ kind = "prepare" /\ target = IndexOf(nextCommitment)
      /\ work # << >> /\ TilesUpTo(work, M + 1 - nextCommitment) /\ InRange(work)
  BY <1>1 DEF IInv, Control, WorkTiles
<1>3. /\ M \in Nat /\ nextCommitment \in 0..(M + 1) /\ nextVid \in Nat
      /\ work \in Seq(Frames)
  BY PowerFacts DEF IInv, TypeOK
<1>4. /\ work' \in Seq(Frames) /\ work' # << >>
      /\ TilesUpTo(work', M + 1 - nextCommitment)
      /\ InRange(work')
  <2>1. M + 1 - nextCommitment \in Int
    BY <1>3
  <2> QED BY <1>1, <1>2, <1>3, <2>1, SplitTiles
<1>d. DictsOK'
  BY DictsStable DEF Descend, IInv, TypeOK, public
<1>5. TypeOK'
  <2>1. nextVid' \in Nat
    BY <1>1, <1>3 DEF Mint
  <2> QED BY <1>1, <1>d, <1>4, <2>1 DEF IInv, TypeOK, public, history
<1>6. VidsMinted' /\ FreshUnseen' /\ PadOnce'
  BY <1>1, <1>3, MintVids DEF IInv, public, history
<1>7. InRange(frames)' /\ InRange(work)'
  BY <1>1, <1>4 DEF IInv, InRange, public
<1>8. Control' /\ WalkInv'
  BY <1>1, <1>2, <1>4 DEF IInv, Control, WalkInv, Opened, public
<1>9. Tiling'
  BY <1>1 DEF IInv, Tiling, TilesUpTo, Opened, public
<1>10. WorkTiles'
  BY <1>1, <1>2, <1>4 DEF WorkTiles, TilesUpTo, IndexOf, public
<1> QED BY <1>5, <1>6, <1>7, <1>8, <1>9, <1>10 DEF IInv

(* The assertion leaf_pfx == index of prepare_plan cannot fail: a leaf on  *)
(* top of a stack that tiles the unused indices is the highest of them.    *)
LEMMA LeafIsNext ==
    ASSUME IInv, kind = "prepare", Top(work).depth = 0
    PROVE  Top(work).prefix = IndexOf(nextCommitment)
<1>1. /\ work # << >> /\ TilesUpTo(work, M + 1 - nextCommitment)
      /\ work \in Seq(Frames) /\ nextCommitment \in Nat
  BY DEF IInv, WorkTiles, TypeOK
<1>2. Top(work) \in Frames
  BY <1>1, PopFacts
<1>3. Top(work).prefix + Pow2[0] = M + 1 - nextCommitment
  BY <1>1 DEF TilesUpTo
<1>4. Pow2[0] = 1 /\ M \in Nat
  BY PowerFacts
<1>5. Top(work).prefix \in Nat
  BY <1>2, <1>4 DEF Frames
<1> QED BY <1>1, <1>3, <1>4, <1>5 DEF IndexOf

(* The descent has reached the leaf.                                       *)
LEMMA DescendDoneInv == IInv /\ DescendDone => IInv'
<1> SUFFICES ASSUME IInv, DescendDone PROVE IInv'
  OBVIOUS
<1>1. /\ pc = "descend" /\ pc' = "run" /\ Top(work).depth = 0
      /\ UNCHANGED <<public, nextVid, kind, target, bit, prefix, work, fresh, history>>
  BY DEF DescendDone, walk
<1>2. kind = "prepare"
  BY <1>1 DEF IInv, Control
<1>d. DictsOK'
  BY DictsStable DEF DescendDone, walk, IInv, TypeOK, public
<1>3. TypeOK'
  BY <1>1, <1>d DEF IInv, TypeOK, public, history
<1>4. VidsMinted' /\ FreshUnseen' /\ PadOnce'
  BY <1>1 DEF IInv, VidsMinted, FreshUnseen, PadOnce, public, history
<1>5. InRange(frames)' /\ InRange(work)'
  BY <1>1 DEF IInv, InRange, public
<1>6. Control' /\ WalkInv' /\ Tiling'
  BY <1>1, <1>2 DEF IInv, Control, WalkInv, Tiling, TilesUpTo, Opened, public
<1>7. WorkTiles'
  BY <1>1, <1>2 DEF IInv, WorkTiles, TilesUpTo, Top, IndexOf, public
<1> QED BY <1>3, <1>4, <1>5, <1>6, <1>7 DEF IInv

(* What every operation leaves behind when it returns or raises.           *)
LEMMA ReturnInv ==
    ASSUME IInv, Return
    PROVE  /\ pc' = "idle" /\ kind' = "none" /\ work' = << >> /\ fresh' = NoMap
           /\ work' \in Seq(Frames) /\ InRange(work)'
           /\ target' \in -1..M /\ bit' \in -1..(Width - 1) /\ prefix' \in 0..M
           /\ Control' /\ WalkInv' /\ WorkTiles'
<1>1. /\ pc' = "idle" /\ kind' = "none" /\ work' = << >> /\ fresh' = NoMap
      /\ target' = 0 /\ bit' = 0 /\ prefix' = 0
  BY DEF Return
<1>2. M \in Nat /\ Width \in Nat \ {0}
  BY PowerFacts
<1>3. Control' /\ WalkInv' /\ WorkTiles'
  BY <1>1 DEF Control, WalkInv, WorkTiles
<1> QED BY <1>1, <1>2, <1>3, EmptySeq DEF InRange

(* An exception while a plan is built leaves the public state alone.       *)
LEMMA PlanFailsInv == IInv /\ PlanFails => IInv'
<1> SUFFICES ASSUME IInv, PlanFails PROVE IInv'
  OBVIOUS
<1>1. Return /\ UNCHANGED <<public, nextVid, history>>
  BY DEF PlanFails
<1>d. DictsOK'
  BY DictsStable DEF PlanFails, Return, IInv, TypeOK, public
<1>2. TypeOK'
  BY <1>1, <1>d, ReturnInv DEF IInv, TypeOK, public, history
<1>3. VidsMinted' /\ FreshUnseen' /\ PadOnce'
  BY <1>1, ReturnInv DEF IInv, VidsMinted, FreshUnseen, PadOnce, public, history, NoMap
<1>4. InRange(frames)'
  BY <1>1 DEF IInv, InRange, public
<1>5. Tiling'
  BY <1>1 DEF IInv, Tiling, TilesUpTo, Opened, public
<1> QED BY <1>1, <1>2, <1>3, <1>4, <1>5, ReturnInv DEF IInv

(* An aborted run leaves the public state alone, also when its outputs had *)
(* been revealed.                                                          *)
LEMMA RunFailsInv == IInv /\ RunFails => IInv'
<1> SUFFICES ASSUME IInv, RunFails PROVE IInv'
  OBVIOUS
<1>1. /\ Return /\ seen' \in {seen, seen \cup Revealed}
      /\ UNCHANGED <<public, nextVid, opened>>
  BY DEF RunFails, IdsAfterFailure
<1>2. nextVid \in Nat
  BY DEF IInv, TypeOK
<1>d. DictsOK'
  BY DictsStable DEF RunFails, IdsAfterFailure, Return, IInv, TypeOK, public
<1>3. TypeOK'
  BY <1>1, <1>d, ReturnInv DEF IInv, TypeOK, public
<1>4. VidsMinted' /\ FreshUnseen' /\ PadOnce'
  BY <1>1, <1>2, RevealVids DEF IInv, public
<1>5. InRange(frames)'
  BY <1>1 DEF IInv, InRange, public
<1>6. Tiling'
  BY <1>1 DEF IInv, Tiling, TilesUpTo, Opened, public
<1> QED BY <1>1, <1>3, <1>4, <1>5, <1>6, ReturnInv DEF IInv

(* Committing the opening of the channel.                                  *)
LEMMA CommitInitInv == IInv /\ CommitInit => IInv'
<1> SUFFICES ASSUME IInv, CommitInit PROVE IInv'
  OBVIOUS
<1>1. /\ Return /\ pc = "run" /\ kind = "init"
      /\ masked' = Updated(masked, fresh) /\ frames' = frames \o work
      /\ seen' = seen \cup Revealed
      /\ UNCHANGED <<nextCommitment, nextRelease, nextVid, opened>>
  BY DEF CommitInit
<1>2. /\ nextVid \in Nat /\ work \in Seq(Frames) /\ InRange(work)
      /\ frames = << >> /\ TilesUpTo(work, M + 1 - nextCommitment)
  BY <1>1 DEF IInv, TypeOK, Control, WorkTiles, Opened
<1>3. frames' = work
  BY <1>1, <1>2, ConcatEmptySeq
<1>d. DictsOK'
  BY DictsStable DEF CommitInit, Return, IInv, TypeOK, public
<1>4. TypeOK'
  BY <1>1, <1>d, <1>2, <1>3, ReturnInv DEF IInv, TypeOK
<1>5. VidsMinted' /\ FreshUnseen' /\ PadOnce'
  <2>1. DOMAIN masked' \subseteq DOMAIN masked \cup DOMAIN fresh
    BY <1>1, UpdatedDomain
  <2> QED BY <1>1, <1>2, <2>1, RevealVids DEF IInv
<1>6. InRange(frames)' /\ Tiling'
  BY <1>1, <1>2, <1>3 DEF InRange, Tiling, TilesUpTo
<1> QED BY <1>1, <1>4, <1>5, <1>6, ReturnInv DEF IInv

(* Committing a restore, with enough registers or with too few.            *)
LEMMA CommitRestoreInv == IInv /\ (CommitRestore \/ CommitRestoreShort) => IInv'
<1> SUFFICES ASSUME IInv, CommitRestore \/ CommitRestoreShort PROVE IInv'
  OBVIOUS
<1>1. /\ Return /\ pc = "run" /\ kind = "restore"
      /\ masked' = fresh \/ masked' = NoMap
      /\ frames' = work
      /\ seen' = seen \cup Revealed
      /\ UNCHANGED <<nextCommitment, nextRelease, nextVid, opened>>
  BY DEF CommitRestore, LeavesRestored, CommitRestoreShort
<1>2. /\ nextVid \in Nat /\ work \in Seq(Frames) /\ InRange(work)
      /\ TilesUpTo(work, M + 1 - nextCommitment)
  BY <1>1 DEF IInv, TypeOK, WorkTiles
<1>d. DictsOK'
  <2>1. CASE CommitRestoreShort
    BY <2>1, DictsStable DEF CommitRestoreShort, Return, IInv, TypeOK
  <2>2. CASE CommitRestore
    <3>1. /\ leaves' = Updated(leaves, rederived) /\ rederived' = NoMap
          /\ UNCHANGED <<points, nextCommitment>>
      BY <2>2 DEF CommitRestore, LeavesRestored, Return
    <3>2. DictsOK
      BY DEF IInv, TypeOK
    <3>3. Updated(leaves, rederived) \in [0..(nextCommitment - 1) -> Nat]
      BY <3>2 DEF DictsOK, Updated
    <3> QED BY <3>1, <3>2, <3>3 DEF DictsOK, NoMap
  <2> QED BY <2>1, <2>2
<1>3. TypeOK'
  BY <1>1, <1>d, <1>2, ReturnInv DEF IInv, TypeOK
<1>4. VidsMinted' /\ FreshUnseen' /\ PadOnce'
  <2>1. DOMAIN masked' \subseteq DOMAIN masked \cup DOMAIN fresh
    BY <1>1 DEF NoMap
  <2> QED BY <1>1, <1>2, <2>1, RevealVids DEF IInv
<1>5. InRange(frames)' /\ Tiling'
  BY <1>1, <1>2 DEF InRange, Tiling, TilesUpTo
<1> QED BY <1>1, <1>3, <1>4, <1>5, ReturnInv DEF IInv

(* A prepare removes the highest unused index and nothing else.            *)
LEMMA CommitPrepareInv == IInv /\ CommitPrepare => IInv'
<1> SUFFICES ASSUME IInv, CommitPrepare PROVE IInv'
  OBVIOUS
<1>1. /\ Return /\ pc = "run" /\ kind = "prepare"
      /\ masked' = Updated(masked, fresh) /\ frames' = Pop(work)
      /\ nextCommitment' = nextCommitment + 1
      /\ seen' = seen \cup Revealed
      /\ UNCHANGED <<nextRelease, nextVid, opened>>
  BY DEF CommitPrepare
<1>2. /\ nextVid \in Nat /\ work \in Seq(Frames) /\ InRange(work)
      /\ work # << >> /\ TilesUpTo(work, M + 1 - nextCommitment)
      /\ Top(work).depth = 0
      /\ nextCommitment \in 0..(M + 1) /\ nextRelease \in 0..nextCommitment
      /\ M \in Nat
  BY <1>1, PowerFacts DEF IInv, TypeOK, WorkTiles
<1>3. /\ Top(work).prefix = M - nextCommitment
      /\ Top(work) \in Frames /\ Pop(work) \in Seq(Frames)
  BY <1>1, <1>2, LeafIsNext, PopFacts DEF IndexOf
<1>4. nextCommitment' \in 0..(M + 1) /\ nextRelease' \in 0..nextCommitment'
  <2>1. Top(work).prefix \in Nat
    BY <1>2, <1>3 DEF Frames
  <2> QED BY <1>1, <1>2, <1>3, <2>1
<1>d. DictsOK'
  <2>1. Top(work).vid \in Nat
    BY <1>3 DEF Frames
  <2>2. /\ leaves' = With(leaves, nextCommitment, Top(work).vid)
        /\ points' = With(points, nextCommitment, ValueOf(Top(work).vid))
        /\ rederived' = NoMap
    BY DEF CommitPrepare, Return
  <2>3. DictsOK
    BY DEF IInv, TypeOK
  <2>4. 0..(nextCommitment' - 1) = (0..(nextCommitment - 1)) \cup {nextCommitment}
    BY <1>1, <1>2
  <2>5. leaves' \in [0..(nextCommitment' - 1) -> Nat]
    BY <2>1, <2>2, <2>3, <2>4 DEF DictsOK, With
  <2>6. DOMAIN points' = 0..(nextCommitment' - 1)
    <3>1. DOMAIN points' = {nextCommitment} \cup DOMAIN points
      BY <2>2, WithDomain
    <3> QED BY <2>3, <2>4, <3>1 DEF DictsOK
  <2> QED BY <2>2, <2>5, <2>6 DEF DictsOK, NoMap
<1>5. TypeOK'
  BY <1>1, <1>d, <1>3, <1>4, ReturnInv DEF IInv, TypeOK
<1>6. VidsMinted' /\ FreshUnseen' /\ PadOnce'
  <2>1. DOMAIN masked' \subseteq DOMAIN masked \cup DOMAIN fresh
    BY <1>1, UpdatedDomain
  <2> QED BY <1>1, <1>2, <2>1, RevealVids DEF IInv
<1>7. InRange(frames)'
  <2>1. InRange(Pop(work))
    BY <1>2, PopInRange
  <2> QED BY <1>1, <2>1 DEF InRange
<1>8. Tiling'
  <2>1. TilesUpTo(Pop(work), Top(work).prefix)
    <3>1. M + 1 - nextCommitment \in Int
      BY <1>2
    <3> QED BY <1>2, <3>1, PopTiles
  <2>2. Top(work).prefix = M + 1 - nextCommitment'
    BY <1>1, <1>2, <1>3
  <2>3. TilesUpTo(frames', M + 1 - nextCommitment')
    BY <1>1, <2>1, <2>2
  <2> QED BY <2>3 DEF Tiling, TilesUpTo
<1> QED BY <1>1, <1>5, <1>6, <1>7, <1>8, ReturnInv DEF IInv

(* Releasing a secret, or failing to.                                      *)
LEMMA ReleaseInv ==
    ASSUME NEW c \in 0..M
    PROVE  IInv /\ (Release(c) \/ ReleaseFails(c)) => IInv'
<1> SUFFICES ASSUME IInv, Release(c) \/ ReleaseFails(c) PROVE IInv'
  OBVIOUS
<1>1. /\ Releasable(c)
      /\ nextRelease' \in {nextRelease, c + 1}
      /\ UNCHANGED <<frames, masked, nextCommitment, nextVid, pc, walk, seen>>
  BY DEF Release, ReleaseFails, public
<1>2. /\ c = nextRelease /\ c < nextCommitment - 1
      /\ nextCommitment \in 0..(M + 1) /\ M \in Nat /\ nextRelease \in Nat
  BY <1>1, PowerFacts DEF Releasable, IInv, TypeOK
<1>3. nextRelease' \in 0..nextCommitment
  BY <1>1, <1>2
<1>d. DictsOK'
  BY DictsStable DEF Release, ReleaseFails, walk, IInv, TypeOK, public
<1>4. TypeOK'
  <2>1. c \in 0..(nextCommitment - 1)
    BY <1>2
  <2>2. leaves[c] \in Nat
    BY <2>1 DEF IInv, TypeOK, DictsOK
  <2>3. opened' = opened \cup {leaves[c]}
    BY DEF Release, ReleaseFails
  <2> QED BY <1>1, <1>d, <1>3, <2>2, <2>3 DEF IInv, TypeOK, walk
<1>5. VidsMinted' /\ FreshUnseen' /\ PadOnce'
  BY <1>1 DEF IInv, VidsMinted, FreshUnseen, PadOnce, walk
<1>6. InRange(frames)' /\ InRange(work)'
  BY <1>1 DEF IInv, InRange, walk
<1>7. Opened' = Opened
  BY <1>1 DEF Opened
<1>8. Control' /\ WalkInv' /\ Tiling' /\ WorkTiles'
  BY <1>1, <1>7 DEF IInv, Control, WalkInv, Tiling, WorkTiles, TilesUpTo, Top,
                    IndexOf, walk
<1> QED BY <1>4, <1>5, <1>6, <1>8 DEF IInv

(* A step that changes nothing.                                            *)
LEMMA StutterInv == IInv /\ UNCHANGED vars => IInv'
<1> SUFFICES ASSUME IInv, UNCHANGED vars PROVE IInv'
  OBVIOUS
<1>1. UNCHANGED <<public, nextVid, pc, walk, history>>
  BY DEF vars
<1>d. DictsOK'
  BY DictsStable DEF vars, walk, IInv, TypeOK, public
<1>2. TypeOK' /\ VidsMinted' /\ FreshUnseen' /\ PadOnce'
  BY <1>1, <1>d DEF IInv, TypeOK, VidsMinted, FreshUnseen, PadOnce, public, walk, history
<1>3. InRange(frames)' /\ InRange(work)'
  BY <1>1 DEF IInv, InRange, public, walk
<1>4. Control' /\ WalkInv' /\ Tiling' /\ WorkTiles'
  BY <1>1 DEF IInv, Control, WalkInv, Tiling, WorkTiles, TilesUpTo, Top,
              Opened, IndexOf, public, walk
<1> QED BY <1>2, <1>3, <1>4 DEF IInv

-----------------------------------------------------------------------------
(* The invariant is inductive, whatever the width, the bound on ids and    *)
(* whether runs come back short.                                           *)
THEOREM Invariance == Spec => []IInv
<1>1. Init => IInv
  BY InitInv
<1>2. IInv /\ [Next]_vars => IInv'
  <2> SUFFICES ASSUME IInv, [Next]_vars PROVE IInv'
    OBVIOUS
  <2>1. CASE PlanInit \/ PlanRestore \/ PlanPrepare
    BY <2>1, PlanInitInv, PlanRestoreInv, PlanPrepareInv
  <2>2. CASE WalkRight \/ WalkPast \/ WalkDone \/ RewalkDone
    BY <2>2, WalkRightInv, WalkPastInv, WalkDoneInv, RewalkDoneInv
  <2>3. CASE Descend \/ DescendDone
    BY <2>3, DescendInv, DescendDoneInv
  <2>4. CASE PlanFails \/ RunFails
    BY <2>4, PlanFailsInv, RunFailsInv
  <2>5. CASE CommitInit \/ CommitPrepare \/ CommitRestore \/ CommitRestoreShort
    BY <2>5, CommitInitInv, CommitPrepareInv, CommitRestoreInv
  <2>6. CASE \E c \in 0..M : Release(c) \/ ReleaseFails(c)
    BY <2>6, ReleaseInv
  <2>7. CASE UNCHANGED vars
    BY <2>7, StutterInv
  <2> QED BY <2>1, <2>2, <2>3, <2>4, <2>5, <2>6, <2>7 DEF Next
<1> QED BY <1>1, <1>2, PTL DEF Spec

(* Every variable keeps its type.                                          *)
THEOREM TypeCorrect == Spec => []TypeOK
<1>1. IInv => TypeOK
  BY DEF IInv
<1> QED BY <1>1, Invariance, PTL

(* The frontier tiles the unused indices after any number of prepares,     *)
(* aborted runs, restores and short restores: no index is ever skipped or  *)
(* used twice, which is what prepare_plan's assertion checks at run time.  *)
THEOREM FrontierTiles == Spec => []Tiling
<1>1. IInv => Tiling
  BY DEF IInv
<1> QED BY <1>1, Invariance, PTL

(* No vid's pad ever hides two values in public, however many runs were    *)
(* aborted after revealing their outputs and retried or restored.          *)
THEOREM PadsUsedOnce == Spec => []PadOnce
<1>1. IInv => PadOnce
  BY DEF IInv
<1> QED BY <1>1, Invariance, PTL

-----------------------------------------------------------------------------
(* Ids keep what they name. *)

(* Whatever becomes known in a step is known under a new id.               *)
Grows ==
    /\ nextVid \in Nat /\ nextVid' \in Nat /\ nextVid <= nextVid'
    /\ \A s \in Known' : s \in Known \/ s[1] \notin 0..(nextVid - 1)

(* A range reaches further when its end moves up.                          *)
LEMMA RangeGrows ==
    ASSUME NEW x \in Nat, NEW y \in Nat, x <= y, NEW k \in Nat, NEW v \in 0..(x - k)
    PROVE  v \in 0..(y - k)
OBVIOUS

(* An id keeps the index it names.                                         *)
LEMMA NamesStable ==
    ASSUME Grows
    PROVE  \A v, index :
             Minted(v) /\ Names(v, index)
               => /\ v \in 0..(nextVid' - 1)
                  /\ \A s \in Known' : s[1] = v => IsValueOf(s[2], index)
<1> TAKE v, index
<1> SUFFICES ASSUME Minted(v), Names(v, index)
             PROVE  /\ v \in 0..(nextVid' - 1)
                    /\ \A s \in Known' : s[1] = v => IsValueOf(s[2], index)
  OBVIOUS
<1>1. v \in 0..(nextVid - 1)
  BY DEF Minted
<1>2. v \in 0..(nextVid' - 1)
  BY <1>1, RangeGrows DEF Grows
<1>3. ASSUME NEW s \in Known', s[1] = v PROVE IsValueOf(s[2], index)
  <2>1. s \in Known
    BY <1>1, <1>3 DEF Grows
  <2> QED BY <1>3, <2>1 DEF Names
<1> QED BY <1>2, <1>3

(* A stack that a step leaves alone.                                       *)
LEMMA FramesStable ==
    ASSUME Grows, FramesNamed(frames), Aligned(frames), UNCHANGED frames
    PROVE  FramesNamed(frames)' /\ Aligned(frames)'
BY NamesStable DEF FramesNamed, Names, Minted, Aligned

(* What is under way stays named while registers are only added.           *)
LEMMA WorkStable ==
    ASSUME Grows, FramesNamed(work), Aligned(work), UNCHANGED work
    PROVE  FramesNamed(work)' /\ Aligned(work)'
BY NamesStable DEF FramesNamed, Names, Minted, Aligned

(* Leaves stay named while registers are only added.                       *)
LEMMA LeavesStable ==
    ASSUME Grows, LeavesNamed(leaves), UNCHANGED leaves
    PROVE  LeavesNamed(leaves)'
BY NamesStable DEF LeavesNamed, Names, Minted

(* Rederived leaves stay named while registers are only added.             *)
LEMMA RederivedStable ==
    ASSUME Grows, LeavesNamed(rederived), UNCHANGED rederived
    PROVE  LeavesNamed(rederived)'
BY NamesStable DEF LeavesNamed, Names, Minted

(* Commitments already opened stay behind the counters.                    *)
LEMMA OpenedStable ==
    ASSUME Grows, OpenedNamed, UNCHANGED opened,
           nextRelease \in Nat, nextRelease' \in Nat, nextRelease <= nextRelease',
           nextCommitment \in Nat, nextCommitment' \in Nat,
           nextCommitment <= nextCommitment'
    PROVE  OpenedNamed'
<1>0. ASSUME \A v \in opened :
               /\ v \in 0..(nextVid' - 1)
               /\ \E c \in 0..(nextCommitment' - 2) :
                    /\ c <= nextRelease'
                    /\ \A s \in Known' : s[1] = v => IsValueOf(s[2], IndexOf(c))
      PROVE  OpenedNamed'
  BY <1>0 DEF OpenedNamed, Minted, Names, IndexOf
<1> SUFFICES ASSUME NEW v \in opened
             PROVE  /\ v \in 0..(nextVid' - 1)
                    /\ \E c \in 0..(nextCommitment' - 2) :
                         /\ c <= nextRelease'
                         /\ \A s \in Known' : s[1] = v => IsValueOf(s[2], IndexOf(c))
  BY <1>0
<1>1. PICK c \in 0..(nextCommitment - 2) : c <= nextRelease /\ Names(v, IndexOf(c))
  BY DEF OpenedNamed
<1>2. Minted(v)
  BY DEF OpenedNamed
<1>3. /\ v \in 0..(nextVid' - 1)
      /\ \A s \in Known' : s[1] = v => IsValueOf(s[2], IndexOf(c))
  BY <1>1, <1>2, NamesStable
<1>4. c \in 0..(nextCommitment' - 2) /\ c <= nextRelease'
  <2>1. c \in 0..(nextCommitment' - 2)
    BY RangeGrows
  <2>2. c \in Int /\ c <= nextRelease
    BY <1>1
  <2>3. c <= nextRelease'
    BY <2>2
  <2> QED BY <2>1, <2>3
<1> QED BY <1>3, <1>4

(* Nothing new is known.                                                   *)
LEMMA GrowsNot ==
    ASSUME nextVid \in Nat, UNCHANGED <<nextVid, fresh, seen>>
    PROVE  Grows
BY DEF Grows, Known, Revealed

(* An operation that returns leaves at most its revealed outputs known.    *)
LEMMA GrowsReturn ==
    ASSUME nextVid \in Nat, UNCHANGED nextVid, Return,
           seen' \in {seen, seen \cup Revealed}
    PROVE  Grows
<1>1. Revealed' = {}
  BY DEF Return, NoMap, Revealed
<1> QED BY <1>1 DEF Grows, Known

(* A new output of the plan is known under a fresh id, and alone under it. *)
LEMMA GrowsMint ==
    ASSUME NEW x, NEW n \in {1, 2}, nextVid \in Nat, VidsMinted, Mint(n),
           fresh' = With(fresh, nextVid, x), UNCHANGED seen
    PROVE  /\ Grows
           /\ nextVid \in 0..(nextVid' - 1)
           /\ \A s \in Known' : s[1] = nextVid => s[2] = x
<1>1. nextVid' \in Nat /\ nextVid < nextVid'
  BY DEF Mint
<1>2. nextVid \notin DOMAIN fresh /\ \A s \in seen : s[1] # nextVid
  BY DEF VidsMinted
<1>3. /\ DOMAIN fresh' = DOMAIN fresh \cup {nextVid}
      /\ fresh'[nextVid] = x
      /\ \A v \in DOMAIN fresh : fresh'[v] = fresh[v]
  BY <1>2 DEF With
<1>4. ASSUME NEW s \in Known'
      PROVE  s \in Known \/ s = <<nextVid, x>>
  <2>1. CASE s \in seen
    BY <2>1 DEF Known
  <2>2. ASSUME NEW v \in DOMAIN fresh', s = <<v, fresh'[v]>>
        PROVE  s \in Known \/ s = <<nextVid, x>>
    <3>1. CASE v = nextVid
      BY <1>3, <2>2, <3>1
    <3>2. CASE v \in DOMAIN fresh
      BY <1>3, <2>2, <3>2 DEF Known, Revealed
    <3> QED BY <1>3, <2>2, <3>1, <3>2
  <2>3. s \in seen \/ \E v \in DOMAIN fresh' : s = <<v, fresh'[v]>>
    BY DEF Known, Revealed
  <2> QED BY <2>1, <2>2, <2>3
<1>5. \A s \in Known : s[1] # nextVid
  BY <1>2 DEF Known, Revealed
<1>6. nextVid \notin 0..(nextVid - 1)
  OBVIOUS
<1>7. nextVid \in 0..(nextVid' - 1)
  BY DEF Mint
<1>8. \A s \in Known' : s \in Known \/ s[1] \notin 0..(nextVid - 1)
  BY <1>4, <1>6
<1>9. \A s \in Known' : s[1] = nextVid => s[2] = x
  BY <1>4, <1>5
<1>10. nextVid <= nextVid'
  BY DEF Mint
<1>11. Grows
  BY <1>1, <1>8, <1>10 DEF Grows
<1> QED BY <1>7, <1>9, <1>11

-----------------------------------------------------------------------------
(* What the parts of an action preserve. *)

(* The committed state while a plan is built.                              *)
LEMMA PublicStable ==
    ASSUME IInv, ValueInv, Grows, UNCHANGED <<public, history>>
    PROVE  /\ MaskedSeen' /\ FramesNamed(frames)' /\ Aligned(frames)'
           /\ LeavesNamed(leaves)' /\ OpenedNamed' /\ Handed'
<1>1. UNCHANGED <<frames, masked, leaves, nextCommitment, nextRelease, secrets,
                  seen, opened>>
  BY DEF public, history
<1>2. nextRelease \in Nat /\ nextCommitment \in Nat
  BY PowerFacts DEF IInv, TypeOK
<1>3. MaskedSeen' /\ Handed'
  BY <1>1 DEF ValueInv, MaskedSeen, Handed
<1>4. FramesNamed(frames)' /\ Aligned(frames)'
  BY <1>1, FramesStable DEF ValueInv
<1>5. LeavesNamed(leaves)'
  BY <1>1, LeavesStable DEF ValueInv
<1>6. OpenedNamed'
  BY <1>1, <1>2, OpenedStable DEF ValueInv
<1> QED BY <1>3, <1>4, <1>5, <1>6

(* A plan with nothing in it.                                              *)
LEMMA EmptyPlan ==
    ASSUME work' = << >>, rederived' = NoMap
    PROVE  FramesNamed(work)' /\ Aligned(work)' /\ LeavesNamed(rederived)'
BY DEF FramesNamed, Aligned, LeavesNamed, NoMap

(* The start of a seed walk: the seed, and no bit visited.                 *)
LEMMA StartValue ==
    ASSUME NEW op, NEW place, NEW index, StartWalk(op, place, index)
    PROVE  Walked'
<1>1. bit' = Width - 1 /\ prefix' = 0 /\ cur' = Seed
  BY DEF StartWalk
<1>2. (Width - 1) + 1 = Width /\ 0 = 0 * Pow2[Width] /\ 0 \in 0..M
  BY PowerFacts
<1>3. \E q \in 0..M : prefix' = q * Pow2[bit' + 1]
  BY <1>1, <1>2
<1>4. IsValueOf(cur', prefix')
  BY <1>1, SeedValue
<1> QED BY <1>3, <1>4 DEF Walked

(* A frame filed under a new id.                                           *)
LEMMA AppendNamed ==
    ASSUME NEW f, NEW q \in 0..M, Grows, work \in Seq(Frames),
           FramesNamed(work), Aligned(work), work' = Append(work, f),
           f.prefix = q * Pow2[f.depth],
           f.vid \in 0..(nextVid' - 1),
           \A s \in Known' : s[1] = f.vid => IsValueOf(s[2], f.prefix)
    PROVE  FramesNamed(work)' /\ Aligned(work)'
<1>1. /\ Len(work) \in Nat /\ DOMAIN work = 1..Len(work)
      /\ DOMAIN work' = 1..(Len(work) + 1)
      /\ work'[Len(work) + 1] = f
      /\ \A i \in 1..Len(work) : work'[i] = work[i]
  OBVIOUS
<1>2. \A i \in DOMAIN work : Minted(work[i].vid) /\ Names(work[i].vid, work[i].prefix)
  BY DEF FramesNamed
<1>3. ASSUME NEW i \in DOMAIN work'
      PROVE  /\ work'[i].vid \in 0..(nextVid' - 1)
             /\ \A s \in Known' : s[1] = work'[i].vid => IsValueOf(s[2], work'[i].prefix)
  <2>1. CASE i = Len(work) + 1
    BY <1>1, <2>1
  <2>2. CASE i \in DOMAIN work
    <3>1. work'[i] = work[i]
      BY <1>1, <2>2
    <3> QED BY <1>2, <2>2, <3>1, NamesStable
  <2> QED BY <1>1, <2>1, <2>2
<1>4. FramesNamed(work)'
  BY <1>3 DEF FramesNamed, Minted, Names
<1>5. Aligned(work)'
  BY <1>1 DEF Aligned
<1> QED BY <1>4, <1>5

-----------------------------------------------------------------------------
(* The actions. *)

(* A new channel.                                                          *)
LEMMA InitValue == Init => ValueInv
<1> SUFFICES ASSUME Init PROVE ValueInv
  OBVIOUS
<1>1. /\ frames = << >> /\ work = << >> /\ DOMAIN masked = {} /\ DOMAIN leaves = {}
      /\ DOMAIN rederived = {} /\ opened = {} /\ secrets = << >> /\ nextRelease = 0
      /\ pc = "idle" /\ kind = "none"
  BY DEF Init, NoMap
<1>2. MaskedSeen /\ OpenedNamed /\ Walked /\ PlanHeld /\ Handed
  BY <1>1 DEF MaskedSeen, OpenedNamed, Walked, PlanHeld, Handed
<1>3. FramesNamed(frames) /\ FramesNamed(work) /\ Aligned(frames) /\ Aligned(work)
  BY <1>1 DEF FramesNamed, Aligned
<1>4. LeavesNamed(leaves) /\ LeavesNamed(rederived)
  BY <1>1 DEF LeavesNamed
<1> QED BY <1>2, <1>3, <1>4 DEF ValueInv

(* Starting to plan an opening or a restore.                               *)
LEMMA PlanWalkValue == IInv /\ ValueInv /\ (PlanInit \/ PlanRestore) => ValueInv'
<1> SUFFICES ASSUME IInv, ValueInv, PlanInit \/ PlanRestore PROVE ValueInv'
  OBVIOUS
<1>1. /\ pc = "idle" /\ work' = << >> /\ fresh' = NoMap /\ rederived' = NoMap
      /\ UNCHANGED <<public, nextVid, history>>
      /\ pc' = "walk"
      /\ \E op, index : StartWalk(op, "walk", index)
  BY DEF PlanInit, PlanRestore, StartWalk
<1>2. fresh = NoMap /\ nextVid \in Nat
  BY <1>1 DEF IInv, Control, TypeOK
<1>3. Grows
  BY <1>1, <1>2, GrowsNot DEF history
<1>4. PlanHeld'
  BY <1>1 DEF PlanHeld, NoMap
<1>5. Walked'
  BY <1>1, StartValue
<1> QED BY <1>1, <1>3, <1>4, <1>5, PublicStable, EmptyPlan DEF ValueInv

(* Starting to plan a prepare: the plan begins with the frontier.          *)
LEMMA PlanPrepareValue == IInv /\ ValueInv /\ PlanPrepare => ValueInv'
<1> SUFFICES ASSUME IInv, ValueInv, PlanPrepare PROVE ValueInv'
  OBVIOUS
<1>1. /\ pc = "idle" /\ work' = frames /\ fresh' = NoMap /\ rederived' = NoMap
      /\ UNCHANGED <<public, nextVid, history>>
      /\ pc' = "descend" /\ kind' = "prepare"
  BY DEF PlanPrepare
<1>2. fresh = NoMap /\ nextVid \in Nat
  BY <1>1 DEF IInv, Control, TypeOK
<1>3. Grows
  BY <1>1, <1>2, GrowsNot DEF history
<1>4. PlanHeld' /\ Walked'
  BY <1>1 DEF PlanHeld, Walked, NoMap
<1>5. FramesNamed(frames)' /\ Aligned(frames)' /\ frames' = frames
  BY <1>1, <1>3, PublicStable DEF public
<1>6. FramesNamed(work)' /\ Aligned(work)'
  BY <1>1, <1>5 DEF FramesNamed, Aligned, Minted, Names
<1>7. LeavesNamed(rederived)'
  BY <1>1 DEF LeavesNamed, NoMap
<1> QED BY <1>1, <1>3, <1>4, <1>6, <1>7, PublicStable DEF ValueInv

(* A seed walk that has visited a bit knows where it is among the lower    *)
(* ones: its prefix is an even multiple of their power.                    *)
LEMMA WalkHalves ==
    ASSUME IInv, ValueInv, pc \in {"walk", "rewalk"}, bit >= 0
    PROVE  /\ bit \in Bits
           /\ IsValueOf(cur, prefix)
           /\ prefix + Pow2[bit] \in 0..M
           /\ \E q \in 0..M : /\ prefix = q * Pow2[bit + 1]
                             /\ 2 * q \in 0..M /\ prefix = (2 * q) * Pow2[bit]
                             /\ 2 * q + 1 \in 0..M
                             /\ prefix + Pow2[bit] = (2 * q + 1) * Pow2[bit]
<1> DEFINE P == Pow2[bit]
<1>1. /\ bit \in Bits /\ bit + 1 \in 1..Width /\ (bit + 1) - 1 = bit /\ bit \in 0..Width
      /\ prefix \in 0..M /\ M \in Nat
  BY PowerFacts DEF IInv, TypeOK, Bits
<1>2. P \in Nat \ {0} /\ Pow2[bit + 1] = 2 * P
  BY <1>1, PowerFacts
<1>3. PICK q \in 0..M : prefix = q * Pow2[bit + 1]
  BY DEF ValueInv, Walked
<1>4. IsValueOf(cur, prefix)
  BY DEF ValueInv, Walked
<1>5. prefix + Pow2[bit + 1] <= M + 1
  BY DEF IInv, WalkInv
<1> DEFINE p == prefix
<1>6. /\ p \in Nat /\ q \in Nat /\ P \in Nat \ {0} /\ p = q * (2 * P) /\ p + 2 * P <= M + 1
      /\ M \in Nat
  BY <1>1, <1>2, <1>3, <1>5
<1> HIDE DEF p, P
<1>7. p + P \in 0..M
  BY <1>6, HalfFits
<1>8. p = (2 * q) * P /\ p + P = (2 * q + 1) * P
  BY <1>6, Z3
<1>9. 2 * q \in Nat /\ 2 * q + 1 \in Nat
  BY <1>6
<1>10. 2 * q <= (2 * q) * P /\ 2 * q + 1 <= (2 * q + 1) * P
  BY <1>6, <1>9, ProductBound
<1>11. 2 * q \in 0..M /\ 2 * q + 1 \in 0..M
  BY <1>6, <1>7, <1>8, <1>9, <1>10
<1> QED BY <1>1, <1>3, <1>4, <1>7, <1>8, <1>11 DEF p, P

(* A set bit: the left sibling keeps the value of the bits before, the     *)
(* walk goes on from its hash.                                             *)
LEMMA WalkRightValue == IInv /\ ValueInv /\ WalkRight => ValueInv'
<1> SUFFICES ASSUME IInv, ValueInv, WalkRight PROVE ValueInv'
  OBVIOUS
<1>1. /\ pc \in {"walk", "rewalk"} /\ bit >= 0 /\ Mint(2)
      /\ cur' = Hash(cur, bit) /\ prefix' = prefix + Pow2[bit] /\ bit' = bit - 1
      /\ UNCHANGED <<public, pc, kind, target, rederived, history>>
  BY DEF WalkRight
<1>2. /\ nextVid \in Nat /\ VidsMinted /\ work \in Seq(Frames) /\ bit' + 1 = bit
      /\ bit \in Int /\ nextVid' \in Nat /\ nextVid < nextVid'
      /\ FramesNamed(work) /\ Aligned(work)
  BY <1>1 DEF IInv, TypeOK, Bits, ValueInv, Mint
<1>3. PICK q \in 0..M : /\ prefix = q * Pow2[bit + 1]
                        /\ 2 * q \in 0..M /\ prefix = (2 * q) * Pow2[bit]
                        /\ 2 * q + 1 \in 0..M
                        /\ prefix + Pow2[bit] = (2 * q + 1) * Pow2[bit]
  BY <1>1, WalkHalves
<1>4. bit \in Bits /\ IsValueOf(cur, prefix) /\ q \in Nat
  BY <1>1, WalkHalves
<1>5. Walked'
  <2>1. IsValueOf(cur', prefix')
    BY <1>1, <1>3, <1>4, ValueHash
  <2>2. prefix' = (2 * q + 1) * Pow2[bit' + 1]
    BY <1>1, <1>2, <1>3
  <2> QED BY <1>3, <2>1, <2>2 DEF Walked
<1>6. CASE pc = "walk"
  <2> DEFINE f == Frame(prefix, bit, nextVid)
  <2>1. work' = Append(work, f) /\ fresh' = With(fresh, nextVid, cur) /\ UNCHANGED seen
    BY <1>6 DEF WalkRight, history
  <2>2. /\ Grows /\ nextVid \in 0..(nextVid' - 1)
        /\ \A s \in Known' : s[1] = nextVid => s[2] = cur
    BY <1>1, <1>2, <2>1, GrowsMint
  <2>3. f.prefix = prefix /\ f.depth = bit /\ f.vid = nextVid
    BY DEF Frame
  <2> HIDE DEF f
  <2>4. FramesNamed(work)' /\ Aligned(work)'
    <3>1. f.prefix = (2 * q) * Pow2[f.depth]
      BY <1>3, <2>3
    <3>2. \A s \in Known' : s[1] = f.vid => IsValueOf(s[2], f.prefix)
      BY <1>4, <2>2, <2>3
    <3> QED BY <1>2, <1>3, <2>1, <2>2, <2>3, <3>1, <3>2, AppendNamed
  <2>5. PlanHeld'
    <3>1. DOMAIN fresh' = {nextVid} \cup DOMAIN fresh
      BY <2>1, WithDomain
    <3>2. ASSUME kind \in {"init", "restore"}, NEW i \in DOMAIN work'
          PROVE  work'[i].vid \in DOMAIN fresh'
      <4>1. i = Len(work) + 1 \/ i \in DOMAIN work
        BY <1>2, <2>1
      <4>2. CASE i = Len(work) + 1
        <5>1. work'[i] = f
          BY <1>2, <2>1, <4>2
        <5> QED BY <2>3, <3>1, <5>1
      <4>3. CASE i \in DOMAIN work
        <5>1. work'[i] = work[i]
          BY <1>2, <2>1, <4>3
        <5> QED BY <3>1, <3>2, <4>3, <5>1 DEF ValueInv, PlanHeld
      <4> QED BY <4>1, <4>2, <4>3
    <3> QED BY <1>1, <1>6, <3>1, <3>2 DEF ValueInv, PlanHeld
  <2>6. LeavesNamed(rederived)'
    BY <1>1, <2>2, RederivedStable DEF ValueInv
  <2> QED BY <1>1, <1>5, <2>2, <2>4, <2>5, <2>6, PublicStable DEF ValueInv
<1>7. CASE pc = "rewalk"
  <2>1. UNCHANGED <<work, fresh, seen>>
    BY <1>7 DEF WalkRight, history
  <2>2. Grows
    <3>1. Known' = Known
      BY <2>1 DEF Known, Revealed
    <3> QED BY <1>2, <3>1 DEF Grows
  <2>3. PlanHeld'
    BY <1>1, <2>1 DEF ValueInv, PlanHeld, public
  <2>4. /\ LeavesNamed(rederived)' /\ FramesNamed(work)' /\ Aligned(work)'
    BY <1>1, <1>2, <2>1, <2>2, RederivedStable, WorkStable DEF ValueInv
  <2> QED BY <1>1, <1>5, <2>2, <2>3, <2>4, PublicStable DEF ValueInv
<1> QED BY <1>1, <1>6, <1>7

(* A clear bit: the value stays, and one bit more has been visited.        *)
LEMMA WalkPastValue == IInv /\ ValueInv /\ WalkPast => ValueInv'
<1> SUFFICES ASSUME IInv, ValueInv, WalkPast PROVE ValueInv'
  OBVIOUS
<1>1. /\ pc \in {"walk", "rewalk"} /\ bit >= 0 /\ bit' = bit - 1
      /\ UNCHANGED <<public, nextVid, pc, kind, target, prefix, cur, work, fresh,
                     rederived, history>>
  BY DEF WalkPast
<1>2. nextVid \in Nat /\ bit' + 1 = bit
  BY <1>1 DEF IInv, TypeOK
<1>3. PICK q \in 0..M : 2 * q \in 0..M /\ prefix = (2 * q) * Pow2[bit]
  BY <1>1, WalkHalves
<1>4. Walked'
  <2>1. IsValueOf(cur', prefix')
    BY <1>1, WalkHalves
  <2>2. prefix' = (2 * q) * Pow2[bit' + 1]
    BY <1>1, <1>2, <1>3
  <2> QED BY <1>3, <2>1, <2>2 DEF Walked
<1>5. Grows
  BY <1>1, <1>2, GrowsNot DEF history
<1>6. PlanHeld'
  BY <1>1 DEF ValueInv, PlanHeld, public
<1>7. /\ LeavesNamed(rederived)' /\ FramesNamed(work)' /\ Aligned(work)'
  BY <1>1, <1>5, RederivedStable, WorkStable DEF ValueInv
<1> QED BY <1>1, <1>4, <1>5, <1>6, <1>7, PublicStable DEF ValueInv

(* Going on to the next pending leaf, or to the run.                       *)
LEMMA RederiveValue ==
    ASSUME NEW c \in Nat, IInv, Rederive(c), UNCHANGED public,
           kind \in {"init", "restore"},
           nextRelease..(c - 1) \subseteq DOMAIN rederived'
    PROVE  /\ Walked' /\ kind' = kind
           /\ pc' = "rewalk" => nextRelease'..(M - target' - 1) \subseteq DOMAIN rederived'
           /\ pc' = "run" /\ kind' = "restore"
                => nextRelease'..(nextCommitment' - 1) \subseteq DOMAIN rederived'
<1>1. /\ M \in Nat /\ nextCommitment \in Nat /\ nextRelease \in Nat
      /\ nextCommitment' = nextCommitment /\ nextRelease' = nextRelease
  BY PowerFacts DEF IInv, TypeOK, public
<1>2. CASE kind = "restore" /\ c < nextCommitment
  <2>1. StartWalk(kind, "rewalk", IndexOf(c))
    BY <1>2 DEF Rederive
  <2>2. kind' = kind /\ pc' = "rewalk" /\ target' = M - c
    BY <2>1 DEF StartWalk, IndexOf
  <2>3. Walked'
    BY <2>1, StartValue
  <2>4. M - target' - 1 = c - 1
    BY <1>1, <2>2
  <2> QED BY <1>1, <2>2, <2>3, <2>4
<1>3. CASE ~(kind = "restore" /\ c < nextCommitment)
  <2>1. pc' = "run" /\ kind' = kind
    BY <1>3 DEF Rederive
  <2>2. ASSUME kind' = "restore"
        PROVE  nextRelease'..(nextCommitment' - 1) \subseteq DOMAIN rederived'
    <3>1. c >= nextCommitment
      BY <1>1, <1>3, <2>1, <2>2
    <3>2. nextRelease..(nextCommitment - 1) \subseteq nextRelease..(c - 1)
      BY <1>1, <3>1
    <3> QED BY <1>1, <3>2
  <2> QED BY <2>1, <2>2 DEF Walked
<1> QED BY <1>2, <1>3

(* The node at the end of the frontier walk is filed under a new id.       *)
LEMMA WalkDoneValue == IInv /\ ValueInv /\ WalkDone => ValueInv'
<1> SUFFICES ASSUME IInv, ValueInv, WalkDone PROVE ValueInv'
  OBVIOUS
<1> DEFINE f == Frame(prefix, 0, nextVid)
<1>1. /\ pc = "walk" /\ Mint(1) /\ Rederive(nextRelease)
      /\ work' = Append(work, f) /\ fresh' = With(fresh, nextVid, cur)
      /\ UNCHANGED <<public, rederived, history>>
  BY DEF WalkDone
<1>2. /\ nextVid \in Nat /\ VidsMinted /\ work \in Seq(Frames) /\ nextRelease \in Nat
      /\ FramesNamed(work) /\ Aligned(work) /\ kind \in {"init", "restore"}
      /\ prefix \in 0..M /\ M \in Nat /\ IsValueOf(cur, prefix) /\ UNCHANGED seen
  BY <1>1, PowerFacts DEF IInv, TypeOK, Control, ValueInv, Walked, history
<1>3. /\ Grows /\ nextVid \in 0..(nextVid' - 1)
      /\ \A s \in Known' : s[1] = nextVid => s[2] = cur
  BY <1>1, <1>2, GrowsMint
<1>4. f.prefix = prefix /\ f.depth = 0 /\ f.vid = nextVid
  BY DEF Frame
<1> HIDE DEF f
<1>5. FramesNamed(work)' /\ Aligned(work)'
  <2>1. f.prefix = prefix * Pow2[f.depth]
    BY <1>2, <1>4, PowerFacts
  <2>2. \A s \in Known' : s[1] = f.vid => IsValueOf(s[2], f.prefix)
    BY <1>2, <1>3, <1>4
  <2> QED BY <1>1, <1>2, <1>3, <1>4, <2>1, <2>2, AppendNamed
<1>6. /\ Walked' /\ kind' = kind
      /\ pc' = "rewalk" => nextRelease'..(M - target' - 1) \subseteq DOMAIN rederived'
      /\ pc' = "run" /\ kind' = "restore"
           => nextRelease'..(nextCommitment' - 1) \subseteq DOMAIN rederived'
  <2>1. nextRelease..(nextRelease - 1) \subseteq DOMAIN rederived'
    BY <1>2
  <2> QED BY <1>1, <1>2, <2>1, RederiveValue
<1>7. PlanHeld'
  <2>1. DOMAIN fresh' = {nextVid} \cup DOMAIN fresh
    BY <1>1, WithDomain
  <2>2. ASSUME NEW i \in DOMAIN work' PROVE work'[i].vid \in DOMAIN fresh'
    <3>1. CASE i = Len(work) + 1
      <4>1. work'[i] = f
        BY <1>1, <1>2, <3>1
      <4> QED BY <1>4, <2>1, <4>1
    <3>2. CASE i \in DOMAIN work
      <4>1. work'[i] = work[i]
        BY <1>1, <1>2, <3>2
      <4> QED BY <1>2, <2>1, <3>2, <4>1 DEF ValueInv, PlanHeld
    <3>3. i = Len(work) + 1 \/ i \in DOMAIN work
      BY <1>1, <1>2
    <3> QED BY <3>1, <3>2, <3>3
  <2>3. \A c \in DOMAIN rederived' : rederived'[c] \in DOMAIN fresh'
    BY <1>1, <2>1 DEF ValueInv, PlanHeld
  <2> QED BY <1>6, <2>2, <2>3 DEF PlanHeld
<1>8. LeavesNamed(rederived)'
  BY <1>1, <1>3, RederivedStable DEF ValueInv
<1> QED BY <1>1, <1>3, <1>5, <1>6, <1>7, <1>8, PublicStable DEF ValueInv

(* The walk to a pending leaf ends at its index, and files the leaf under  *)
(* a new id.                                                               *)
LEMMA RewalkDoneValue == IInv /\ ValueInv /\ RewalkDone => ValueInv'
<1> SUFFICES ASSUME IInv, ValueInv, RewalkDone PROVE ValueInv'
  OBVIOUS
<1> DEFINE c == M - target
<1>1. /\ pc = "rewalk" /\ bit = -1 /\ Mint(1) /\ Rederive(c + 1)
      /\ rederived' = With(rederived, c, nextVid)
      /\ fresh' = With(fresh, nextVid, cur)
      /\ UNCHANGED <<public, work, history>>
  BY DEF RewalkDone, Refiled
<1>2. /\ nextVid \in Nat /\ VidsMinted /\ kind = "restore"
      /\ target \in 0..M /\ M \in Nat /\ prefix \in 0..M
      /\ IsValueOf(cur, prefix) /\ UNCHANGED seen /\ nextRelease \in Nat
  BY <1>1, PowerFacts DEF IInv, TypeOK, Control, ValueInv, Walked, history
<1>3. prefix = IndexOf(c) /\ c \in Nat
  <2>1. prefix <= target /\ target < prefix + Pow2[bit + 1]
    BY <1>1, <1>2 DEF IInv, WalkInv
  <2>2. bit + 1 = 0 /\ Pow2[0] = 1
    BY <1>1, PowerFacts
  <2>3. target < prefix + 1
    BY <2>1, <2>2
  <2> QED BY <1>2, <2>1, <2>3 DEF IndexOf
<1> HIDE DEF c
<1>4. /\ Grows /\ nextVid \in 0..(nextVid' - 1)
      /\ \A s \in Known' : s[1] = nextVid => s[2] = cur
  BY <1>1, <1>2, GrowsMint
<1>5. /\ DOMAIN rederived' = DOMAIN rederived \cup {c}
      /\ rederived'[c] = nextVid
      /\ \A d \in DOMAIN rederived : d # c => rederived'[d] = rederived[d]
  BY <1>1 DEF With
<1>6. /\ Walked' /\ kind' = kind
      /\ pc' = "rewalk" => nextRelease'..(M - target' - 1) \subseteq DOMAIN rederived'
      /\ pc' = "run" /\ kind' = "restore"
           => nextRelease'..(nextCommitment' - 1) \subseteq DOMAIN rederived'
  <2>1. nextRelease..(M - target - 1) \subseteq DOMAIN rederived
    BY <1>1 DEF ValueInv, PlanHeld
  <2>2. M - target - 1 = c - 1
    BY DEF c
  <2>3. (c + 1) - 1 = c /\ c + 1 \in Nat
    BY <1>3
  <2>4. nextRelease..c \subseteq (nextRelease..(c - 1)) \cup {c}
    BY <1>2, <1>3
  <2>5. nextRelease..((c + 1) - 1) \subseteq DOMAIN rederived'
    BY <1>5, <2>1, <2>2, <2>3, <2>4
  <2> QED BY <1>1, <1>2, <2>3, <2>5, RederiveValue
<1>7. LeavesNamed(rederived)'
  <2>1. ASSUME NEW d \in DOMAIN rederived'
        PROVE  /\ rederived'[d] \in 0..(nextVid' - 1)
               /\ \A s \in Known' : s[1] = rederived'[d] => IsValueOf(s[2], IndexOf(d))
    <3>1. CASE d = c
      BY <1>2, <1>3, <1>4, <1>5, <3>1
    <3>2. CASE d # c
      <4>1. d \in DOMAIN rederived /\ rederived'[d] = rederived[d]
        BY <1>5, <3>2
      <4>2. Minted(rederived[d]) /\ Names(rederived[d], IndexOf(d))
        BY <4>1 DEF ValueInv, LeavesNamed
      <4> QED BY <1>4, <4>1, <4>2, NamesStable
    <3> QED BY <3>1, <3>2
  <2> QED BY <2>1 DEF LeavesNamed, Minted, Names, IndexOf
<1>8. PlanHeld'
  <2>1. DOMAIN fresh' = {nextVid} \cup DOMAIN fresh
    BY <1>1, WithDomain
  <2>2. \A d \in DOMAIN rederived' : rederived'[d] \in DOMAIN fresh'
    BY <1>5, <2>1 DEF ValueInv, PlanHeld
  <2>3. \A i \in DOMAIN work' : work'[i].vid \in DOMAIN fresh'
    BY <1>1, <1>2, <2>1 DEF ValueInv, PlanHeld
  <2> QED BY <1>6, <2>2, <2>3 DEF PlanHeld
<1>9. FramesNamed(work)' /\ Aligned(work)'
  BY <1>1, <1>4, WorkStable DEF ValueInv
<1> QED BY <1>1, <1>4, <1>6, <1>7, <1>8, <1>9, PublicStable DEF ValueInv

(* The elements of a stack whose top was split.                            *)
LEMMA SplitElements ==
    ASSUME NEW stack \in Seq(Frames), stack # << >>, NEW vid
    PROVE  /\ Len(stack) \in Nat \ {0}
           /\ DOMAIN SplitTop(stack, vid) = 1..(Len(stack) + 1)
           /\ \A i \in 1..(Len(stack) - 1) : SplitTop(stack, vid)[i] = stack[i]
           /\ SplitTop(stack, vid)[Len(stack)] = LeftHalf(Top(stack))
           /\ SplitTop(stack, vid)[Len(stack) + 1] = RightHalf(Top(stack), vid)
<1> DEFINE left == LeftHalf(Top(stack))
           right == RightHalf(Top(stack), vid)
           low == Pop(stack)
           half == Append(low, left)
<1>1. /\ Len(stack) \in Nat \ {0} /\ low \in Seq(Frames) /\ Len(low) = Len(stack) - 1
      /\ \A i \in 1..(Len(stack) - 1) : low[i] = stack[i]
  BY PopFacts
<1> HIDE DEF left, right, low
<1>2. /\ half \in Seq(Frames \cup {left}) /\ Len(half) = Len(stack)
      /\ half[Len(stack)] = left
      /\ \A i \in 1..(Len(stack) - 1) : half[i] = stack[i]
  <2>1. low \in Seq(Frames \cup {left}) /\ left \in Frames \cup {left}
    BY <1>1
  <2> QED BY <1>1, <2>1
<1> HIDE DEF half
<1>3. /\ DOMAIN Append(half, right) = 1..(Len(stack) + 1)
      /\ \A i \in 1..Len(stack) : Append(half, right)[i] = half[i]
      /\ Append(half, right)[Len(stack) + 1] = right
  BY <1>1, <1>2
<1>4. SplitTop(stack, vid) = Append(half, right)
  BY DEF SplitTop, half, low, left, right
<1> QED BY <1>1, <1>2, <1>3, <1>4 DEF left, right

(* What a plan can load of a frame's id is the value of the frame's index. *)
LEMMA LoadedValue ==
    ASSUME MaskedSeen, NEW v, NEW index, Names(v, index), Loadable(v)
    PROVE  IsValueOf(ValueOf(v), index)
<1>1. CASE v \in DOMAIN fresh
  <2>1. <<v, fresh[v]>> \in Known
    BY <1>1 DEF Known, Revealed
  <2> QED BY <1>1, <2>1 DEF Names, ValueOf
<1>2. CASE v \notin DOMAIN fresh
  <2>1. v \in DOMAIN masked
    BY <1>2 DEF Loadable
  <2>2. <<v, masked[v]>> \in Known
    BY <2>1 DEF MaskedSeen, Known
  <2> QED BY <1>2, <2>2 DEF Names, ValueOf
<1> QED BY <1>1, <1>2

(* Splitting a subtree: the left half keeps its value, the right half gets *)
(* the hash with the halves' bit under an id of its own.                   *)
LEMMA DescendValue == IInv /\ ValueInv /\ Descend => ValueInv'
<1> SUFFICES ASSUME IInv, ValueInv, Descend PROVE ValueInv'
  OBVIOUS
<1> DEFINE n == Len(work)
           top == Top(work)
           d == top.depth - 1
           P == Pow2[d]
<1>1. /\ pc = "descend" /\ top.depth > 0 /\ Loadable(top.vid)
      /\ work' = SplitTop(work, nextVid)
      /\ fresh' = With(fresh, nextVid, Hash(ValueOf(top.vid), d))
      /\ Mint(1)
      /\ UNCHANGED <<public, pc, kind, rederived, history>>
  BY DEF Descend, RightValue
<1>2. /\ kind = "prepare" /\ work # << >> /\ work \in Seq(Frames)
      /\ nextVid \in Nat /\ VidsMinted /\ M \in Nat /\ InRange(work)
      /\ FramesNamed(work) /\ Aligned(work) /\ MaskedSeen /\ UNCHANGED seen
  BY <1>1, PowerFacts DEF IInv, Control, WorkTiles, TypeOK, ValueInv, history
<1>3. /\ n \in Nat \ {0} /\ DOMAIN work = 1..n /\ top = work[n] /\ top \in Frames
      /\ DOMAIN work' = 1..(n + 1)
      /\ \A i \in 1..(n - 1) : work'[i] = work[i]
      /\ work'[n] = LeftHalf(top)
      /\ work'[n + 1] = RightHalf(top, nextVid)
  BY <1>1, <1>2, SplitElements, PopFacts DEF Top
<1>4. /\ LeftHalf(top).prefix = top.prefix /\ LeftHalf(top).depth = d
      /\ LeftHalf(top).vid = top.vid
      /\ RightHalf(top, nextVid).prefix = top.prefix + P
      /\ RightHalf(top, nextVid).depth = d /\ RightHalf(top, nextVid).vid = nextVid
  BY DEF LeftHalf, RightHalf, Frame
<1>5. /\ n \in DOMAIN work /\ Minted(top.vid) /\ Names(top.vid, top.prefix)
      /\ top.prefix + Pow2[top.depth] <= M + 1
      /\ top.prefix \in 0..M /\ top.depth \in 1..Width
      /\ \E q \in 0..M : top.prefix = q * Pow2[top.depth]
  <2> HIDE DEF n, top
  <2>1. n \in DOMAIN work
    BY <1>3
  <2>2. Minted(top.vid) /\ Names(top.vid, top.prefix)
    BY <1>2, <1>3, <2>1 DEF FramesNamed
  <2>3. top.prefix + Pow2[top.depth] <= M + 1
    BY <1>2, <1>3, <2>1 DEF InRange
  <2>4. \E q \in 0..M : top.prefix = q * Pow2[top.depth]
    BY <1>2, <1>3, <2>1 DEF Aligned
  <2>5. top.prefix \in 0..M /\ top.depth \in 0..Width
    BY <1>3 DEF Frames
  <2>6. top.depth \in 1..Width
    BY <1>1, <2>5
  <2> QED BY <2>1, <2>2, <2>3, <2>4, <2>5, <2>6
<1>6. PICK q \in 0..M : top.prefix = q * Pow2[top.depth]
  BY <1>5
<1>7. /\ d \in Bits /\ d + 1 = top.depth /\ P \in Nat \ {0}
      /\ Pow2[top.depth] = 2 * P
  <2> DEFINE k == top.depth
  <2>1. k \in 1..Width
    BY <1>5
  <2> HIDE DEF k
  <2>2. k - 1 \in Bits /\ (k - 1) + 1 = k /\ k - 1 \in 0..Width
    BY <2>1, PowerFacts DEF Bits
  <2>3. Pow2[k - 1] \in Nat \ {0} /\ Pow2[k] = 2 * Pow2[k - 1]
    BY <2>1, <2>2, PowerFacts
  <2> QED BY <2>2, <2>3 DEF k
<1>8. IsValueOf(ValueOf(top.vid), top.prefix)
  BY <1>1, <1>2, <1>5, LoadedValue
<1>9. IsValueOf(Hash(ValueOf(top.vid), d), top.prefix + P)
  <2>1. q \in Nat /\ top.prefix = q * Pow2[d + 1]
    BY <1>6, <1>7
  <2> QED BY <1>7, <1>8, <2>1, ValueHash
<1>10. /\ Grows /\ nextVid \in 0..(nextVid' - 1)
       /\ \A s \in Known' : s[1] = nextVid => s[2] = Hash(ValueOf(top.vid), d)
  BY <1>1, <1>2, GrowsMint
<1>11. /\ 2 * q \in 0..M /\ 2 * q + 1 \in 0..M
       /\ top.prefix = (2 * q) * P /\ top.prefix + P = (2 * q + 1) * P
  <2> DEFINE p == top.prefix
  <2>1. /\ p \in Nat /\ q \in Nat /\ P \in Nat \ {0} /\ p = q * (2 * P)
        /\ p + 2 * P <= M + 1 /\ M \in Nat
    BY <1>2, <1>5, <1>6, <1>7
  <2> HIDE DEF p, P
  <2>2. p + P \in 0..M
    BY <2>1, HalfFits
  <2>3. p = (2 * q) * P /\ p + P = (2 * q + 1) * P
    BY <2>1, Z3
  <2>4. 2 * q \in Nat /\ 2 * q + 1 \in Nat
    BY <2>1
  <2>5. 2 * q <= (2 * q) * P /\ 2 * q + 1 <= (2 * q + 1) * P
    BY <2>1, <2>4, ProductBound
  <2> QED BY <2>1, <2>2, <2>3, <2>4, <2>5 DEF p
<1> HIDE DEF n, top, d, P
<1>12. FramesNamed(work)'
  <2>1. ASSUME NEW i \in DOMAIN work'
        PROVE  /\ work'[i].vid \in 0..(nextVid' - 1)
               /\ \A s \in Known' : s[1] = work'[i].vid => IsValueOf(s[2], work'[i].prefix)
    <3>1. CASE i \in 1..(n - 1)
      <4>1. i \in DOMAIN work /\ work'[i] = work[i]
        BY <1>3, <3>1
      <4>2. Minted(work[i].vid) /\ Names(work[i].vid, work[i].prefix)
        BY <1>2, <4>1 DEF FramesNamed
      <4> QED BY <1>10, <4>1, <4>2, NamesStable
    <3>2. CASE i = n
      <4>1. work'[i].vid = top.vid /\ work'[i].prefix = top.prefix
        BY <1>3, <1>4, <3>2
      <4> QED BY <1>5, <1>10, <4>1, NamesStable
    <3>3. CASE i = n + 1
      <4>1. work'[i].vid = nextVid /\ work'[i].prefix = top.prefix + P
        BY <1>3, <1>4, <3>3
      <4> QED BY <1>9, <1>10, <4>1
    <3> QED BY <1>3, <3>1, <3>2, <3>3
  <2> QED BY <2>1 DEF FramesNamed, Minted, Names
<1>13. Aligned(work)'
  <2>1. ASSUME NEW i \in DOMAIN work'
        PROVE  \E r \in 0..M : work'[i].prefix = r * Pow2[work'[i].depth]
    <3>1. CASE i \in 1..(n - 1)
      <4>1. i \in DOMAIN work /\ work'[i] = work[i]
        BY <1>3, <3>1
      <4> QED BY <1>2, <4>1 DEF Aligned
    <3>2. CASE i = n
      <4>1. work'[i].prefix = (2 * q) * Pow2[work'[i].depth]
        BY <1>3, <1>4, <1>11, <3>2 DEF P
      <4> QED BY <1>11, <4>1
    <3>3. CASE i = n + 1
      <4>1. work'[i].prefix = (2 * q + 1) * Pow2[work'[i].depth]
        BY <1>3, <1>4, <1>11, <3>3 DEF P
      <4> QED BY <1>11, <4>1
    <3> QED BY <1>3, <3>1, <3>2, <3>3
  <2> QED BY <2>1 DEF Aligned
<1>14. DOMAIN fresh' = {nextVid} \cup DOMAIN fresh
  BY <1>1, WithDomain
<1>15. PlanHeld' /\ Walked'
  BY <1>1, <1>2, <1>14 DEF ValueInv, PlanHeld, Walked
<1>16. LeavesNamed(rederived)'
  BY <1>1, <1>10, RederivedStable DEF ValueInv
<1> QED BY <1>1, <1>10, <1>12, <1>13, <1>15, <1>16, PublicStable DEF ValueInv

(* The descent has reached the leaf.                                       *)
LEMMA DescendDoneValue == IInv /\ ValueInv /\ DescendDone => ValueInv'
<1> SUFFICES ASSUME IInv, ValueInv, DescendDone PROVE ValueInv'
  OBVIOUS
<1>1. /\ pc = "descend" /\ pc' = "run"
      /\ UNCHANGED <<public, nextVid, kind, work, fresh, rederived, history>>
  BY DEF DescendDone, walk
<1>2. kind = "prepare" /\ nextVid \in Nat
  BY <1>1 DEF IInv, Control, TypeOK
<1>3. Grows
  BY <1>1, <1>2, GrowsNot DEF history
<1>4. PlanHeld' /\ Walked'
  BY <1>1, <1>2 DEF ValueInv, PlanHeld, Walked
<1>5. /\ LeavesNamed(rederived)' /\ FramesNamed(work)' /\ Aligned(work)'
  BY <1>1, <1>3, RederivedStable, WorkStable DEF ValueInv
<1> QED BY <1>1, <1>3, <1>4, <1>5, PublicStable DEF ValueInv

(* What every operation leaves behind when it returns or raises.           *)
LEMMA ReturnValue ==
    ASSUME Return
    PROVE  /\ FramesNamed(work)' /\ Aligned(work)' /\ LeavesNamed(rederived)'
           /\ Walked' /\ PlanHeld'
<1>1. work' = << >> /\ rederived' = NoMap /\ pc' = "idle" /\ kind' = "none"
  BY DEF Return
<1>2. Walked'
  BY <1>1 DEF Walked
<1>3. PlanHeld'
  BY <1>1 DEF PlanHeld, NoMap
<1> QED BY <1>1, <1>2, <1>3, EmptyPlan

(* An exception, or an aborted run whose outputs may have been revealed.   *)
LEMMA FailsValue == IInv /\ ValueInv /\ (PlanFails \/ RunFails) => ValueInv'
<1> SUFFICES ASSUME IInv, ValueInv, PlanFails \/ RunFails PROVE ValueInv'
  OBVIOUS
<1>1. /\ Return /\ UNCHANGED <<public, nextVid, opened>>
      /\ seen' \in {seen, seen \cup Revealed}
  BY DEF PlanFails, RunFails, IdsAfterFailure, history
<1>2. nextVid \in Nat /\ nextRelease \in Nat /\ nextCommitment \in Nat
  BY PowerFacts DEF IInv, TypeOK
<1>3. Grows
  BY <1>1, <1>2, GrowsReturn
<1>4. UNCHANGED <<frames, masked, leaves, nextCommitment, nextRelease, secrets>>
  BY <1>1 DEF public
<1>5. MaskedSeen' /\ Handed'
  BY <1>1, <1>4 DEF ValueInv, MaskedSeen, Handed
<1>6. FramesNamed(frames)' /\ Aligned(frames)'
  BY <1>3, <1>4, FramesStable DEF ValueInv
<1>7. LeavesNamed(leaves)'
  BY <1>3, <1>4, LeavesStable DEF ValueInv
<1>8. OpenedNamed'
  BY <1>1, <1>2, <1>3, <1>4, OpenedStable DEF ValueInv
<1> QED BY <1>1, <1>5, <1>6, <1>7, <1>8, ReturnValue DEF ValueInv

(* A committed run makes public what it files as masked.                   *)
LEMMA CommitSeen ==
    ASSUME MaskedSeen, seen' = seen \cup Revealed,
           masked' \in {Updated(masked, fresh), fresh, NoMap}
    PROVE  MaskedSeen'
<1>1. \A v \in DOMAIN fresh : <<v, fresh[v]>> \in Revealed
  BY DEF Revealed
<1>2. CASE masked' = Updated(masked, fresh)
  BY <1>1, <1>2 DEF Updated, MaskedSeen
<1>3. CASE masked' = fresh
  BY <1>1, <1>3 DEF MaskedSeen
<1>4. CASE masked' = NoMap
  BY <1>4 DEF MaskedSeen, NoMap
<1> QED BY <1>2, <1>3, <1>4

(* The frontier a committed plan puts in place.                            *)
LEMMA WorkCommitted ==
    ASSUME Grows, FramesNamed(work), Aligned(work), frames' = work
    PROVE  FramesNamed(frames)' /\ Aligned(frames)'
BY NamesStable DEF FramesNamed, Names, Minted, Aligned

(* Committing the opening of the channel.                                  *)
LEMMA CommitInitValue == IInv /\ ValueInv /\ CommitInit => ValueInv'
<1> SUFFICES ASSUME IInv, ValueInv, CommitInit PROVE ValueInv'
  OBVIOUS
<1>1. /\ Return /\ pc = "run" /\ kind = "init"
      /\ masked' = Updated(masked, fresh) /\ frames' = frames \o work
      /\ seen' = seen \cup Revealed
      /\ UNCHANGED <<leaves, nextCommitment, nextRelease, secrets, nextVid, opened>>
  BY DEF CommitInit
<1>2. /\ nextVid \in Nat /\ nextRelease \in Nat /\ nextCommitment \in Nat
      /\ frames = << >> /\ work \in Seq(Frames)
  BY <1>1, PowerFacts DEF IInv, TypeOK, Control, Opened
<1>3. frames' = work
  BY <1>1, <1>2, ConcatEmptySeq
<1>4. Grows
  BY <1>1, <1>2, GrowsReturn
<1>5. MaskedSeen' /\ Handed'
  BY <1>1, CommitSeen DEF ValueInv, Handed
<1>6. FramesNamed(frames)' /\ Aligned(frames)'
  BY <1>3, <1>4, WorkCommitted DEF ValueInv
<1>7. LeavesNamed(leaves)'
  BY <1>1, <1>4, LeavesStable DEF ValueInv
<1>8. OpenedNamed'
  BY <1>1, <1>2, <1>4, OpenedStable DEF ValueInv
<1> QED BY <1>1, <1>5, <1>6, <1>7, <1>8, ReturnValue DEF ValueInv

(* Committing a restore: the pending leaves move to their new ids.         *)
LEMMA CommitRestoreValue ==
    IInv /\ ValueInv /\ (CommitRestore \/ CommitRestoreShort) => ValueInv'
<1> SUFFICES ASSUME IInv, ValueInv, CommitRestore \/ CommitRestoreShort PROVE ValueInv'
  OBVIOUS
<1>1. /\ Return /\ pc = "run" /\ kind = "restore"
      /\ masked' \in {Updated(masked, fresh), fresh, NoMap} /\ frames' = work
      /\ seen' = seen \cup Revealed
      /\ leaves' = leaves \/ leaves' = Updated(leaves, rederived)
      /\ UNCHANGED <<nextCommitment, nextRelease, secrets, nextVid, opened>>
  BY DEF CommitRestore, CommitRestoreShort, LeavesRestored
<1>2. nextVid \in Nat /\ nextRelease \in Nat /\ nextCommitment \in Nat
  BY PowerFacts DEF IInv, TypeOK
<1>3. Grows
  BY <1>1, <1>2, GrowsReturn
<1>4. MaskedSeen' /\ Handed'
  BY <1>1, CommitSeen DEF ValueInv, Handed
<1>5. FramesNamed(frames)' /\ Aligned(frames)'
  BY <1>1, <1>3, WorkCommitted DEF ValueInv
<1>6. LeavesNamed(leaves)'
  <2>1. CASE leaves' = leaves
    BY <1>3, <2>1, LeavesStable DEF ValueInv
  <2>2. CASE leaves' = Updated(leaves, rederived)
    <3>1. ASSUME NEW c \in DOMAIN leaves'
          PROVE  Minted(leaves'[c]) /\ Names(leaves'[c], IndexOf(c))
      <4>1. CASE c \in DOMAIN rederived
        <5>1. leaves'[c] = rederived[c]
          BY <2>2, <4>1 DEF Updated
        <5> QED BY <4>1, <5>1 DEF ValueInv, LeavesNamed
      <4>2. CASE c \notin DOMAIN rederived
        <5>1. c \in DOMAIN leaves /\ leaves'[c] = leaves[c]
          BY <2>2, <4>2 DEF Updated
        <5> QED BY <5>1 DEF ValueInv, LeavesNamed
      <4> QED BY <4>1, <4>2
    <3>2. ASSUME NEW c \in DOMAIN leaves'
          PROVE  /\ leaves'[c] \in 0..(nextVid' - 1)
                 /\ \A s \in Known' : s[1] = leaves'[c] => IsValueOf(s[2], IndexOf(c))
      BY <1>3, <3>1, NamesStable
    <3> QED BY <3>2 DEF LeavesNamed, Minted, Names, IndexOf
  <2> QED BY <1>1, <2>1, <2>2
<1>7. OpenedNamed'
  BY <1>1, <1>2, <1>3, OpenedStable DEF ValueInv
<1> QED BY <1>1, <1>4, <1>5, <1>6, <1>7, ReturnValue DEF ValueInv

(* Committing a prepare: the leaf is filed under its commitment number.    *)
LEMMA CommitPrepareValue == IInv /\ ValueInv /\ CommitPrepare => ValueInv'
<1> SUFFICES ASSUME IInv, ValueInv, CommitPrepare PROVE ValueInv'
  OBVIOUS
<1>1. /\ Return /\ pc = "run" /\ kind = "prepare"
      /\ leaves' = With(leaves, nextCommitment, Top(work).vid)
      /\ masked' = Updated(masked, fresh) /\ frames' = Pop(work)
      /\ nextCommitment' = nextCommitment + 1
      /\ seen' = seen \cup Revealed
      /\ UNCHANGED <<nextRelease, secrets, nextVid, opened>>
  BY DEF CommitPrepare
<1>2. /\ nextVid \in Nat /\ nextRelease \in Nat /\ nextCommitment \in Nat
      /\ work \in Seq(Frames) /\ work # << >> /\ FramesNamed(work) /\ Aligned(work)
      /\ Top(work).depth = 0
  BY <1>1, PowerFacts DEF IInv, TypeOK, WorkTiles, ValueInv
<1>3. Grows
  BY <1>1, <1>2, GrowsReturn
<1>4. /\ Len(work) \in Nat \ {0} /\ DOMAIN work = 1..Len(work)
      /\ Top(work) = work[Len(work)]
      /\ DOMAIN frames' = 1..(Len(work) - 1)
      /\ \A i \in 1..(Len(work) - 1) : frames'[i] = work[i]
  BY <1>1, <1>2, PopFacts DEF Top, Pop
<1>5. MaskedSeen' /\ Handed'
  BY <1>1, CommitSeen DEF ValueInv, Handed
<1>6. FramesNamed(frames)'
  <2>1. ASSUME NEW i \in DOMAIN frames'
        PROVE  /\ frames'[i].vid \in 0..(nextVid' - 1)
               /\ \A s \in Known' : s[1] = frames'[i].vid => IsValueOf(s[2], frames'[i].prefix)
    <3>1. i \in DOMAIN work /\ frames'[i] = work[i]
      BY <1>4
    <3>2. Minted(work[i].vid) /\ Names(work[i].vid, work[i].prefix)
      BY <1>2, <3>1 DEF FramesNamed
    <3> QED BY <1>3, <3>1, <3>2, NamesStable
  <2> QED BY <2>1 DEF FramesNamed, Minted, Names
<1>7. Aligned(frames)'
  BY <1>2, <1>4 DEF Aligned
<1>8. LeavesNamed(leaves)'
  <2>1. Minted(Top(work).vid) /\ Names(Top(work).vid, IndexOf(nextCommitment))
    <3>1. Top(work).prefix = IndexOf(nextCommitment)
      BY <1>1, <1>2, LeafIsNext
    <3>2. Len(work) \in DOMAIN work
      BY <1>4
    <3>3. Minted(Top(work).vid) /\ Names(Top(work).vid, Top(work).prefix)
      BY <1>2, <1>4, <3>2 DEF FramesNamed
    <3> QED BY <3>1, <3>3
  <2>2. ASSUME NEW c \in DOMAIN leaves'
        PROVE  Minted(leaves'[c]) /\ Names(leaves'[c], IndexOf(c))
    <3>1. CASE c = nextCommitment
      <4>1. leaves'[c] = Top(work).vid
        BY <1>1, <3>1 DEF With
      <4> QED BY <2>1, <3>1, <4>1
    <3>2. CASE c # nextCommitment
      <4>1. c \in DOMAIN leaves /\ leaves'[c] = leaves[c]
        BY <1>1, <3>2 DEF With
      <4> QED BY <4>1 DEF ValueInv, LeavesNamed
    <3> QED BY <3>1, <3>2
  <2>3. ASSUME NEW c \in DOMAIN leaves'
        PROVE  /\ leaves'[c] \in 0..(nextVid' - 1)
               /\ \A s \in Known' : s[1] = leaves'[c] => IsValueOf(s[2], IndexOf(c))
    BY <1>3, <2>2, NamesStable
  <2> QED BY <2>3 DEF LeavesNamed, Minted, Names, IndexOf
<1>9. OpenedNamed'
  BY <1>1, <1>2, <1>3, OpenedStable DEF ValueInv
<1> QED BY <1>1, <1>5, <1>6, <1>7, <1>8, <1>9, ReturnValue DEF ValueInv

(* What a release may ask for.                                             *)
LEMMA ReleasableFacts ==
    ASSUME NEW c \in 0..M, IInv, ValueInv, Releasable(c)
    PROVE  /\ c = nextRelease /\ c \in 0..(nextCommitment - 2)
           /\ nextRelease \in Nat /\ nextCommitment \in Nat
           /\ Minted(leaves[c]) /\ Names(leaves[c], IndexOf(c))
<1>1. c = nextRelease /\ c < nextCommitment - 1
  BY DEF Releasable
<1>2. nextRelease \in Nat /\ nextCommitment \in Nat
  BY PowerFacts DEF IInv, TypeOK
<1>3. c \in 0..(nextCommitment - 2) /\ c \in 0..(nextCommitment - 1)
  BY <1>1, <1>2
<1>4. c \in DOMAIN leaves
  BY <1>3 DEF IInv, TypeOK, DictsOK
<1> QED BY <1>1, <1>2, <1>3, <1>4 DEF ValueInv, LeavesNamed

(* A release opens the pad of a commitment whose turn has come, and hands  *)
(* over what is masked under it.                                           *)
LEMMA ReleaseValue ==
    ASSUME NEW c \in 0..M
    PROVE  IInv /\ ValueInv /\ (Release(c) \/ ReleaseFails(c)) => ValueInv'
<1> SUFFICES ASSUME IInv, ValueInv, Release(c) \/ ReleaseFails(c) PROVE ValueInv'
  OBVIOUS
<1>1. /\ Releasable(c) /\ opened' = opened \cup {leaves[c]}
      /\ nextRelease' \in {nextRelease, c + 1}
      /\ UNCHANGED <<frames, masked, leaves, nextCommitment, nextVid, pc, walk, seen>>
  BY DEF Release, ReleaseFails, public
<1>2. /\ c = nextRelease /\ c \in 0..(nextCommitment - 2)
      /\ nextRelease \in Nat /\ nextCommitment \in Nat
      /\ Minted(leaves[c]) /\ Names(leaves[c], IndexOf(c))
  BY <1>1, ReleasableFacts
<1>3. /\ nextVid \in Nat
      /\ UNCHANGED <<fresh, work, rederived, kind, target, cur, prefix, bit>>
      /\ pc = "idle" /\ pc' = "idle" /\ kind = "none"
      /\ nextRelease' \in Nat /\ nextRelease <= nextRelease' /\ c <= nextRelease'
  <2>1. pc = "idle"
    BY DEF Release, ReleaseFails
  <2> QED BY <1>1, <1>2, <2>1 DEF IInv, TypeOK, Control, walk
<1>4. Grows
  BY <1>1, <1>3, GrowsNot
<1>5. MaskedSeen' /\ FramesNamed(frames)' /\ Aligned(frames)' /\ LeavesNamed(leaves)'
  BY <1>1, <1>4, FramesStable, LeavesStable DEF ValueInv, MaskedSeen
<1>6. FramesNamed(work)' /\ Aligned(work)' /\ LeavesNamed(rederived)'
  BY <1>3, <1>4, WorkStable, RederivedStable DEF ValueInv
<1>7. Walked' /\ PlanHeld'
  BY <1>3 DEF ValueInv, Walked, PlanHeld
<1>8. OpenedNamed'
  <2>1. Known' = Known
    BY <1>1, <1>3 DEF Known, Revealed
  <2>2. ASSUME NEW v \in opened'
        PROVE  Minted(v) /\ \E d \in 0..(nextCommitment - 2) :
                               d <= nextRelease' /\ Names(v, IndexOf(d))
    <3>1. CASE v = leaves[c]
      BY <1>2, <1>3, <3>1
    <3>2. CASE v \in opened
      <4>1. Minted(v)
        BY <3>2 DEF ValueInv, OpenedNamed
      <4>2. PICK d \in 0..(nextCommitment - 2) : d <= nextRelease /\ Names(v, IndexOf(d))
        BY <3>2 DEF ValueInv, OpenedNamed
      <4>3. d <= nextRelease'
        BY <1>2, <1>3, <4>2
      <4> QED BY <4>1, <4>2, <4>3
    <3> QED BY <1>1, <3>1, <3>2
  <2> QED BY <1>1, <2>1, <2>2 DEF OpenedNamed, Minted, Names, IndexOf
<1>9. Handed'
  <2>1. CASE Release(c)
    <3>1. /\ leaves[c] \in DOMAIN masked /\ nextRelease' = c + 1
          /\ secrets' = Append(secrets, masked[leaves[c]])
      BY <2>1 DEF Release
    <3>2. <<leaves[c], masked[leaves[c]]>> \in Known
      BY <3>1 DEF ValueInv, MaskedSeen, Known
    <3>3. masked[leaves[c]] \in Seq(Bits)
      BY <1>2, <3>2 DEF Names, IsValueOf
    <3>4. secrets \in Seq(Seq(Bits)) /\ Len(secrets) = nextRelease
      BY DEF ValueInv, Handed
    <3>5. secrets' \in Seq(Seq(Bits)) /\ Len(secrets') = Len(secrets) + 1
      <4> DEFINE S == Seq(Bits)
                 x == masked[leaves[c]]
      <4>1. secrets \in Seq(S) /\ x \in S /\ secrets' = Append(secrets, x)
        BY <3>1, <3>3, <3>4
      <4> HIDE DEF S, x
      <4>2. secrets' \in Seq(S) /\ Len(secrets') = Len(secrets) + 1
        BY <4>1
      <4> QED BY <4>2 DEF S
    <3> QED BY <1>2, <3>1, <3>4, <3>5 DEF Handed
  <2>2. CASE ReleaseFails(c)
    BY <2>2 DEF ReleaseFails, public, ValueInv, Handed
  <2> QED BY <2>1, <2>2
<1> QED BY <1>5, <1>6, <1>7, <1>8, <1>9 DEF ValueInv

(* A step that changes nothing.                                            *)
LEMMA StutterValue == IInv /\ ValueInv /\ UNCHANGED vars => ValueInv'
<1> SUFFICES ASSUME IInv, ValueInv, UNCHANGED vars PROVE ValueInv'
  OBVIOUS
<1>1. UNCHANGED <<public, nextVid, pc, walk, history>>
  BY DEF vars
<1>2. UNCHANGED <<kind, target, bit, prefix, cur, work, fresh, rederived, seen>>
  BY <1>1 DEF walk, history
<1>3. nextVid \in Nat
  BY DEF IInv, TypeOK
<1>4. Grows
  BY <1>1, <1>2, <1>3, GrowsNot
<1>5. Walked' /\ PlanHeld'
  BY <1>1, <1>2 DEF ValueInv, Walked, PlanHeld, public
<1>6. FramesNamed(work)' /\ Aligned(work)' /\ LeavesNamed(rederived)'
  BY <1>2, <1>4, WorkStable, RederivedStable DEF ValueInv
<1> QED BY <1>1, <1>4, <1>5, <1>6, PublicStable DEF ValueInv

-----------------------------------------------------------------------------
(* What is public under an id, now or once the plan under construction is  *)
(* revealed, is the value BOLT #3 derives at the index the id is filed     *)
(* under: for every width, through every abort, retry and restore.         *)
THEOREM ValuesNamed == Spec => []FullInv
<1>1. Init => IInv /\ ValueInv
  BY InitInv, InitValue
<1>2. IInv /\ ValueInv /\ [Next]_vars => ValueInv'
  <2> SUFFICES ASSUME IInv, ValueInv, [Next]_vars PROVE ValueInv'
    OBVIOUS
  <2>1. CASE PlanInit \/ PlanRestore \/ PlanPrepare
    BY <2>1, PlanWalkValue, PlanPrepareValue
  <2>2. CASE WalkRight \/ WalkPast \/ WalkDone \/ RewalkDone
    BY <2>2, WalkRightValue, WalkPastValue, WalkDoneValue, RewalkDoneValue
  <2>3. CASE Descend \/ DescendDone
    BY <2>3, DescendValue, DescendDoneValue
  <2>4. CASE PlanFails \/ RunFails
    BY <2>4, FailsValue
  <2>5. CASE CommitInit \/ CommitPrepare \/ CommitRestore \/ CommitRestoreShort
    BY <2>5, CommitInitValue, CommitPrepareValue, CommitRestoreValue
  <2>6. CASE \E c \in 0..M : Release(c) \/ ReleaseFails(c)
    BY <2>6, ReleaseValue
  <2>7. CASE UNCHANGED vars
    BY <2>7, StutterValue
  <2> QED BY <2>1, <2>2, <2>3, <2>4, <2>5, <2>6, <2>7 DEF Next
<1> QED BY <1>1, <1>2, Invariance, PTL DEF Spec, FullInv

(* Different commitments derive in one direction only: the value of one    *)
(* index gives that of another only if the other index is not below it.    *)
LEMMA DerivesDown ==
    ASSUME NEW v, NEW i \in 0..M, NEW j \in 0..M, IsValueOf(v, i), Derives(v, j)
    PROVE  i <= j
<1>1. SetBits(i) \subseteq SetBits(j)
  BY DEF IsValueOf, GeneratesFromSeed, Derives
<1> QED BY <1>1, BitsOrder

(* The pads the members were asked to reveal, applied to everything that   *)
(* was ever public, give nothing from which a commitment that was not      *)
(* asked to be revoked can be derived: do_update's order of operations and *)
(* the ids of planner.py keep it so also after aborted runs and restores.  *)
THEOREM NothingRevealedEarly == Spec => []NothingEarly
<1>1. IInv /\ ValueInv => NothingEarly
  <2> SUFFICES ASSUME IInv, ValueInv, NEW s \in seen, s[1] \in opened, NEW c \in 0..M,
                      c > nextRelease \/ c >= nextCommitment - 1,
                      Derives(s[2], IndexOf(c))
               PROVE  FALSE
    BY DEF NothingEarly
  <2>1. PICK d \in 0..(nextCommitment - 2) : d <= nextRelease /\ Names(s[1], IndexOf(d))
    BY DEF ValueInv, OpenedNamed
  <2>2. nextCommitment \in 0..(M + 1) /\ nextRelease \in Nat /\ M \in Nat
    BY PowerFacts DEF IInv, TypeOK
  <2>3. c > d /\ d \in 0..M
    BY <2>1, <2>2
  <2>4. IsValueOf(s[2], IndexOf(d))
    BY <2>1 DEF Names, Known
  <2>5. IndexOf(d) \in 0..M /\ IndexOf(c) \in 0..M
    BY <2>2, <2>3 DEF IndexOf
  <2>6. IndexOf(d) <= IndexOf(c)
    BY <2>4, <2>5, DerivesDown
  <2> QED BY <2>2, <2>3, <2>6 DEF IndexOf
<1> QED BY <1>1, ValuesNamed, PTL DEF FullInv

-----------------------------------------------------------------------------
(* What the channel still needs is there. *)

(* A completed restore files everything under ids with masked values, be   *)
(* they lost before it or not.                                             *)
LEMMA RestoreKeeps ==
    ASSUME IInv, ValueInv, CommitRestore
    PROVE  Kept'
<1>1. /\ frames' = work /\ masked' = fresh /\ leaves' = Updated(leaves, rederived)
      /\ kind = "restore" /\ pc = "run" /\ kind' = "none"
      /\ UNCHANGED <<nextCommitment, nextRelease>>
  BY DEF CommitRestore, LeavesRestored, Return
<1>2. \A i \in DOMAIN frames' : frames'[i].vid \in DOMAIN masked'
  BY <1>1 DEF ValueInv, PlanHeld
<1>3. \A c \in nextRelease'..(nextCommitment' - 1) : leaves'[c] \in DOMAIN masked'
  BY <1>1 DEF ValueInv, PlanHeld, Updated
<1> QED BY <1>1, <1>2, <1>3 DEF Kept

(* With complete registers, whatever is filed has a masked value, and what *)
(* a plan holds can be loaded.                                             *)
LEMMA KeptStep ==
    ASSUME ~ShortRegisters
    PROVE  IInv /\ ValueInv /\ Kept /\ [Next]_vars => Kept'
<1> SUFFICES ASSUME IInv, ValueInv, Kept, [Next]_vars PROVE Kept'
  OBVIOUS
<1>0. /\ frames \in Seq(Frames) /\ work \in Seq(Frames) /\ nextCommitment \in 0..(M + 1)
      /\ nextRelease \in 0..nextCommitment /\ M \in Nat
  BY PowerFacts DEF IInv, TypeOK
<1>1. CASE PlanInit \/ PlanRestore
  BY <1>1 DEF PlanInit, PlanRestore, StartWalk, Kept, public
<1>2. CASE PlanPrepare
  BY <1>2 DEF PlanPrepare, Kept, Loadable, public
<1>3. CASE WalkRight \/ WalkPast
  BY <1>3 DEF WalkRight, WalkPast, Kept, public, IInv, Control
<1>4. CASE WalkDone \/ RewalkDone
  <2>1. kind' = kind /\ kind # "prepare" /\ UNCHANGED public
    BY <1>4 DEF WalkDone, RewalkDone, Rederive, StartWalk, IInv, Control
  <2> QED BY <2>1 DEF Kept, public
<1>5. CASE Descend
  <2>1. /\ kind = "prepare" /\ work # << >> /\ UNCHANGED public
        /\ work' = SplitTop(work, nextVid) /\ Loadable(Top(work).vid)
        /\ \E x : fresh' = With(fresh, nextVid, x)
    BY <1>5 DEF Descend, IInv, Control, WorkTiles
  <2>2. DOMAIN fresh' = {nextVid} \cup DOMAIN fresh
    BY <2>1, WithDomain
  <2>3. ASSUME NEW i \in DOMAIN work'
        PROVE  work'[i].vid \in DOMAIN fresh' \cup DOMAIN masked
    <3>1. /\ Len(work) \in Nat \ {0} /\ DOMAIN work = 1..Len(work)
          /\ DOMAIN work' = 1..(Len(work) + 1)
          /\ \A j \in 1..(Len(work) - 1) : work'[j] = work[j]
          /\ work'[Len(work)] = LeftHalf(Top(work))
          /\ work'[Len(work) + 1] = RightHalf(Top(work), nextVid)
      BY <1>0, <2>1, SplitElements
    <3>2. CASE i \in 1..(Len(work) - 1)
      <4>1. i \in DOMAIN work /\ work'[i] = work[i]
        BY <3>1, <3>2
      <4> QED BY <2>1, <2>2, <4>1 DEF Kept, Loadable
    <3>3. CASE i = Len(work)
      <4>1. work'[i].vid = Top(work).vid
        BY <3>1, <3>3 DEF LeftHalf, Frame
      <4> QED BY <2>1, <2>2, <4>1 DEF Loadable
    <3>4. CASE i = Len(work) + 1
      <4>1. work'[i].vid = nextVid
        BY <3>1, <3>4 DEF RightHalf, Frame
      <4> QED BY <2>2, <4>1
    <3> QED BY <3>1, <3>2, <3>3, <3>4
  <2> QED BY <2>1, <2>3 DEF Kept, Loadable, public
<1>6. CASE DescendDone
  BY <1>6 DEF DescendDone, Kept, Loadable, public, walk
<1>7. CASE PlanFails \/ RunFails
  BY <1>7 DEF PlanFails, RunFails, Return, Kept, public
<1>8. CASE CommitInit
  <2>1. /\ frames = << >> /\ frames' = frames \o work /\ masked' = Updated(masked, fresh)
        /\ kind' = "none" /\ kind = "init" /\ nextCommitment = 0
        /\ UNCHANGED <<nextCommitment, nextRelease, leaves>>
    BY <1>0, <1>8 DEF CommitInit, Return, IInv, Control, Opened
  <2>2. frames' = work
    BY <1>0, <2>1, ConcatEmptySeq
  <2>3. \A i \in DOMAIN work : work[i].vid \in DOMAIN fresh
    BY <2>1 DEF ValueInv, PlanHeld
  <2>4. DOMAIN masked' = DOMAIN masked \cup DOMAIN fresh
    BY <2>1, UpdatedDomain
  <2>5. nextRelease'..(nextCommitment' - 1) = {}
    BY <1>0, <2>1
  <2> QED BY <2>1, <2>2, <2>3, <2>4, <2>5 DEF Kept
<1>9. CASE CommitPrepare
  <2>1. /\ frames' = Pop(work) /\ masked' = Updated(masked, fresh) /\ kind = "prepare"
        /\ kind' = "none" /\ leaves' = With(leaves, nextCommitment, Top(work).vid)
        /\ nextCommitment' = nextCommitment + 1 /\ nextRelease' = nextRelease
        /\ work # << >>
    BY <1>9 DEF CommitPrepare, Return, IInv, WorkTiles
  <2>2. DOMAIN masked' = DOMAIN masked \cup DOMAIN fresh
    BY <2>1, UpdatedDomain
  <2>3. /\ Len(work) \in Nat \ {0} /\ DOMAIN work = 1..Len(work)
        /\ Top(work) = work[Len(work)]
        /\ DOMAIN frames' = 1..(Len(work) - 1)
        /\ \A i \in 1..(Len(work) - 1) : frames'[i] = work[i]
    BY <1>0, <2>1, PopFacts DEF Top, Pop
  <2>4. \A i \in DOMAIN work : work[i].vid \in DOMAIN masked'
    BY <2>1, <2>2 DEF Kept, Loadable
  <2>5. \A i \in DOMAIN frames' : frames'[i].vid \in DOMAIN masked'
    BY <2>3, <2>4
  <2>6. ASSUME NEW c \in nextRelease'..(nextCommitment' - 1)
        PROVE  leaves'[c] \in DOMAIN masked'
    <3>1. CASE c = nextCommitment
      <4>1. leaves'[c] = Top(work).vid
        BY <2>1, <3>1 DEF With
      <4> QED BY <2>3, <2>4, <4>1
    <3>2. CASE c # nextCommitment
      <4>1. c \in nextRelease..(nextCommitment - 1)
        BY <1>0, <2>1, <3>2
      <4>2. c \in 0..(nextCommitment - 1)
        BY <1>0, <4>1
      <4>3. leaves'[c] = leaves[c]
        BY <2>1, <3>2, <4>2 DEF IInv, TypeOK, DictsOK, With
      <4> QED BY <2>2, <4>1, <4>3 DEF Kept
    <3> QED BY <3>1, <3>2
  <2> QED BY <2>1, <2>5, <2>6 DEF Kept
<1>10. CASE CommitRestore
  BY <1>10, RestoreKeeps
<1>11. CASE CommitRestoreShort
  BY <1>11 DEF CommitRestoreShort
<1>12. CASE \E c \in 0..M : Release(c) \/ ReleaseFails(c)
  <2>1. PICK c \in 0..M : Release(c) \/ ReleaseFails(c)
    BY <1>12
  <2>2. /\ c = nextRelease /\ nextRelease' \in {nextRelease, c + 1} /\ kind = "none"
        /\ UNCHANGED <<frames, masked, leaves, nextCommitment, kind>>
    BY <2>1 DEF Release, ReleaseFails, Releasable, public, walk, IInv, Control
  <2>3. nextRelease'..(nextCommitment - 1) \subseteq nextRelease..(nextCommitment - 1)
    BY <1>0, <2>2
  <2> QED BY <2>2, <2>3 DEF Kept
<1>13. CASE UNCHANGED vars
  BY <1>13 DEF vars, public, walk, Kept, Loadable
<1> QED BY <1>1, <1>2, <1>3, <1>4, <1>5, <1>6, <1>7, <1>8, <1>9, <1>10, <1>11,
           <1>12, <1>13 DEF Next

(* What has a masked value has the value of its index.                     *)
LEMMA KeptRetained == IInv /\ ValueInv /\ Kept => Retained
<1> SUFFICES ASSUME IInv, ValueInv, Kept PROVE Retained
  OBVIOUS
<1>1. ASSUME NEW v \in DOMAIN masked, NEW index, Names(v, index)
      PROVE  Holds(v, index)
  <2>1. <<v, masked[v]>> \in Known
    BY DEF ValueInv, MaskedSeen, Known
  <2> QED BY <1>1, <2>1 DEF Names, IsValueOf, Holds
<1>2. \A i \in DOMAIN frames : Holds(frames[i].vid, frames[i].prefix)
  BY <1>1 DEF Kept, ValueInv, FramesNamed
<1>3. ASSUME NEW c \in nextRelease..(nextCommitment - 1)
      PROVE  Holds(leaves[c], IndexOf(c))
  <2>1. c \in DOMAIN leaves
    BY PowerFacts DEF IInv, TypeOK, DictsOK
  <2> QED BY <1>1, <2>1 DEF Kept, ValueInv, LeavesNamed
<1> QED BY <1>2, <1>3 DEF Retained

(* When runs return complete registers, every frame and every commitment   *)
(* not yet revoked has a masked value, the one BOLT #3 derives, however    *)
(* often the quorum aborted or restored (restore_plan).                    *)
THEOREM NothingLost == ~ShortRegisters => (Spec => []Retained)
<1> SUFFICES ASSUME ~ShortRegisters PROVE Spec => []Retained
  OBVIOUS
<1>1. Init => Kept
  <2> SUFFICES ASSUME Init PROVE Kept
    OBVIOUS
  <2>1. /\ DOMAIN frames = {} /\ nextRelease = 0 /\ nextCommitment = 0 /\ kind = "none"
    BY DEF Init
  <2> QED BY <2>1 DEF Kept
<1>2. IInv /\ ValueInv /\ Kept /\ [Next]_vars => Kept'
  BY KeptStep
<1>3. IInv /\ ValueInv /\ Kept => Retained
  BY KeptRetained
<1> QED BY <1>1, <1>2, <1>3, ValuesNamed, PTL DEF Spec, FullInv

(* A restore that completes repairs whatever state it found, also the half *)
(* erased one a short restore leaves (restore_plan's commit).              *)
THEOREM RestoresRepair == Spec => RestoreRepairs
<1>1. IInv /\ ValueInv /\ IInv' /\ ValueInv' /\ CommitRestore => Kept'
  BY RestoreKeeps
<1>2. IInv /\ ValueInv /\ Kept => Retained
  BY KeptRetained
<1>3. IInv' /\ ValueInv' /\ Kept' => Retained'
  BY <1>2, PTL
<1>4. IInv /\ ValueInv /\ IInv' /\ ValueInv' /\ [Next]_vars => [CommitRestore => Retained']_vars
  BY <1>1, <1>3
<1> QED BY <1>4, ValuesNamed, PTL DEF Spec, RestoreRepairs, FullInv

-----------------------------------------------------------------------------
(* The planner keeps the channel's promise. *)

(* Every step of the planner is a step of the promise, or none.            *)
LEMMA RevocationStep ==
    ASSUME IInv, ValueInv, [Next]_vars
    PROVE  [R!RevocationNext]_<<nextCommitment, secrets>>
<1>0. /\ nextCommitment \in 0..(M + 1) /\ nextRelease \in Nat /\ M \in Nat
      /\ work \in Seq(Frames) /\ secrets \in Seq(Seq(Bits)) /\ Len(secrets) = nextRelease
  BY PowerFacts DEF IInv, TypeOK, ValueInv, Handed
<1>1. CASE CommitPrepare
  <2>1. /\ pc = "run" /\ kind = "prepare" /\ nextCommitment' = nextCommitment + 1
        /\ secrets' = secrets
    BY <1>1 DEF CommitPrepare
  <2>2. work # << >> /\ Top(work).depth = 0
    BY <2>1 DEF IInv, WorkTiles
  <2>3. Top(work).prefix = M - nextCommitment /\ Top(work) \in Frames
    BY <1>0, <2>1, <2>2, LeafIsNext, PopFacts DEF IndexOf
  <2>4. Top(work).prefix >= 0
    BY <1>0, <2>3 DEF Frames
  <2>5. nextCommitment <= M
    BY <1>0, <2>3, <2>4
  <2> QED BY <2>1, <2>5 DEF R!RevocationNext, R!Publish, R!M, M
<1>2. CASE \E c \in 0..M : Release(c)
  <2>1. PICK c \in 0..M : Release(c)
    BY <1>2
  <2>2. /\ Releasable(c) /\ leaves[c] \in DOMAIN masked /\ nextCommitment' = nextCommitment
        /\ secrets' = Append(secrets, masked[leaves[c]])
    BY <2>1 DEF Release
  <2>3. /\ c = nextRelease /\ c < nextCommitment - 1
        /\ Names(leaves[c], IndexOf(c))
    BY <1>0, <2>2, ReleasableFacts
  <2>4. <<leaves[c], masked[leaves[c]]>> \in Known
    BY <2>2 DEF ValueInv, MaskedSeen, Known
  <2> DEFINE x == masked[leaves[c]]
             S == Seq(Bits)
  <2>5. x \in S /\ GeneratesFromSeed(x, IndexOf(c))
    BY <2>3, <2>4 DEF Names, IsValueOf
  <2>6. secrets \in Seq(S) /\ secrets' = Append(secrets, x)
    BY <1>0, <2>2
  <2> HIDE DEF x, S
  <2>7. /\ Len(secrets') = Len(secrets) + 1
        /\ secrets'[Len(secrets')] = x
        /\ SubSeq(secrets', 1, Len(secrets)) = secrets
    BY <2>5, <2>6
  <2>8. R!GeneratesFromSeed(secrets'[Len(secrets')], R!IndexOf(Len(secrets)))
    BY <1>0, <2>3, <2>5, <2>7 DEF R!GeneratesFromSeed, R!IndexOf, R!M, R!BitsOf,
         R!SetBits, R!Bits, R!BitSet, GeneratesFromSeed, IndexOf, M, BitsOf, SetBits,
         Bits, BitSet
  <2> QED BY <1>0, <2>2, <2>3, <2>7, <2>8 DEF R!RevocationNext, R!Revoke
<1>3. CASE \E c \in 0..M : ReleaseFails(c)
  BY <1>3 DEF ReleaseFails, public
<1>4. CASE PlanInit \/ PlanRestore \/ PlanPrepare \/ WalkRight \/ WalkPast
           \/ WalkDone \/ RewalkDone \/ Descend \/ DescendDone \/ PlanFails
  BY <1>4 DEF PlanInit, PlanRestore, PlanPrepare, WalkRight, WalkPast, WalkDone,
              RewalkDone, Descend, DescendDone, PlanFails, public
<1>5. CASE RunFails \/ CommitInit \/ CommitRestore \/ CommitRestoreShort
  BY <1>5 DEF RunFails, CommitInit, CommitRestore, CommitRestoreShort, public
<1>6. CASE UNCHANGED vars
  BY <1>6 DEF vars, public
<1> QED BY <1>1, <1>2, <1>3, <1>4, <1>5, <1>6 DEF Next

(* The planner implements the promise, for every width and through aborts, *)
(* restores and short restores alike: points are published in order, and   *)
(* secrets are handed over in order, behind the points, each the one       *)
(* BOLT #3 derives at its index.                                           *)
THEOREM PromiseKept == Spec => ImplementsRevocation
<1>1. Init => R!RevocationInit
  BY DEF Init, R!RevocationInit
<1>2. IInv /\ ValueInv /\ [Next]_vars => [R!RevocationNext]_<<nextCommitment, secrets>>
  BY RevocationStep
<1>3. R!revocationVars = <<nextCommitment, secrets>>
  BY DEF R!revocationVars
<1>4. Spec => [](IInv /\ ValueInv)
  BY ValuesNamed DEF FullInv
<1> QED BY <1>1, <1>2, <1>3, <1>4, PTL
        DEF Spec, ImplementsRevocation, R!RevocationSpec, R!revocationVars
=============================================================================
