--------------------------- MODULE CircuitProofs ---------------------------
(***************************************************************************)
(* Circuits on replicated shares, for words of any number of lanes and any *)
(* randomness.  Every gate that the three parties evaluate yields a        *)
(* sharing of its output.  The schedule holds every gate, after those that *)
(* its inputs come from; so the rounds of the schedule, evaluated on       *)
(* shares one after the other, yield what eval_clear does in the clear.    *)
(* The facts on numbers, sums and folds are used by the proofs of the      *)
(* modules that evaluate circuits.                                         *)
(***************************************************************************)
EXTENDS Circuit, FiniteSetTheorems, WellFoundedInduction, TLAPS

-----------------------------------------------------------------------------
(* Numbers. *)

(* Every set of natural numbers has a least one.                           *)
LEMMA LeastNumber ==
    ASSUME NEW S \in SUBSET Nat, S # {}
    PROVE  \E x \in S : \A y \in S : x <= y
<1> DEFINE R == {ss \in Nat \X Nat : ss[1] < ss[2]}
<1>1. IsWellFoundedOn(OpToRel(<, Nat), Nat)
  BY NatLessThanWellFounded
<1>2. R = OpToRel(<, Nat)
  BY DEF OpToRel
<1>3. IsWellFoundedOn(R, Nat)
  BY <1>1, <1>2
<1>4. PICK x \in S : \A y \in S : ~(<<y, x>> \in R)
  <2> HIDE DEF R
  <2> QED BY <1>3, WFMin
<1>5. ASSUME NEW y \in S PROVE x <= y
  <2>1. ~(<<y, x>> \in R)
    BY <1>4
  <2> QED BY <2>1 DEF R
<1> QED BY <1>5

(* Induction up to N: a set with 0 and, below N, with every successor.     *)
LEMMA UpTo ==
    ASSUME NEW N \in Nat, NEW S, 0 \in S, \A n \in 0..(N - 1) : n \in S => n + 1 \in S
    PROVE  \A n \in 0..N : n \in S
<1> DEFINE Bad == {n \in 0..N : n \notin S}
<1> SUFFICES ASSUME Bad # {} PROVE FALSE
  OBVIOUS
<1>1. PICK n \in Bad : \A y \in Bad : n <= y
  <2>1. Bad \in SUBSET Nat
    OBVIOUS
  <2> HIDE DEF Bad
  <2> QED BY <2>1, LeastNumber
<1>2. n \in 0..N /\ n \notin S /\ n # 0
  BY <1>1
<1>3. n - 1 \in 0..(N - 1) /\ n - 1 \in 0..N /\ (n - 1) + 1 = n /\ ~(n <= n - 1)
  BY <1>2
<1>4. n - 1 \in S
  BY <1>1, <1>3
<1> QED BY <1>2, <1>3, <1>4

-----------------------------------------------------------------------------
(* Sums.  A fold that adds up the numbers of the subsets of S, taking any  *)
(* number first.                                                           *)
Picked(T) == CHOOSE x \in T : TRUE
IsSum(f, S) ==
    /\ f = [T \in SUBSET S |-> f[T]]
    /\ \A T \in SUBSET S : f[T] = IF T = {} THEN 0 ELSE Picked(T) + f[T \ {Picked(T)}]

(* A property of the subsets of a finite set is shown for a smallest       *)
(* subset without it.                                                      *)
LEMMA SmallestSubset ==
    ASSUME NEW S, IsFiniteSet(S), NEW B \in SUBSET (SUBSET S), B # {}
    PROVE  \E T \in B : \A U \in B : Cardinality(T) <= Cardinality(U)
<1> DEFINE N == {Cardinality(T) : T \in B}
<1>1. \A T \in B : IsFiniteSet(T) /\ Cardinality(T) \in Nat
  BY FS_Subset, FS_CardinalityType
<1>2. PICK x \in N : \A y \in N : x <= y
  <2>1. N \in SUBSET Nat /\ N # {}
    BY <1>1
  <2> HIDE DEF N
  <2> QED BY <2>1, LeastNumber
<1> QED BY <1>2

(* A finite set is smaller without one of its elements.                    *)
LEMMA Smaller ==
    ASSUME NEW S, IsFiniteSet(S), NEW T \in SUBSET S, NEW y \in T
    PROVE  T \ {y} \in SUBSET S /\ Cardinality(T \ {y}) = Cardinality(T) - 1 /\ Cardinality(T) \in Nat
<1>1. IsFiniteSet(T)
  BY FS_Subset
<1> QED BY <1>1, FS_RemoveElement, FS_CardinalityType

(* A set that has elements has the one that is picked.                     *)
LEMMA PickedIn == \A T : T # {} => Picked(T) \in T
BY DEF Picked

(* There is such a fold: of the subsets up to a size, then of the next.    *)
LEMMA SumExists ==
    ASSUME NEW S, IsFiniteSet(S)
    PROVE  \E f : IsSum(f, S)
<1> DEFINE Upto(f, k) ==
             /\ f = [T \in SUBSET S |-> f[T]]
             /\ \A T \in SUBSET S : Cardinality(T) <= k =>
                    f[T] = IF T = {} THEN 0 ELSE Picked(T) + f[T \ {Picked(T)}]
           Good(k) == \E f : Upto(f, k)
           Bad == {k \in Nat : ~Good(k)}
<1>0. \A T \in SUBSET S : IsFiniteSet(T) /\ Cardinality(T) \in Nat /\ Cardinality(T) <= Cardinality(S)
  BY FS_Subset, FS_CardinalityType
<1>1. Good(0)
  <2> DEFINE f == [T \in SUBSET S |-> 0]
  <2>1. \A T \in SUBSET S : Cardinality(T) <= 0 => T = {}
    BY <1>0, FS_EmptySet
  <2>2. Upto(f, 0)
    BY <2>1
  <2> QED BY <2>2
<1>2. ASSUME NEW k \in Nat, Good(k) PROVE Good(k + 1)
  <2>1. PICK f : Upto(f, k)
    BY <1>2
  <2> DEFINE g == [T \in SUBSET S |->
                     IF Cardinality(T) <= k THEN f[T] ELSE Picked(T) + f[T \ {Picked(T)}]]
  <2>2. ASSUME NEW T \in SUBSET S, Cardinality(T) <= k + 1, T # {}
        PROVE  g[T] = Picked(T) + g[T \ {Picked(T)}]
    <3>1. Picked(T) \in T
      BY <2>2, PickedIn
    <3>2. /\ T \ {Picked(T)} \in SUBSET S /\ Cardinality(T \ {Picked(T)}) = Cardinality(T) - 1
          /\ Cardinality(T) \in Nat
      BY <3>1, Smaller
    <3>3. g[T \ {Picked(T)}] = f[T \ {Picked(T)}]
      BY <2>2, <3>2
    <3> QED BY <2>1, <2>2, <3>3
  <2>3. g[{}] = 0
    <3>1. {} \in SUBSET S /\ Cardinality({}) = 0 /\ 0 <= k
      BY FS_EmptySet
    <3> QED BY <2>1, <3>1
  <2>4. g = [T \in SUBSET S |-> g[T]]
    OBVIOUS
  <2> HIDE DEF g
  <2>5. Upto(g, k + 1)
    BY <2>2, <2>3, <2>4
  <2> QED BY <2>5
<1>3. Bad = {}
  <2> SUFFICES ASSUME Bad # {} PROVE FALSE
    OBVIOUS
  <2>1. PICK k \in Bad : \A j \in Bad : k <= j
    <3>1. Bad \in SUBSET Nat
      OBVIOUS
    <3> HIDE DEF Bad
    <3> QED BY <3>1, LeastNumber
  <2> HIDE DEF Good
  <2>2. k \in Nat /\ ~Good(k) /\ k # 0
    BY <1>1, <2>1
  <2>3. k - 1 \in Nat /\ k - 1 \notin Bad /\ (k - 1) + 1 = k
    BY <2>1, <2>2
  <2>4. Good(k - 1)
    BY <2>3
  <2> QED BY <1>2, <2>2, <2>3, <2>4
<1>4. Cardinality(S) \in Nat
  BY FS_CardinalityType
<1>5. PICK f : Upto(f, Cardinality(S))
  <2>1. Good(Cardinality(S))
    <3> HIDE DEF Good
    <3> QED BY <1>3, <1>4
  <2> QED BY <2>1
<1>6. IsSum(f, S)
  BY <1>0, <1>5 DEF IsSum
<1> QED BY <1>6

(* SumSet is such a fold.                                                  *)
LEMMA SumSetFold ==
    ASSUME NEW S, IsFiniteSet(S)
    PROVE  \E f : IsSum(f, S) /\ SumSet(S) = f[S]
<1> DEFINE F == CHOOSE f : f = [T \in SUBSET S |->
                    IF T = {} THEN 0 ELSE (CHOOSE x \in T : TRUE) + f[T \ {CHOOSE x \in T : TRUE}]]
<1>1. IsSum(F, S)
  <2>1. PICK g : IsSum(g, S)
    BY SumExists
  <2>2. g = [T \in SUBSET S |->
                IF T = {} THEN 0 ELSE (CHOOSE x \in T : TRUE) + g[T \ {CHOOSE x \in T : TRUE}]]
    BY <2>1 DEF IsSum, Picked
  <2>3. F = [T \in SUBSET S |->
                IF T = {} THEN 0 ELSE (CHOOSE x \in T : TRUE) + F[T \ {CHOOSE x \in T : TRUE}]]
    BY <2>2
  <2> HIDE DEF F
  <2> QED BY <2>3 DEF IsSum, Picked
<1>2. SumSet(S) = F[S]
  BY DEF SumSet, FoldSet, MapThenFoldSet
<1> QED BY <1>1, <1>2

(* Such a fold may take any number first.                                  *)
LEMMA SumTakes ==
    ASSUME NEW S \in SUBSET Nat, IsFiniteSet(S), NEW f, IsSum(f, S)
    PROVE  \A T \in SUBSET S : f[T] \in Nat /\ \A y \in T : f[T] = y + f[T \ {y}]
<1> DEFINE Fine(T) == f[T] \in Nat /\ \A y \in T : f[T] = y + f[T \ {y}]
           Bad == {T \in SUBSET S : ~Fine(T)}
<1> SUFFICES ASSUME Bad # {} PROVE FALSE
  OBVIOUS
<1>1. PICK T \in Bad : \A U \in Bad : Cardinality(T) <= Cardinality(U)
  <2>1. Bad \in SUBSET (SUBSET S)
    OBVIOUS
  <2> HIDE DEF Bad
  <2> QED BY <2>1, SmallestSubset
<1>2. ASSUME NEW y \in T PROVE T \ {y} \in SUBSET S /\ Fine(T \ {y})
  <2>1. T \ {y} \in SUBSET S /\ Cardinality(T \ {y}) = Cardinality(T) - 1 /\ Cardinality(T) \in Nat
    BY <1>1, Smaller
  <2>2. ~(Cardinality(T) <= Cardinality(T \ {y}))
    BY <2>1
  <2> HIDE DEF Fine
  <2> QED BY <1>1, <2>1, <2>2
<1>3. T # {}
  <2>1. f[{}] = 0
    BY DEF IsSum
  <2>2. Fine({})
    BY <2>1
  <2>3. ~Fine(T)
    BY <1>1
  <2> HIDE DEF Fine
  <2> QED BY <2>2, <2>3
<1> DEFINE x == Picked(T)
<1>4. x \in T /\ x \in Nat /\ f[T] = x + f[T \ {x}]
  BY <1>1, <1>3, PickedIn DEF IsSum
<1> HIDE DEF x
<1>5. f[T \ {x}] \in Nat
  BY <1>2, <1>4
<1>6. ASSUME NEW y \in T, y # x PROVE f[T] = y + f[T \ {y}]
  <2>1. y \in T \ {x} /\ x \in T \ {y} /\ (T \ {x}) \ {y} = (T \ {y}) \ {x} /\ y \in Nat
    BY <1>1, <1>4, <1>6
  <2>2. f[T \ {x}] = y + f[(T \ {x}) \ {y}]
    BY <1>2, <1>4, <2>1
  <2>3. f[T \ {y}] = x + f[(T \ {y}) \ {x}] /\ f[T \ {y}] \in Nat
    BY <1>2, <2>1
  <2>4. (T \ {x}) \ {y} \in SUBSET S
    BY <1>1
  <2>5. f[(T \ {x}) \ {y}] \in Nat
    <3>1. IsFiniteSet(T \ {x})
      BY <1>1, FS_Subset
    <3>2. Cardinality((T \ {x}) \ {y}) = Cardinality(T \ {x}) - 1 /\ Cardinality(T \ {x}) \in Nat
          /\ Cardinality(T \ {x}) = Cardinality(T) - 1 /\ Cardinality(T) \in Nat
      <4>1. T \in SUBSET S /\ T \ {x} \in SUBSET S
        BY <1>1
      <4>2. Cardinality(T \ {x}) = Cardinality(T) - 1 /\ Cardinality(T) \in Nat
        BY <1>4, <4>1, Smaller
      <4> QED BY <2>1, <4>1, <4>2, Smaller
    <3>3. ~(Cardinality(T) <= Cardinality((T \ {x}) \ {y}))
      BY <3>2
    <3> HIDE DEF Fine
    <3>4. Fine((T \ {x}) \ {y})
      BY <1>1, <2>4, <3>3
    <3> QED BY <3>4 DEF Fine
  <2> QED BY <1>4, <2>1, <2>2, <2>3, <2>5
<1>7. f[T] \in Nat /\ \A y \in T : f[T] = y + f[T \ {y}]
  <2>1. f[T] \in Nat
    BY <1>4, <1>5
  <2>2. ASSUME NEW y \in T PROVE f[T] = y + f[T \ {y}]
    <3>1. CASE y = x
      BY <1>4, <3>1
    <3> QED BY <1>6, <3>1
  <2> QED BY <2>1, <2>2
<1>8. ~Fine(T)
  BY <1>1
<1> QED BY <1>7, <1>8

(* Folds over two sets agree on what is a subset of both.                  *)
LEMMA SumAgrees ==
    ASSUME NEW S, NEW R, IsFiniteSet(S), R \in SUBSET S, NEW f, NEW g, IsSum(f, S), IsSum(g, R)
    PROVE  \A T \in SUBSET R : f[T] = g[T]
<1> DEFINE Bad == {T \in SUBSET R : f[T] # g[T]}
<1> SUFFICES ASSUME Bad # {} PROVE FALSE
  OBVIOUS
<1>0. IsFiniteSet(R)
  BY FS_Subset
<1>1. PICK T \in Bad : \A U \in Bad : Cardinality(T) <= Cardinality(U)
  <2>1. Bad \in SUBSET (SUBSET R)
    OBVIOUS
  <2> HIDE DEF Bad
  <2> QED BY <1>0, <2>1, SmallestSubset
<1>2. T \in SUBSET S
  BY <1>1
<1>3. T # {}
  BY <1>1, <1>2 DEF IsSum
<1>4. Picked(T) \in T
  BY <1>3, PickedIn
<1>5. f[T \ {Picked(T)}] = g[T \ {Picked(T)}]
  <2>1. T \ {Picked(T)} \in SUBSET R /\ Cardinality(T \ {Picked(T)}) = Cardinality(T) - 1 /\ Cardinality(T) \in Nat
    BY <1>0, <1>1, <1>4, Smaller
  <2>2. ~(Cardinality(T) <= Cardinality(T \ {Picked(T)}))
    BY <2>1
  <2> QED BY <1>1, <2>1, <2>2
<1>6. f[T] = Picked(T) + f[T \ {Picked(T)}]
  BY <1>2, <1>3 DEF IsSum
<1>7. g[T] = Picked(T) + g[T \ {Picked(T)}]
  BY <1>1, <1>3 DEF IsSum
<1> QED BY <1>1, <1>5, <1>6, <1>7

(* What one more number adds to a sum.                                     *)
LEMMA SumAdds ==
    ASSUME NEW S \in SUBSET Nat, IsFiniteSet(S), NEW x \in Nat \ S
    PROVE  SumSet(S \cup {x}) = SumSet(S) + x /\ SumSet(S) \in Nat
<1> DEFINE R == S \cup {x}
<1>1. IsFiniteSet(R) /\ R \in SUBSET Nat /\ S \in SUBSET R /\ R \ {x} = S /\ x \in R
  BY FS_AddElement
<1>2. PICK f : IsSum(f, R) /\ SumSet(R) = f[R]
  BY <1>1, SumSetFold
<1>3. PICK g : IsSum(g, S) /\ SumSet(S) = g[S]
  BY SumSetFold
<1> HIDE DEF R
<1>4. f[R] = x + f[S]
  BY <1>1, <1>2, SumTakes
<1>5. f[S] = g[S]
  BY <1>1, <1>2, <1>3, SumAgrees
<1>6. g[S] \in Nat
  BY <1>3, SumTakes
<1> QED BY <1>2, <1>3, <1>4, <1>5, <1>6 DEF R

(* Nothing adds up to zero.                                                *)
LEMMA SumNone == SumSet({}) = 0
<1>1. PICK f : IsSum(f, {}) /\ SumSet({}) = f[{}]
  BY FS_EmptySet, SumSetFold
<1> QED BY <1>1 DEF IsSum

-----------------------------------------------------------------------------
(* Shared words. *)

(* The word whose three components are c[1], c[2], c[3].                   *)
Whole(c) == c[1] ## c[2] ## c[3]

(* Wire w is shared with components c: each party has its pair.            *)
Shares(tapes, w, c) == \A p \in Parties : tapes[p][w] = Replicated(c)[p]

(* The pairs of the three parties, written out.                            *)
LEMMA Pairs ==
    ASSUME NEW c
    PROVE  /\ Replicated(c)[0] = <<c[1], c[2]>>
           /\ Replicated(c)[1] = <<c[2], c[3]>>
           /\ Replicated(c)[2] = <<c[3], c[1]>>
BY DEF Replicated, Parties, NextOf

(* The pairs that the parties hold of a shared wire.                       *)
LEMMA SharedPairs ==
    ASSUME NEW tapes, NEW w, NEW c, Shares(tapes, w, c)
    PROVE  /\ tapes[0][w] = <<c[1], c[2]>>
           /\ tapes[1][w] = <<c[2], c[3]>>
           /\ tapes[2][w] = <<c[3], c[1]>>
<1>1. 0 \in Parties /\ 1 \in Parties /\ 2 \in Parties
  BY DEF Parties
<1>2. /\ tapes[0][w] = Replicated(c)[0]
      /\ tapes[1][w] = Replicated(c)[1]
      /\ tapes[2][w] = Replicated(c)[2]
  BY <1>1, Zenon DEF Shares
<1> QED BY <1>2, Pairs

(* XOR, lane by lane.                                                      *)
LEMMA InSymDiff ==
    ASSUME NEW a, NEW b, NEW l
    PROVE  l \in (a ## b) <=> ((l \in a /\ l \notin b) \/ (l \notin a /\ l \in b))
BY DEF ##, SymDiff

(* The three parties' products add up to the AND of the shared words, in   *)
(* every lane; the zero shares, each half of which two parties have drawn, *)
(* cancel (SemiParty::eval_circuit, engine.rs:201).                        *)
THEOREM ProductsAddUp ==
    ASSUME NEW tapes, NEW g, NEW x, NEW y, NEW stream, NEW n,
           Shares(tapes, g.left, x), Shares(tapes, g.right, y)
    PROVE  Product(g, tapes[0], ZeroWord(stream, 0, n))
             ## Product(g, tapes[1], ZeroWord(stream, 1, n))
             ## Product(g, tapes[2], ZeroWord(stream, 2, n))
           = Whole(x) \cap Whole(y)
<1> DEFINE z(k) == stream[k][n]
           r(p) == Product(g, tapes[p], ZeroWord(stream, p, n))
           X(i) == x[i]
           Y(i) == y[i]
<1>1. /\ ZeroWord(stream, 0, n) = z(2) ## z(0)
      /\ ZeroWord(stream, 1, n) = z(0) ## z(1)
      /\ ZeroWord(stream, 2, n) = z(1) ## z(2)
  BY DEF ZeroWord, Halves, PrevOf
<1>2. /\ tapes[0][g.left] = <<X(1), X(2)>> /\ tapes[0][g.right] = <<Y(1), Y(2)>>
      /\ tapes[1][g.left] = <<X(2), X(3)>> /\ tapes[1][g.right] = <<Y(2), Y(3)>>
      /\ tapes[2][g.left] = <<X(3), X(1)>> /\ tapes[2][g.right] = <<Y(3), Y(1)>>
  <2>1. /\ tapes[0][g.left] = <<X(1), X(2)>>
        /\ tapes[1][g.left] = <<X(2), X(3)>>
        /\ tapes[2][g.left] = <<X(3), X(1)>>
    BY SharedPairs
  <2>2. /\ tapes[0][g.right] = <<Y(1), Y(2)>>
        /\ tapes[1][g.right] = <<Y(2), Y(3)>>
        /\ tapes[2][g.right] = <<Y(3), Y(1)>>
    BY SharedPairs
  <2> QED BY <2>1, <2>2
<1>3. /\ r(0) = (X(1) \cap Y(1)) ## (X(1) \cap Y(2)) ## (X(2) \cap Y(1)) ## (z(2) ## z(0))
      /\ r(1) = (X(2) \cap Y(2)) ## (X(2) \cap Y(3)) ## (X(3) \cap Y(2)) ## (z(0) ## z(1))
      /\ r(2) = (X(3) \cap Y(3)) ## (X(3) \cap Y(1)) ## (X(1) \cap Y(3)) ## (z(1) ## z(2))
  BY <1>1, <1>2 DEF Product
<1>4. Whole(x) = X(1) ## X(2) ## X(3) /\ Whole(y) = Y(1) ## Y(2) ## Y(3)
  BY DEF Whole
<1> HIDE DEF z, r, X, Y
<1>5. ASSUME NEW l
      PROVE  l \in (r(0) ## r(1) ## r(2)) <=> l \in Whole(x) /\ l \in Whole(y)
  BY <1>3, <1>4, InSymDiff
<1>6. r(0) ## r(1) ## r(2) = Whole(x) \cap Whole(y)
  BY <1>5
<1> QED BY <1>6 DEF r

(* A party's first component of an AND, and what its next party sends as   *)
(* the second one, are its pair of one sharing (engine.rs:202-213).        *)
THEOREM ResharingIsReplicated ==
    ASSUME NEW r, NEW p \in Parties
    PROVE  <<r[p], r[NextOf(p)]>> = Replicated(<<r[0], r[1], r[2]>>)[p]
<1>1. /\ Replicated(<<r[0], r[1], r[2]>>)[0] = <<r[0], r[1]>>
      /\ Replicated(<<r[0], r[1], r[2]>>)[1] = <<r[1], r[2]>>
      /\ Replicated(<<r[0], r[1], r[2]>>)[2] = <<r[2], r[0]>>
  <2> DEFINE c == <<r[0], r[1], r[2]>>
  <2>1. c[1] = r[0] /\ c[2] = r[1] /\ c[3] = r[2]
    OBVIOUS
  <2> HIDE DEF c
  <2>2. /\ Replicated(c)[0] = <<r[0], r[1]>>
        /\ Replicated(c)[1] = <<r[1], r[2]>>
        /\ Replicated(c)[2] = <<r[2], r[0]>>
    BY <2>1, Pairs
  <2> QED BY <2>2 DEF c
<1>2. NextOf(0) = 1 /\ NextOf(1) = 2 /\ NextOf(2) = 0
  BY DEF NextOf
<1>3. p = 0 \/ p = 1 \/ p = 2
  BY DEF Parties
<1>4. CASE p = 0
  BY <1>1, <1>2, <1>4
<1>5. CASE p = 1
  BY <1>1, <1>2, <1>5
<1>6. CASE p = 2
  BY <1>1, <1>2, <1>6
<1> QED BY <1>3, <1>4, <1>5, <1>6

(* Two words of components, and a word and a constant, add up componentwise. *)
LEMMA WholeXor ==
    ASSUME NEW x, NEW y
    PROVE  Whole(<<x[1] ## y[1], x[2] ## y[2], x[3] ## y[3]>>) = Whole(x) ## Whole(y)
<1> DEFINE left == (x[1] ## y[1]) ## (x[2] ## y[2]) ## (x[3] ## y[3])
           right == (x[1] ## x[2] ## x[3]) ## (y[1] ## y[2] ## y[3])
<1>1. ASSUME NEW l PROVE l \in left <=> l \in right
  BY InSymDiff
<1>2. left = right
  <2> HIDE DEF left, right
  <2> QED BY <1>1 DEF left, right, ##, SymDiff
<1> QED BY <1>2 DEF Whole

(* A NOT changes one component, and so the word.                           *)
LEMMA WholeNot ==
    ASSUME NEW x, NEW all
    PROVE  Whole(<<x[1] ## all, x[2] ## {}, x[3] ## {}>>) = Whole(x) ## all
<1> DEFINE left == (x[1] ## all) ## (x[2] ## {}) ## (x[3] ## {})
           right == (x[1] ## x[2] ## x[3]) ## all
<1>1. ASSUME NEW l PROVE l \in left <=> l \in right
  BY InSymDiff
<1>2. left = right
  <2> HIDE DEF left, right
  <2> QED BY <1>1 DEF left, right, ##, SymDiff
<1> QED BY <1>2 DEF Whole

(* XOR and NOT need no messages: what the parties compute alone shares the *)
(* right word again (local_gate, engine.rs:101).                           *)
THEOREM XorRight ==
    ASSUME NEW tapes, NEW g, NEW x, NEW y, NEW all, g.op = "xor",
           Shares(tapes, g.left, x), Shares(tapes, g.right, y)
    PROVE  \E out : /\ Whole(out) = Whole(x) ## Whole(y)
                    /\ \A p \in Parties : LocalValue(p, g, tapes[p], all) = Replicated(out)[p]
<1> DEFINE out == <<x[1] ## y[1], x[2] ## y[2], x[3] ## y[3]>>
<1>1. out[1] = x[1] ## y[1] /\ out[2] = x[2] ## y[2] /\ out[3] = x[3] ## y[3]
  OBVIOUS
<1>2. Whole(out) = Whole(x) ## Whole(y)
  BY WholeXor
<1> HIDE DEF out
<1>3. /\ Replicated(out)[0] = <<x[1] ## y[1], x[2] ## y[2]>>
      /\ Replicated(out)[1] = <<x[2] ## y[2], x[3] ## y[3]>>
      /\ Replicated(out)[2] = <<x[3] ## y[3], x[1] ## y[1]>>
  BY <1>1, Pairs
<1>4. /\ tapes[0][g.left] = <<x[1], x[2]>>
      /\ tapes[1][g.left] = <<x[2], x[3]>>
      /\ tapes[2][g.left] = <<x[3], x[1]>>
  BY SharedPairs
<1>5. /\ tapes[0][g.right] = <<y[1], y[2]>>
      /\ tapes[1][g.right] = <<y[2], y[3]>>
      /\ tapes[2][g.right] = <<y[3], y[1]>>
  BY SharedPairs
<1>6. /\ LocalValue(0, g, tapes[0], all) = <<x[1] ## y[1], x[2] ## y[2]>>
      /\ LocalValue(1, g, tapes[1], all) = <<x[2] ## y[2], x[3] ## y[3]>>
      /\ LocalValue(2, g, tapes[2], all) = <<x[3] ## y[3], x[1] ## y[1]>>
  BY <1>4, <1>5 DEF LocalValue, PairXor
<1>7. \A p \in Parties : LocalValue(p, g, tapes[p], all) = Replicated(out)[p]
  BY <1>3, <1>6 DEF Parties
<1> QED BY <1>2, <1>7

(* The constant of a NOT is in one component, so it is added once.         *)
THEOREM NotRight ==
    ASSUME NEW tapes, NEW g, NEW x, NEW all, g.op = "inv", Shares(tapes, g.left, x)
    PROVE  \E out : /\ Whole(out) = Whole(x) ## all
                    /\ \A p \in Parties : LocalValue(p, g, tapes[p], all) = Replicated(out)[p]
<1> DEFINE out == <<x[1] ## all, x[2] ## {}, x[3] ## {}>>
<1>1. out[1] = x[1] ## all /\ out[2] = x[2] ## {} /\ out[3] = x[3] ## {}
  OBVIOUS
<1>2. Whole(out) = Whole(x) ## all
  BY WholeNot
<1> HIDE DEF out
<1>3. /\ Replicated(out)[0] = <<x[1] ## all, x[2] ## {}>>
      /\ Replicated(out)[1] = <<x[2] ## {}, x[3] ## {}>>
      /\ Replicated(out)[2] = <<x[3] ## {}, x[1] ## all>>
  BY <1>1, Pairs
<1>4. /\ tapes[0][g.left] = <<x[1], x[2]>>
      /\ tapes[1][g.left] = <<x[2], x[3]>>
      /\ tapes[2][g.left] = <<x[3], x[1]>>
  BY SharedPairs
<1>5. /\ LocalValue(0, g, tapes[0], all) = <<x[1] ## all, x[2] ## {}>>
      /\ LocalValue(1, g, tapes[1], all) = <<x[2] ## {}, x[3] ## {}>>
      /\ LocalValue(2, g, tapes[2], all) = <<x[3] ## {}, x[1] ## all>>
  BY <1>4 DEF LocalValue, PairXor, PublicPair
<1>6. \A p \in Parties : LocalValue(p, g, tapes[p], all) = Replicated(out)[p]
  BY <1>3, <1>5 DEF Parties
<1> QED BY <1>2, <1>6
-----------------------------------------------------------------------------
(* Circuit folds over sequences: gates over a tape, over a table, over the *)
(* rounds wires are available after, into a lane of the schedule, and      *)
(* sizes into their sum.  The folds are told apart by name; a is what else *)
(* a fold uses, the sequence first.                                        *)

GateValue(kind, a, g, t) ==
    IF kind = "local" THEN LocalValue(a.p, g, t, a.all)
    ELSE IF kind = "clear" THEN ClearValue(g, t, a.all)
    ELSE AvailableAt(t, g)

FoldStep(kind, a, t, i) ==
    IF kind = "total" THEN t + a.seq[i]
    ELSE IF kind = "lane"
      THEN IF Belongs(a.seq[i], a.avail, a.r, a.ands) THEN Append(t, a.seq[i]) ELSE t
    ELSE [t EXCEPT ![a.seq[i].out] = GateValue(kind, a, a.seq[i], t)]

(* The fold over the places of the sequence: the value for a set of places *)
(* is that for all but the last, and the last one's step.                  *)
IsFold(f, kind, a, t, n) ==
    f = [s \in SUBSET (1..n) |->
            IF s = {} THEN t ELSE FoldStep(kind, a, f[s \ {Max(s)}], Max(s))]

(* The same fold as a run: its values after 0, 1, ... n steps.             *)
Runs(h, kind, a, t, n) ==
    /\ h[0] = t
    /\ \A k \in 0..(n - 1) : h[k + 1] = FoldStep(kind, a, h[k], k + 1)

(* The largest number of a set of numbers that has n as its bound.         *)
LEMMA MaxIsBound ==
    ASSUME NEW n \in Nat, NEW s \in SUBSET (1..n), n \in s
    PROVE  Max(s) = n
<1>1. \A y \in s : n >= y
  OBVIOUS
<1>2. \A x \in s : (\A y \in s : x >= y) => x = n
  OBVIOUS
<1> QED BY <1>1, <1>2 DEF Max

(* Such a fold exists, whatever the steps are: for numbers up to k, by     *)
(* the least k for which it would not.                                     *)
LEMMA FoldExists ==
    ASSUME NEW kind, NEW a, NEW t, NEW n \in Nat
    PROVE  \E f : IsFold(f, kind, a, t, n)
<1> DEFINE Good(k) == \E f : IsFold(f, kind, a, t, k)
           Bad == {k \in Nat : ~Good(k)}
<1>1. Good(0)
  <2> DEFINE f == [s \in SUBSET (1..0) |-> t]
  <2>1. 1..0 = {}
    OBVIOUS
  <2>2. f = [s \in SUBSET (1..0) |->
               IF s = {} THEN t ELSE FoldStep(kind, a, f[s \ {Max(s)}], Max(s))]
    BY <2>1
  <2> QED BY <2>2 DEF IsFold
<1>2. ASSUME NEW k \in Nat, Good(k) PROVE Good(k + 1)
  <2>1. PICK f : IsFold(f, kind, a, t, k)
    BY <1>2
  <2> DEFINE K == k + 1
             g == [s \in SUBSET (1..K) |->
                     IF K \in s THEN FoldStep(kind, a, f[s \ {K}], K) ELSE f[s]]
             Next1(s) == IF s = {} THEN t
                         ELSE FoldStep(kind, a, g[s \ {Max(s)}], Max(s))
  <2>2. K \in Nat /\ \A s \in SUBSET (1..k) : K \notin s /\ s \in SUBSET (1..K)
    OBVIOUS
  <2>3. ASSUME NEW s \in SUBSET (1..k) PROVE g[s] = f[s]
    BY <2>2
  <2>4. ASSUME NEW s \in SUBSET (1..K) PROVE g[s] = Next1(s)
    <3>1. CASE K \in s
      <4>1. Max(s) = K
        BY <2>2, <3>1, MaxIsBound
      <4>2. s \ {K} \in SUBSET (1..k)
        OBVIOUS
      <4>3. g[s \ {K}] = f[s \ {K}]
        BY <2>3, <4>2
      <4>4. g[s] = FoldStep(kind, a, f[s \ {K}], K)
        BY <3>1
      <4> HIDE DEF g
      <4> QED BY <3>1, <4>1, <4>3, <4>4
    <3>2. CASE K \notin s
      <4>1. s \in SUBSET (1..k)
        BY <3>2
      <4>2. f[s] = IF s = {} THEN t ELSE FoldStep(kind, a, f[s \ {Max(s)}], Max(s))
        BY <2>1, <4>1 DEF IsFold
      <4>3. s \ {Max(s)} \in SUBSET (1..k)
        BY <4>1
      <4>4. g[s] = f[s] /\ g[s \ {Max(s)}] = f[s \ {Max(s)}]
        BY <2>3, <4>1, <4>3
      <4> HIDE DEF g
      <4> QED BY <4>2, <4>4
    <3> QED BY <3>1, <3>2
  <2>5. g = [s \in SUBSET (1..K) |-> g[s]]
    OBVIOUS
  <2> HIDE DEF g
  <2>6. g = [s \in SUBSET (1..K) |-> Next1(s)]
    BY <2>4, <2>5, Zenon
  <2>7. IsFold(g, kind, a, t, K)
    BY <2>6 DEF IsFold
  <2> QED BY <2>7
<1>3. \A n0 \in 0..n : n0 \in Nat \ Bad
  <2> HIDE DEF Good
  <2> DEFINE S == Nat \ Bad
  <2>1. 0 \in S /\ \A k \in 0..(n - 1) : k \in S => k + 1 \in S
    BY <1>1, <1>2
  <2> HIDE DEF S, Bad
  <2>2. \A k \in 0..n : k \in S
    BY <2>1, UpTo
  <2> QED BY <2>2 DEF S
<1>4. Good(n)
  <2> HIDE DEF Good
  <2> QED BY <1>3
<1> QED BY <1>4

(* A fold is a run.                                                        *)
LEMMA FoldRuns ==
    ASSUME NEW kind, NEW a, NEW t, NEW n \in Nat, NEW f, IsFold(f, kind, a, t, n)
    PROVE  \E h : Runs(h, kind, a, t, n) /\ h[n] = f[1..n]
<1> DEFINE h == [k \in 0..n |-> f[1..k]]
<1>1. h[0] = t
  <2>1. 1..0 = {}
    OBVIOUS
  <2> QED BY <2>1 DEF IsFold
<1>2. ASSUME NEW k \in 0..(n - 1) PROVE h[k + 1] = FoldStep(kind, a, h[k], k + 1)
  <2> DEFINE s == 1..(k + 1)
  <2>1. s \in SUBSET (1..n) /\ s # {} /\ k + 1 \in s /\ k + 1 \in Nat /\ s \ {k + 1} = 1..k
    OBVIOUS
  <2>2. Max(s) = k + 1
    <3> HIDE DEF s
    <3>1. s \in SUBSET (1..(k + 1))
      BY DEF s
    <3> QED BY <2>1, <3>1, MaxIsBound
  <2>3. f[s] = FoldStep(kind, a, f[1..k], k + 1)
    <3> HIDE DEF s
    <3> QED BY <2>1, <2>2 DEF IsFold
  <2> QED BY <2>3
<1>3. h[n] = f[1..n]
  OBVIOUS
<1> HIDE DEF h
<1> QED BY <1>1, <1>2, <1>3 DEF Runs

(* LocalGates is such a run.                                               *)
LEMMA LocalGatesRuns ==
    ASSUME NEW p, NEW gates, NEW t, NEW all, NEW n \in Nat, DOMAIN gates = 1..n
    PROVE  \E h : /\ Runs(h, "local", [seq |-> gates, p |-> p, all |-> all], t, n)
                  /\ LocalGates(p, gates, t, all) = h[n]
<1> DEFINE a == [seq |-> gates, p |-> p, all |-> all]
           F == CHOOSE f : f = [s \in SUBSET (1..n) |->
                    IF s = {} THEN t
                    ELSE [f[s \ {Max(s)}] EXCEPT
                            ![gates[Max(s)].out] = LocalValue(p, gates[Max(s)], f[s \ {Max(s)}], all)]]
<1>1. \A u, i : FoldStep("local", a, u, i) = [u EXCEPT ![gates[i].out] = LocalValue(p, gates[i], u, all)]
  BY DEF FoldStep, GateValue
<1> HIDE DEF a
<1>2. IsFold(F, "local", a, t, n)
  <2>1. PICK f : IsFold(f, "local", a, t, n)
    BY FoldExists
  <2>2. f = [s \in SUBSET (1..n) |->
                    IF s = {} THEN t
                    ELSE [f[s \ {Max(s)}] EXCEPT
                            ![gates[Max(s)].out] = LocalValue(p, gates[Max(s)], f[s \ {Max(s)}], all)]]
    BY <1>1, <2>1, Zenon DEF IsFold
  <2>3. F = [s \in SUBSET (1..n) |->
                    IF s = {} THEN t
                    ELSE [F[s \ {Max(s)}] EXCEPT
                            ![gates[Max(s)].out] = LocalValue(p, gates[Max(s)], F[s \ {Max(s)}], all)]]
    BY <2>2, Zenon
  <2> HIDE DEF F
  <2> QED BY <1>1, <2>3, Zenon DEF IsFold
<1>3. LocalGates(p, gates, t, all) = F[1..n]
  BY DEF LocalGates, FoldLeft, MapThenFoldSet
<1> HIDE DEF F
<1> QED BY <1>2, <1>3, FoldRuns DEF a

(* What the wires start with in the clear.                                 *)
Given(c, inputs) ==
    [w \in Wires(c) |-> IF w < Len(FlattenSeq(inputs)) THEN FlattenSeq(inputs)[w + 1] ELSE {}]

(* So is the table of a circuit in the clear, from the given inputs.       *)
LEMMA ClearTableRuns ==
    ASSUME NEW c, NEW inputs, NEW all, NEW n \in Nat, DOMAIN c.gates = 1..n
    PROVE  \E h : /\ Runs(h, "clear", [seq |-> c.gates, all |-> all], Given(c, inputs), n)
                  /\ ClearTable(c, inputs, all) = h[n]
<1> DEFINE gates == c.gates
           a == [seq |-> gates, all |-> all]
           t == Given(c, inputs)
           F == CHOOSE f : f = [s \in SUBSET (1..n) |->
                    IF s = {} THEN t
                    ELSE [f[s \ {Max(s)}] EXCEPT
                            ![gates[Max(s)].out] = ClearValue(gates[Max(s)], f[s \ {Max(s)}], all)]]
<1>0. ClearTable(c, inputs, all) = F[1..n]
  BY DEF ClearTable, FoldLeft, MapThenFoldSet, Given
<1> HIDE DEF t
<1>1. \A u, i : FoldStep("clear", a, u, i) = [u EXCEPT ![gates[i].out] = ClearValue(gates[i], u, all)]
  BY DEF FoldStep, GateValue
<1> HIDE DEF a, gates
<1>2. IsFold(F, "clear", a, t, n)
  <2>1. PICK f : IsFold(f, "clear", a, t, n)
    BY FoldExists
  <2>2. f = [s \in SUBSET (1..n) |->
                    IF s = {} THEN t
                    ELSE [f[s \ {Max(s)}] EXCEPT
                            ![gates[Max(s)].out] = ClearValue(gates[Max(s)], f[s \ {Max(s)}], all)]]
    BY <1>1, <2>1, Zenon DEF IsFold
  <2>3. F = [s \in SUBSET (1..n) |->
                    IF s = {} THEN t
                    ELSE [F[s \ {Max(s)}] EXCEPT
                            ![gates[Max(s)].out] = ClearValue(gates[Max(s)], F[s \ {Max(s)}], all)]]
    BY <2>2, Zenon
  <2> HIDE DEF F
  <2> QED BY <1>1, <2>3, Zenon DEF IsFold
<1> HIDE DEF F
<1>3. PICK h : Runs(h, "clear", a, t, n) /\ h[n] = F[1..n]
  BY <1>2, FoldRuns
<1> QED BY <1>0, <1>3 DEF a, t, gates

(* So are the rounds that wires are available after.                      *)
LEMMA AvailableRuns ==
    ASSUME NEW c, NEW n \in Nat, DOMAIN c.gates = 1..n
    PROVE  \E h : Runs(h, "avail", [seq |-> c.gates], [w \in Wires(c) |-> 0], n) /\ Available(c) = h[n]
<1> DEFINE gates == c.gates
           a == [seq |-> gates]
           t == [w \in Wires(c) |-> 0]
           F == CHOOSE f : f = [s \in SUBSET (1..n) |->
                    IF s = {} THEN t ELSE [f[s \ {Max(s)}] EXCEPT
                        ![gates[Max(s)].out] = AvailableAt(f[s \ {Max(s)}], gates[Max(s)])]]
<1>0. Available(c) = F[1..n]
  BY DEF Available, FoldLeft, MapThenFoldSet
<1> HIDE DEF t
<1>1. \A u, i : FoldStep("avail", a, u, i) = [u EXCEPT ![gates[i].out] = AvailableAt(u, gates[i])]
  BY DEF FoldStep, GateValue
<1> HIDE DEF a, gates
<1>2. IsFold(F, "avail", a, t, n)
  <2>1. PICK f : IsFold(f, "avail", a, t, n)
    BY FoldExists
  <2>2. f = [s \in SUBSET (1..n) |-> IF s = {} THEN t ELSE [f[s \ {Max(s)}] EXCEPT
                        ![gates[Max(s)].out] = AvailableAt(f[s \ {Max(s)}], gates[Max(s)])]]
    BY <1>1, <2>1, Zenon DEF IsFold
  <2>3. F = [s \in SUBSET (1..n) |-> IF s = {} THEN t ELSE [F[s \ {Max(s)}] EXCEPT
                        ![gates[Max(s)].out] = AvailableAt(F[s \ {Max(s)}], gates[Max(s)])]]
    BY <2>2, Zenon
  <2> HIDE DEF F
  <2> QED BY <1>1, <2>3, Zenon DEF IsFold
<1> HIDE DEF F
<1>3. PICK h : Runs(h, "avail", a, t, n) /\ h[n] = F[1..n]
  BY <1>2, FoldRuns
<1> QED BY <1>0, <1>3 DEF a, t, gates

(* So is a lane of the schedule.                                           *)
LEMMA LaneRuns ==
    ASSUME NEW c, NEW avail, NEW r, NEW ands, NEW n \in Nat, DOMAIN c.gates = 1..n
    PROVE  \E h : Runs(h, "lane", [seq |-> c.gates, avail |-> avail, r |-> r, ands |-> ands], << >>, n) /\ Lane(c, avail, r, ands) = h[n]
<1> DEFINE gates == c.gates
           a == [seq |-> gates, avail |-> avail, r |-> r, ands |-> ands]
           t == << >>
           F == CHOOSE f : f = [s \in SUBSET (1..n) |->
                    IF s = {} THEN t ELSE 
                      IF Belongs(gates[Max(s)], avail, r, ands)
                        THEN Append(f[s \ {Max(s)}], gates[Max(s)]) ELSE f[s \ {Max(s)}]]
<1>0. Lane(c, avail, r, ands) = F[1..n]
  BY DEF Lane, FoldLeft, MapThenFoldSet
<1> HIDE DEF t
<1>1. \A u, i : FoldStep("lane", a, u, i) = IF Belongs(gates[i], avail, r, ands) THEN Append(u, gates[i]) ELSE u
  BY DEF FoldStep, GateValue
<1> HIDE DEF a, gates
<1>2. IsFold(F, "lane", a, t, n)
  <2>1. PICK f : IsFold(f, "lane", a, t, n)
    BY FoldExists
  <2>2. f = [s \in SUBSET (1..n) |-> IF s = {} THEN t ELSE 
                      IF Belongs(gates[Max(s)], avail, r, ands)
                        THEN Append(f[s \ {Max(s)}], gates[Max(s)]) ELSE f[s \ {Max(s)}]]
    BY <1>1, <2>1, Zenon DEF IsFold
  <2>3. F = [s \in SUBSET (1..n) |-> IF s = {} THEN t ELSE 
                      IF Belongs(gates[Max(s)], avail, r, ands)
                        THEN Append(F[s \ {Max(s)}], gates[Max(s)]) ELSE F[s \ {Max(s)}]]
    BY <2>2, Zenon
  <2> HIDE DEF F
  <2> QED BY <1>1, <2>3, Zenon DEF IsFold
<1> HIDE DEF F
<1>3. PICK h : Runs(h, "lane", a, t, n) /\ h[n] = F[1..n]
  BY <1>2, FoldRuns
<1> QED BY <1>0, <1>3 DEF a, t, gates

(* So is a sum of sizes.                                                   *)
LEMMA TotalRuns ==
    ASSUME NEW sizes, NEW n \in Nat, DOMAIN sizes = 1..n
    PROVE  \E h : Runs(h, "total", [seq |-> sizes], 0, n) /\ Total(sizes) = h[n]
<1> DEFINE gates == sizes
           a == [seq |-> gates]
           t == 0
           F == CHOOSE f : f = [s \in SUBSET (1..n) |->
                    IF s = {} THEN t ELSE f[s \ {Max(s)}] + gates[Max(s)]]
<1>0. Total(sizes) = F[1..n]
  BY DEF Total, FoldLeft, MapThenFoldSet
<1> HIDE DEF t
<1>1. \A u, i : FoldStep("total", a, u, i) = u + gates[i]
  BY DEF FoldStep, GateValue
<1> HIDE DEF a, gates
<1>2. IsFold(F, "total", a, t, n)
  <2>1. PICK f : IsFold(f, "total", a, t, n)
    BY FoldExists
  <2>2. f = [s \in SUBSET (1..n) |-> IF s = {} THEN t ELSE f[s \ {Max(s)}] + gates[Max(s)]]
    BY <1>1, <2>1, Zenon DEF IsFold
  <2>3. F = [s \in SUBSET (1..n) |-> IF s = {} THEN t ELSE F[s \ {Max(s)}] + gates[Max(s)]]
    BY <2>2, Zenon
  <2> HIDE DEF F
  <2> QED BY <1>1, <2>3, Zenon DEF IsFold
<1> HIDE DEF F
<1>3. PICK h : Runs(h, "total", a, t, n) /\ h[n] = F[1..n]
  BY <1>2, FoldRuns
<1> QED BY <1>0, <1>3 DEF a, t, gates

-----------------------------------------------------------------------------
(* A tape of pairs on the wires W, and two tapes that fit: the one's second *)
(* components are the other's first ones.                                  *)
Tape(t, W) == t = [w \in W |-> <<t[w][1], t[w][2]>>]
Fitting(t, u, W) == \A w \in W : t[w][2] = u[w][1]

(* Neighbours' copies of a local gate's value agree if those of its inputs *)
(* do.                                                                     *)
LEMMA LocalValueFits ==
    ASSUME NEW p \in Parties, NEW g, NEW W, g.left \in W, g.right \in W,
           NEW t, NEW u, Fitting(t, u, W), NEW all
    PROVE  /\ LocalValue(p, g, t, all)[2] = LocalValue(NextOf(p), g, u, all)[1]
           /\ LocalValue(p, g, t, all) = <<LocalValue(p, g, t, all)[1], LocalValue(p, g, t, all)[2]>>
<1>1. t[g.left][2] = u[g.left][1] /\ t[g.right][2] = u[g.right][1]
  BY DEF Fitting
<1>2. (p = 2) <=> (NextOf(p) = 0)
  BY DEF Parties, NextOf
<1>3. CASE g.op = "xor"
  BY <1>1, <1>3 DEF LocalValue, PairXor
<1>4. CASE g.op # "xor"
  BY <1>1, <1>2, <1>4 DEF LocalValue, PairXor, PublicPair
<1> QED BY <1>3, <1>4

(* Local gates keep the tapes of a party and of its next one fitting.      *)
LEMMA LocalGatesFit ==
    ASSUME NEW p \in Parties, NEW n \in Nat, NEW gates, DOMAIN gates = 1..n, NEW W,
           \A i \in 1..n : gates[i].left \in W /\ gates[i].right \in W,
           NEW t, NEW u, Tape(t, W), Tape(u, W), Fitting(t, u, W), NEW all
    PROVE  /\ Tape(LocalGates(p, gates, t, all), W)
           /\ Fitting(LocalGates(p, gates, t, all), LocalGates(NextOf(p), gates, u, all), W)
<1> DEFINE q == NextOf(p)
           A(s) == [seq |-> gates, p |-> s, all |-> all]
<1>1. PICK f : Runs(f, "local", A(p), t, n) /\ LocalGates(p, gates, t, all) = f[n]
  BY LocalGatesRuns
<1>2. PICK h : Runs(h, "local", A(q), u, n) /\ LocalGates(q, gates, u, all) = h[n]
  BY LocalGatesRuns
<1> DEFINE Fits(k) == Tape(f[k], W) /\ Tape(h[k], W) /\ Fitting(f[k], h[k], W)
           S == {k \in 0..n : Fits(k)}
<1>3. Fits(0)
  BY <1>1, <1>2 DEF Runs
<1>4. ASSUME NEW k \in 0..(n - 1), Fits(k) PROVE Fits(k + 1)
  <2> DEFINE r == k + 1
             g == gates[r]
             v == LocalValue(p, g, f[k], all)
             y == LocalValue(q, g, h[k], all)
  <2>1. /\ f[r] = [f[k] EXCEPT ![g.out] = v]
        /\ h[r] = [h[k] EXCEPT ![g.out] = y]
    BY <1>1, <1>2 DEF Runs, FoldStep, GateValue
  <2>2. g.left \in W /\ g.right \in W
    OBVIOUS
  <2>3. v = <<v[1], v[2]>> /\ v[2] = y[1]
    BY <1>4, <2>2, LocalValueFits
  <2>4. y = <<y[1], y[2]>>
    BY DEF LocalValue, PairXor
  <2> HIDE DEF v, y, g, r
  <2>5. DOMAIN f[k] = W /\ DOMAIN h[k] = W
    BY <1>4 DEF Tape
  <2>6. /\ \A w \in W : f[r][w] = IF w = g.out THEN v ELSE f[k][w]
        /\ \A w \in W : h[r][w] = IF w = g.out THEN y ELSE h[k][w]
        /\ f[r] = [w \in W |-> f[r][w]] /\ h[r] = [w \in W |-> h[r][w]]
    BY <2>1, <2>5
  <2>7. \A w \in W : f[k][w] = <<f[k][w][1], f[k][w][2]>> /\ h[k][w] = <<h[k][w][1], h[k][w][2]>>
    BY <1>4 DEF Tape
  <2>8. Fitting(f[r], h[r], W)
    BY <1>4, <2>3, <2>6 DEF Fitting
  <2>9. /\ \A w \in W : f[r][w] = <<f[r][w][1], f[r][w][2]>>
        /\ \A w \in W : h[r][w] = <<h[r][w][1], h[r][w][2]>>
    BY <2>3, <2>4, <2>6, <2>7
  <2>10. Tape(f[r], W) /\ Tape(h[r], W)
    BY <2>6, <2>9, Zenon DEF Tape
  <2> QED BY <2>8, <2>10 DEF r
<1>5. 0 \in S /\ \A k \in 0..(n - 1) : k \in S => k + 1 \in S
  <2> HIDE DEF Fits
  <2> QED BY <1>3, <1>4
<1>6. n \in S
  <2> HIDE DEF S
  <2>1. \A k \in 0..n : k \in S
    BY <1>5, UpTo
  <2> QED BY <2>1
<1> QED BY <1>1, <1>2, <1>6

-----------------------------------------------------------------------------
(* A circuit's gates, and what the folds over them settle. *)

IsGate(c, g) ==
    /\ g.op \in {"xor", "and", "inv"} /\ g.in = {g.left, g.right}
    /\ g.left \in Wires(c) /\ g.right \in Wires(c) /\ g.out \in Wires(c)

(* The gates are on the circuit's wires.                                   *)
LEMMA GatesAre ==
    ASSUME NEW c, Formed(c)
    PROVE  \E n \in Nat : DOMAIN c.gates = 1..n /\ \A i \in 1..n : IsGate(c, c.gates[i])
<1>1. c.gates \in Seq(Gates(c))
  BY DEF Formed
<1>2. Len(c.gates) \in Nat /\ DOMAIN c.gates = 1..Len(c.gates)
      /\ \A i \in 1..Len(c.gates) : c.gates[i] \in Gates(c)
  BY <1>1
<1>3. ASSUME NEW g \in Gates(c) PROVE IsGate(c, g)
  <2>1. CASE \E x, y, o \in Wires(c) : g = XorGate(x, y, o)
    BY <2>1 DEF XorGate, IsGate
  <2>2. CASE \E x, y, o \in Wires(c) : g = AndGate(x, y, o)
    BY <2>2 DEF AndGate, IsGate
  <2>3. CASE \E x, o \in Wires(c) : g = InvGate(x, o)
    BY <2>3 DEF InvGate, IsGate
  <2> QED BY <1>3, <2>1, <2>2, <2>3 DEF Gates
<1> QED BY <1>2, <1>3

(* A gate's value depends on the wires it reads.                           *)
LEMMA ValueReads ==
    ASSUME NEW c, NEW g, IsGate(c, g), NEW kind \in {"clear", "avail"}, NEW a,
           NEW t, NEW u, t[g.left] = u[g.left], t[g.right] = u[g.right]
    PROVE  GateValue(kind, a, g, t) = GateValue(kind, a, g, u)
<1>1. {t[w] : w \in g.in} = {u[w] : w \in g.in}
  BY DEF IsGate
<1>2. AvailableAt(t, g) = AvailableAt(u, g)
  BY <1>1 DEF AvailableAt, ReadyAt
<1>3. ClearValue(g, t, a.all) = ClearValue(g, u, a.all)
  BY DEF ClearValue
<1> QED BY <1>2, <1>3 DEF GateValue

(* The first k gates have settled table u, that was t.                     *)
Settled(u, kind, a, c, t, k) ==
    /\ \A i \in 1..k : u[c.gates[i].out] = GateValue(kind, a, c.gates[i], u)
    /\ \A w \in Wires(c) : (\A i \in 1..k : c.gates[i].out # w) => u[w] = t[w]

(* In topological order no gate disturbs what is settled: at the end every *)
(* gate's output is its value of the table, and other wires are as before. *)
LEMMA RunSettles ==
    ASSUME NEW c, Formed(c), NEW n \in Nat, DOMAIN c.gates = 1..n,
           NEW kind \in {"clear", "avail"}, NEW a, a.seq = c.gates,
           NEW T, NEW t \in [Wires(c) -> T], NEW h, Runs(h, kind, a, t, n),
           \A i \in 1..n : \A u \in [Wires(c) -> T] : GateValue(kind, a, c.gates[i], u) \in T
    PROVE  h[n] \in [Wires(c) -> T] /\ Settled(h[n], kind, a, c, t, n)
<1> DEFINE Fine(k) == h[k] \in [Wires(c) -> T] /\ Settled(h[k], kind, a, c, t, k)
           S == {k \in 0..n : Fine(k)}
<1>1. Fine(0)
  <2>1. h[0] = t /\ 1..0 = {}
    BY DEF Runs
  <2> QED BY <2>1 DEF Settled
<1>2. ASSUME NEW k \in 0..(n - 1), Fine(k) PROVE Fine(k + 1)
  <2> DEFINE r == k + 1
             g == c.gates[r]
             u == h[k]
             v == GateValue(kind, a, g, u)
  <2>0. \A i \in 1..n : IsGate(c, c.gates[i])
    BY GatesAre
  <2>1. r \in 1..n /\ IsGate(c, g) /\ g.out \in Wires(c)
    BY <2>0 DEF IsGate
  <2>2. h[r] = [u EXCEPT ![g.out] = v] /\ v \in T
    <3>1. h[r] = FoldStep(kind, a, u, r)
      BY DEF Runs
    <3> HIDE DEF v, r, u
    <3>2. FoldStep(kind, a, u, r) = [u EXCEPT ![g.out] = v]
      BY DEF FoldStep, v
    <3>3. v \in T
      BY <1>2, <2>1 DEF v, u
    <3> QED BY <3>1, <3>2, <3>3
  <2>3. h[r] \in [Wires(c) -> T] /\ \A w \in Wires(c) : h[r][w] = IF w = g.out THEN v ELSE u[w]
    <3> HIDE DEF v, g, r
    <3> QED BY <1>2, <2>1, <2>2
  <2> HIDE DEF g, r, v, u
  <2>4. ASSUME NEW i \in 1..r PROVE h[r][c.gates[i].out] = GateValue(kind, a, c.gates[i], h[r])
    <3> DEFINE e == c.gates[i]
    <3>1. i \in 1..n /\ i <= r /\ IsGate(c, e) /\ r \in 1..n
      BY <2>0, <2>1, <2>4 DEF r
    <3>2. g.out \notin e.in
      BY <3>1 DEF Formed, g
    <3>3. h[r][e.left] = u[e.left] /\ h[r][e.right] = u[e.right]
      BY <2>3, <3>1, <3>2 DEF IsGate
    <3>4. GateValue(kind, a, e, h[r]) = GateValue(kind, a, e, u)
      BY <3>1, <3>3, ValueReads
    <3>5. CASE i = r
      BY <2>1, <2>3, <3>4, <3>5 DEF v, g
    <3>6. CASE i # r
      <4>1. i \in 1..k /\ e.out # g.out
        BY <3>1, <3>6 DEF r, Formed, g
      <4>2. u[e.out] = GateValue(kind, a, e, u)
        BY <1>2, <4>1 DEF Settled, u
      <4> QED BY <2>3, <3>1, <3>4, <4>1, <4>2 DEF IsGate
    <3> QED BY <3>5, <3>6
  <2>5. ASSUME NEW w \in Wires(c), \A i \in 1..r : c.gates[i].out # w PROVE h[r][w] = t[w]
    <3>1. w # g.out /\ \A i \in 1..k : c.gates[i].out # w
      BY <2>1, <2>5 DEF g, r
    <3> QED BY <1>2, <2>3, <3>1 DEF Settled, u
  <2> QED BY <2>3, <2>4, <2>5 DEF Settled, r
<1>3. 0 \in S /\ \A k \in 0..(n - 1) : k \in S => k + 1 \in S
  <2> HIDE DEF Fine
  <2> QED BY <1>1, <1>2
<1>4. n \in S
  <2> HIDE DEF S
  <2>1. \A k \in 0..n : k \in S
    BY <1>3, UpTo
  <2> QED BY <2>1
<1> QED BY <1>4

(* The larger of two numbers, and the largest of a bounded set.            *)
LEMMA LargerOf ==
    ASSUME NEW x \in Nat, NEW y \in Nat
    PROVE  Max({x, y}) \in Nat /\ x <= Max({x, y}) /\ y <= Max({x, y}) /\ Max({x, y}) \in {x, y}
<1>1. \E z \in {x, y} : \A u \in {x, y} : z >= u
  OBVIOUS
<1>2. Max({x, y}) \in {x, y} /\ \A u \in {x, y} : Max({x, y}) >= u
  BY <1>1 DEF Max
<1> QED BY <1>2

(* A bounded set of numbers that is not empty has a largest one.           *)
LEMMA LargestOf ==
    ASSUME NEW b \in Nat, NEW S \in SUBSET (0..b), S # {}
    PROVE  Max(S) \in S /\ \A x \in S : x <= Max(S)
<1> DEFINE T == {z \in 0..b : b - z \in S}
<1>1. T \in SUBSET Nat /\ T # {}
  <2>1. PICK x \in S : TRUE
    OBVIOUS
  <2>2. b - x \in 0..b /\ b - (b - x) = x
    BY <2>1
  <2> QED BY <2>1, <2>2
<1>2. PICK z \in T : \A y \in T : z <= y
  <2> HIDE DEF T
  <2> QED BY <1>1, LeastNumber
<1>3. b - z \in S /\ \A x \in S : b - z >= x
  <2>1. ASSUME NEW x \in S PROVE b - z >= x
    <3>1. b - x \in T
      <4>1. b - x \in 0..b /\ b - (b - x) = x
        OBVIOUS
      <4> QED BY <4>1
    <3>2. z <= b - x /\ z \in Int /\ x \in Int
      BY <1>2, <3>1
    <3> QED BY <3>2
  <2> QED BY <1>2, <2>1
<1>4. Max(S) \in S /\ \A x \in S : Max(S) >= x
  BY <1>3, Zenon DEF Max
<1> QED BY <1>4

(* A table of numbers has a bound.                                         *)
LEMMA TableBound ==
    ASSUME NEW n \in Nat, NEW t \in [0..(n - 1) -> Nat]
    PROVE  \E b \in Nat : \A w \in 0..(n - 1) : t[w] <= b
<1> DEFINE Fine(k) == \E b \in Nat : \A w \in 0..(k - 1) : t[w] <= b
           S == {k \in 0..n : Fine(k)}
<1>1. Fine(0)
  <2>1. 0..(0 - 1) = {}
    OBVIOUS
  <2> QED BY <2>1
<1>2. ASSUME NEW k \in 0..(n - 1), Fine(k) PROVE Fine(k + 1)
  <2>1. PICK b \in Nat : \A w \in 0..(k - 1) : t[w] <= b
    BY <1>2
  <2>2. t[k] \in Nat /\ (k + 1) - 1 = k
    OBVIOUS
  <2>3. \A w \in 0..((k + 1) - 1) : t[w] \in Nat /\ (w = k \/ w \in 0..(k - 1))
    OBVIOUS
  <2>4. ASSUME NEW w \in 0..((k + 1) - 1) PROVE t[w] <= b + t[k]
    <3>1. CASE w = k
      BY <2>2, <3>1
    <3>2. CASE w \in 0..(k - 1)
      <4>1. t[w] <= b /\ t[w] \in Nat
        BY <2>1, <2>3, <3>2
      <4> QED BY <2>2, <4>1
    <3> QED BY <2>3, <3>1, <3>2
  <2>5. b + t[k] \in Nat
    BY <2>2
  <2> QED BY <2>4, <2>5
<1>3. 0 \in S /\ \A k \in 0..(n - 1) : k \in S => k + 1 \in S
  <2> HIDE DEF Fine
  <2> QED BY <1>1, <1>2
<1>4. n \in S
  <2> HIDE DEF S
  <2>1. \A k \in 0..n : k \in S
    BY <1>3, UpTo
  <2> QED BY <2>1
<1> QED BY <1>4

(* The rounds wires are available after: an AND's output one round after   *)
(* its inputs, another gate's in the same one.                             *)
IsAvailable(c, avail) ==
    /\ avail \in [Wires(c) -> Nat]
    /\ \A i \in DOMAIN c.gates :
        LET g == c.gates[i]
        IN /\ ReadyAt(avail, g) \in Nat
           /\ avail[g.left] <= ReadyAt(avail, g) /\ avail[g.right] <= ReadyAt(avail, g)
           /\ avail[g.out] = IF g.op = "and" THEN ReadyAt(avail, g) + 1 ELSE ReadyAt(avail, g)

(* Schedule::new (engine.rs:28) counts the rounds so.                      *)
LEMMA AvailableIs ==
    ASSUME NEW c, Formed(c)
    PROVE  IsAvailable(c, Available(c))
<1> DEFINE A == Available(c)
           a == [seq |-> c.gates]
           t == [w \in Wires(c) |-> 0]
<1>1. PICK n \in Nat : DOMAIN c.gates = 1..n /\ \A i \in 1..n : IsGate(c, c.gates[i])
  BY GatesAre
<1>2. PICK h : Runs(h, "avail", a, t, n) /\ A = h[n]
  BY <1>1, AvailableRuns
<1>3. ASSUME NEW i \in 1..n, NEW u \in [Wires(c) -> Nat]
      PROVE  LET g == c.gates[i]
             IN /\ ReadyAt(u, g) \in Nat
                /\ u[g.left] <= ReadyAt(u, g) /\ u[g.right] <= ReadyAt(u, g)
                /\ GateValue("avail", a, g, u) =
                      IF g.op = "and" THEN ReadyAt(u, g) + 1 ELSE ReadyAt(u, g)
  <2> DEFINE g == c.gates[i]
  <2>1. IsGate(c, g)
    BY <1>1
  <2> HIDE DEF g
  <2>2. {u[w] : w \in g.in} = {u[g.left], u[g.right]} /\ u[g.left] \in Nat /\ u[g.right] \in Nat
    BY <2>1 DEF IsGate
  <2>3. ReadyAt(u, g) = Max({u[g.left], u[g.right]})
    BY <2>2 DEF ReadyAt
  <2>4. ReadyAt(u, g) \in Nat /\ u[g.left] <= ReadyAt(u, g) /\ u[g.right] <= ReadyAt(u, g)
    <3> DEFINE x == u[g.left]
               y == u[g.right]
    <3>1. x \in Nat /\ y \in Nat /\ ReadyAt(u, g) = Max({x, y})
      BY <2>2, <2>3
    <3> HIDE DEF x, y
    <3>2. Max({x, y}) \in Nat /\ x <= Max({x, y}) /\ y <= Max({x, y})
      BY <3>1, LargerOf
    <3>3. ReadyAt(u, g) \in Nat /\ x <= ReadyAt(u, g) /\ y <= ReadyAt(u, g)
      BY <3>1, <3>2
    <3> QED BY <3>3 DEF x, y
  <2>5. GateValue("avail", a, g, u) = IF g.op = "and" THEN ReadyAt(u, g) + 1 ELSE ReadyAt(u, g)
    BY <2>4 DEF GateValue, AvailableAt
  <2> QED BY <2>4, <2>5 DEF g
<1>4. \A i \in 1..n : \A u \in [Wires(c) -> Nat] : GateValue("avail", a, c.gates[i], u) \in Nat
  BY <1>3
<1>5. t \in [Wires(c) -> Nat] /\ a.seq = c.gates
  OBVIOUS
<1> HIDE DEF a, t, A
<1>6. A \in [Wires(c) -> Nat] /\ Settled(A, "avail", a, c, t, n)
  <2>1. h[n] \in [Wires(c) -> Nat] /\ Settled(h[n], "avail", a, c, t, n)
    BY <1>1, <1>2, <1>4, <1>5, RunSettles
  <2> QED BY <1>2, <2>1
<1>7. \A i \in 1..n : A[c.gates[i].out] = GateValue("avail", a, c.gates[i], A)
  BY <1>6 DEF Settled
<1>8. IsAvailable(c, A)
  BY <1>1, <1>3, <1>6, <1>7 DEF IsAvailable
<1> QED BY <1>8 DEF A

(* L lists those of the first n gates that belong to a round, in order.    *)
InOrder(L, c, avail, r, ands, n) ==
    /\ L \in Seq({c.gates[i] : i \in 1..n})
    /\ \A k \in 1..Len(L) : \E i \in 1..n :
        /\ L[k] = c.gates[i] /\ Belongs(c.gates[i], avail, r, ands)
        /\ \A j \in 1..(i - 1) : Belongs(c.gates[j], avail, r, ands) =>
                \E m \in 1..(k - 1) : L[m] = c.gates[j]
    /\ \A i \in 1..n : Belongs(c.gates[i], avail, r, ands) => \E k \in 1..Len(L) : L[k] = c.gates[i]

(* A lane of the schedule lists all the gates that belong to it, in the    *)
(* circuit's order.                                                        *)
LEMMA LaneInOrder ==
    ASSUME NEW c, NEW avail, NEW r, NEW ands, NEW n \in Nat, DOMAIN c.gates = 1..n
    PROVE  InOrder(Lane(c, avail, r, ands), c, avail, r, ands, n)
<1> DEFINE a == [seq |-> c.gates, avail |-> avail, r |-> r, ands |-> ands]
           B(i) == Belongs(c.gates[i], avail, r, ands)
<1>1. PICK h : Runs(h, "lane", a, << >>, n) /\ Lane(c, avail, r, ands) = h[n]
  BY LaneRuns
<1> DEFINE Fine(k) == InOrder(h[k], c, avail, r, ands, k)
           S == {k \in 0..n : Fine(k)}
<1>2. Fine(0)
  <2>1. h[0] = << >> /\ 1..0 = {} /\ Len(<< >>) = 0 /\ << >> \in Seq({c.gates[i] : i \in 1..0})
    BY <1>1 DEF Runs
  <2> QED BY <2>1 DEF InOrder
<1>3. ASSUME NEW k \in 0..(n - 1), Fine(k) PROVE Fine(k + 1)
  <2> DEFINE K == k + 1
             L == h[k]
             g == c.gates[K]
             G == {c.gates[i] : i \in 1..K}
  <2>1. h[K] = IF B(K) THEN Append(L, g) ELSE L
    <3>1. h[K] = FoldStep("lane", a, L, K)
      BY <1>1 DEF Runs
    <3> HIDE DEF K, L
    <3>2. FoldStep("lane", a, L, K) = IF B(K) THEN Append(L, g) ELSE L
      BY DEF FoldStep
    <3> QED BY <3>1, <3>2
  <2>2. L \in Seq(G) /\ g \in G /\ K \in 1..K /\ K \in Nat
    <3>1. {c.gates[i] : i \in 1..k} \subseteq G
      OBVIOUS
    <3>2. L \in Seq({c.gates[i] : i \in 1..k})
      BY <1>3 DEF InOrder
    <3> HIDE DEF L, G
    <3>3. L \in Seq(G)
      BY <3>1, <3>2
    <3> QED BY <3>3 DEF G
  <2>3. /\ \A m \in 1..Len(L) : \E i \in 1..k :
            /\ L[m] = c.gates[i] /\ B(i)
            /\ \A j \in 1..(i - 1) : B(j) => \E o \in 1..(m - 1) : L[o] = c.gates[j]
        /\ \A i \in 1..k : B(i) => \E m \in 1..Len(L) : L[m] = c.gates[i]
    BY <1>3 DEF InOrder
  <2> HIDE DEF L, B, G, g
  <2>4. CASE ~B(K)
    <3>1. h[K] = L
      BY <2>1, <2>4
    <3>2. \A m \in 1..Len(L) : \E i \in 1..K :
            /\ L[m] = c.gates[i] /\ B(i)
            /\ \A j \in 1..(i - 1) : B(j) => \E o \in 1..(m - 1) : L[o] = c.gates[j]
      <4> TAKE m \in 1..Len(L)
      <4>1. PICK i \in 1..k :
            /\ L[m] = c.gates[i] /\ B(i)
            /\ \A j \in 1..(i - 1) : B(j) => \E o \in 1..(m - 1) : L[o] = c.gates[j]
        BY <2>3
      <4>2. i \in 1..K
        OBVIOUS
      <4> QED BY <4>1, <4>2
    <3>3. \A i \in 1..K : B(i) => \E m \in 1..Len(L) : L[m] = c.gates[i]
      BY <2>3, <2>4
    <3>4. InOrder(L, c, avail, r, ands, K)
      <4> HIDE DEF K
      <4> QED BY <2>2, <3>2, <3>3 DEF InOrder, B, G
    <3> QED BY <3>1, <3>4
  <2>5. CASE B(K)
    <3> DEFINE M == Append(L, g)
    <3>1. /\ h[K] = M /\ M \in Seq(G) /\ Len(M) = Len(L) + 1 /\ Len(L) \in Nat
          /\ \A m \in 1..Len(L) : M[m] = L[m]
          /\ M[Len(L) + 1] = g
      BY <2>1, <2>2, <2>5
    <3> HIDE DEF M
    <3>2. \A i \in 1..K : B(i) => \E m \in 1..Len(M) : M[m] = c.gates[i]
      <4> SUFFICES ASSUME NEW i \in 1..K, B(i) PROVE \E m \in 1..Len(M) : M[m] = c.gates[i]
        OBVIOUS
      <4>1. CASE i = K
        BY <3>1, <4>1 DEF g
      <4>2. CASE i # K
        <5>1. i \in 1..k
          BY <4>2
        <5>2. PICK m \in 1..Len(L) : L[m] = c.gates[i]
          BY <2>3, <5>1
        <5>3. m \in 1..Len(M) /\ M[m] = L[m]
          BY <3>1
        <5> QED BY <5>2, <5>3
      <4> QED BY <4>1, <4>2
    <3>3. ASSUME NEW m \in 1..Len(M)
          PROVE  \E i \in 1..K :
            /\ M[m] = c.gates[i] /\ B(i)
            /\ \A j \in 1..(i - 1) : B(j) => \E o \in 1..(m - 1) : M[o] = c.gates[j]
      <4>1. CASE m = Len(L) + 1
        <5>1. ASSUME NEW j \in 1..(K - 1), B(j) PROVE \E o \in 1..(m - 1) : M[o] = c.gates[j]
          <6>1. j \in 1..k
            OBVIOUS
          <6>2. PICK o \in 1..Len(L) : L[o] = c.gates[j]
            BY <2>3, <5>1, <6>1
          <6>3. o \in 1..(m - 1) /\ M[o] = L[o]
            BY <3>1, <4>1
          <6> QED BY <6>2, <6>3
        <5>2. M[m] = c.gates[K] /\ B(K) /\ K \in 1..K
          BY <2>2, <2>5, <3>1, <4>1 DEF g
        <5> HIDE DEF K
        <5> QED BY <5>1, <5>2
      <4>2. CASE m # Len(L) + 1
        <5>1. m \in 1..Len(L) /\ M[m] = L[m]
          BY <3>1, <4>2
        <5>2. PICK i \in 1..k :
            /\ L[m] = c.gates[i] /\ B(i)
            /\ \A j \in 1..(i - 1) : B(j) => \E o \in 1..(m - 1) : L[o] = c.gates[j]
          BY <2>3, <5>1
        <5>3. \A o \in 1..(m - 1) : M[o] = L[o]
          <6>1. \A o \in 1..(m - 1) : o \in 1..Len(L)
            BY <3>1, <5>1
          <6> QED BY <3>1, <6>1
        <5>4. i \in 1..K
          OBVIOUS
        <5> QED BY <5>1, <5>2, <5>3, <5>4
      <4> QED BY <4>1, <4>2
    <3>4. InOrder(M, c, avail, r, ands, K)
      <4> HIDE DEF K
      <4> QED BY <3>1, <3>2, <3>3 DEF InOrder, B, G
    <3> QED BY <3>1, <3>4
  <2> QED BY <2>4, <2>5
<1>4. 0 \in S /\ \A k \in 0..(n - 1) : k \in S => k + 1 \in S
  <2> HIDE DEF Fine
  <2> QED BY <1>2, <1>3
<1>5. n \in S
  <2> HIDE DEF S
  <2>1. \A k \in 0..n : k \in S
    BY <1>4, UpTo
  <2> QED BY <2>1
<1> QED BY <1>1, <1>5

(* What the parties evaluate a circuit along: round by round all the gates *)
(* of the round in order, until everything is available.                   *)
IsSchedule(s, c, avail, n) ==
    /\ s.depth \in Nat /\ \A w \in Wires(c) : avail[w] <= s.depth
    /\ \A r \in 0..s.depth :
        /\ InOrder(s.locals[r], c, avail, r, FALSE, n)
        /\ InOrder(s.ands[r], c, avail, r, TRUE, n)

(* Schedule::new (engine.rs:28) makes such a plan; ANDs give it a round.   *)
LEMMA ScheduleIs ==
    ASSUME NEW c, Formed(c), NEW n \in Nat, DOMAIN c.gates = 1..n, n # 0
    PROVE  /\ IsSchedule(Schedule(c), c, Available(c), n)
           /\ (\E i \in 1..n : c.gates[i].op = "and") => Schedule(c).depth # 0
<1> DEFINE A == Available(c)
           R == {A[w] : w \in Wires(c)}
           s == Schedule(c)
<1>1. IsAvailable(c, A)
  BY AvailableIs
<1>2. c.wires \in Nat /\ Wires(c) = 0..(c.wires - 1) /\ A \in [Wires(c) -> Nat]
  BY <1>1 DEF Formed, Wires, IsAvailable
<1>3. \A i \in 1..n : IsGate(c, c.gates[i])
  BY GatesAre
<1> HIDE DEF A
<1>4. PICK b \in Nat : \A w \in Wires(c) : A[w] <= b
  BY <1>2, TableBound
<1>5. R \in SUBSET (0..b) /\ R # {}
  <2>1. 1 \in 1..n /\ c.gates[1].out \in Wires(c)
    BY <1>3 DEF IsGate
  <2> QED BY <1>2, <1>4, <2>1
<1>6. Max(R) \in R /\ \A x \in R : x <= Max(R)
  <2> HIDE DEF R
  <2> QED BY <1>5, LargestOf
<1>7. s.depth = Max(R)
  BY DEF Schedule, A
<1>8. s.depth \in Nat /\ \A w \in Wires(c) : A[w] <= s.depth
  BY <1>2, <1>6, <1>7
<1>9. \A r \in 0..s.depth : /\ s.locals[r] = Lane(c, A, r, FALSE)
                            /\ s.ands[r] = Lane(c, A, r, TRUE)
  BY <1>7 DEF Schedule, A
<1> HIDE DEF s
<1>10. IsSchedule(s, c, A, n)
  BY <1>8, <1>9, LaneInOrder DEF IsSchedule
<1>11. ASSUME NEW i \in 1..n, c.gates[i].op = "and" PROVE s.depth # 0
  <2>1. A[c.gates[i].out] = ReadyAt(A, c.gates[i]) + 1 /\ ReadyAt(A, c.gates[i]) \in Nat
    BY <1>1, <1>11 DEF IsAvailable
  <2>2. A[c.gates[i].out] <= s.depth
    BY <1>3, <1>8 DEF IsGate
  <2> QED BY <1>8, <2>1, <2>2
<1> QED BY <1>10, <1>11 DEF s, A

-----------------------------------------------------------------------------
(* One lane of a shared evaluation is an evaluation in the clear.  Tapes    *)
(* are the three parties'; E is a table in which every gate's output has    *)
(* its value, a bit being the set {} or {0}.                                *)

Has(tapes, w, l) == l \in (tapes[0][w][1] ## tapes[1][w][1] ## tapes[2][w][1])
RightOn(tapes, D, l, E) == \A w \in D : Has(tapes, w, l) <=> 0 \in E[w]
IsTable(E, c) == \A i \in DOMAIN c.gates : E[c.gates[i].out] = ClearValue(c.gates[i], E, {0})

(* The wires that no gate of round r or a later one writes, and those that *)
(* no AND of it does either: what a tape has right before a round, and     *)
(* once the round's local gates have been applied.                         *)
Done(c, avail, r) ==
    {w \in Wires(c) : \A i \in DOMAIN c.gates :
        c.gates[i].out = w => ReadyAt(avail, c.gates[i]) < r}
LocalsDone(c, avail, r) ==
    {w \in Wires(c) : \A i \in DOMAIN c.gates :
        c.gates[i].out = w => \/ ReadyAt(avail, c.gates[i]) < r
                              \/ ReadyAt(avail, c.gates[i]) = r /\ c.gates[i].op # "and"}

(* What a gate of a round reads is done by then.                           *)
LEMMA ReadsDone ==
    ASSUME NEW c, Formed(c), NEW avail, IsAvailable(c, avail), NEW i \in DOMAIN c.gates,
           NEW w \in {c.gates[i].left, c.gates[i].right}
    PROVE  w \in LocalsDone(c, avail, ReadyAt(avail, c.gates[i]))
<1> DEFINE r == ReadyAt(avail, c.gates[i])
<1>1. IsGate(c, c.gates[i])
  BY GatesAre
<1>2. w \in Wires(c) /\ avail[w] <= r /\ r \in Nat
  BY <1>1 DEF IsGate, IsAvailable
<1>3. ASSUME NEW j \in DOMAIN c.gates, c.gates[j].out = w
      PROVE  \/ ReadyAt(avail, c.gates[j]) < r
             \/ ReadyAt(avail, c.gates[j]) = r /\ c.gates[j].op # "and"
  <2> DEFINE s == ReadyAt(avail, c.gates[j])
  <2>1. avail[w] = IF c.gates[j].op = "and" THEN s + 1 ELSE s
    BY <1>3 DEF IsAvailable
  <2>2. s \in Nat
    BY DEF IsAvailable
  <2> HIDE DEF s, r
  <2>3. s < r \/ (s = r /\ c.gates[j].op # "and")
    BY <1>2, <2>1, <2>2
  <2> QED BY <2>3 DEF s, r
<1> QED BY <1>2, <1>3 DEF LocalsDone

(* The wires at the start, from round to round, and at the end.            *)
LEMMA DoneNext ==
    ASSUME NEW c, NEW avail, IsAvailable(c, avail), NEW r \in Nat
    PROVE  /\ \A w \in Wires(c) : (\A i \in DOMAIN c.gates : c.gates[i].out # w) <=> w \in Done(c, avail, 0)
           /\ \A w \in Done(c, avail, r + 1) :
                \/ w \in LocalsDone(c, avail, r)
                \/ \E i \in DOMAIN c.gates : /\ c.gates[i].out = w /\ c.gates[i].op = "and"
                                             /\ ReadyAt(avail, c.gates[i]) = r
           /\ Formed(c) /\ (\A w \in Wires(c) : avail[w] <= r) => Wires(c) = LocalsDone(c, avail, r)
<1>1. \A i \in DOMAIN c.gates : ReadyAt(avail, c.gates[i]) \in Nat
  BY DEF IsAvailable
<1>2. \A w \in Wires(c) : (\A i \in DOMAIN c.gates : c.gates[i].out # w) <=> w \in Done(c, avail, 0)
  BY <1>1 DEF Done
<1>3. ASSUME NEW w \in Done(c, avail, r + 1)
      PROVE  \/ w \in LocalsDone(c, avail, r)
             \/ \E i \in DOMAIN c.gates : /\ c.gates[i].out = w /\ c.gates[i].op = "and"
                                          /\ ReadyAt(avail, c.gates[i]) = r
  <2>1. w \in Wires(c) /\ \A i \in DOMAIN c.gates : c.gates[i].out = w => ReadyAt(avail, c.gates[i]) <= r
    BY <1>1 DEF Done
  <2> QED BY <1>1, <2>1 DEF LocalsDone
<1>4. ASSUME Formed(c), \A w \in Wires(c) : avail[w] <= r
      PROVE  Wires(c) = LocalsDone(c, avail, r)
  <2> SUFFICES ASSUME NEW i \in DOMAIN c.gates
               PROVE  \/ ReadyAt(avail, c.gates[i]) < r
                      \/ ReadyAt(avail, c.gates[i]) = r /\ c.gates[i].op # "and"
    BY DEF LocalsDone
  <2> DEFINE s == ReadyAt(avail, c.gates[i])
  <2>1. c.gates[i].out \in Wires(c)
    BY <1>4, GatesAre DEF IsGate
  <2>2. avail[c.gates[i].out] <= r
    BY <1>4, <2>1
  <2>3. avail[c.gates[i].out] = IF c.gates[i].op = "and" THEN s + 1 ELSE s
    BY DEF IsAvailable
  <2>4. s \in Nat
    BY <1>1
  <2> HIDE DEF s
  <2>5. s < r \/ (s = r /\ c.gates[i].op # "and")
    BY <2>2, <2>3, <2>4
  <2> QED BY <2>5 DEF s
<1> QED BY <1>2, <1>3, <1>4

(* A local gate on shares of the right bits.                               *)
LEMMA LocalValueRight ==
    ASSUME NEW c, NEW g, IsGate(c, g), g.op # "and", NEW all, NEW l \in all, NEW E, NEW t,
           Has(t, g.left, l) <=> 0 \in E[g.left], Has(t, g.right, l) <=> 0 \in E[g.right]
    PROVE  l \in (LocalValue(0, g, t[0], all)[1] ## LocalValue(1, g, t[1], all)[1]
                    ## LocalValue(2, g, t[2], all)[1]) <=> 0 \in ClearValue(g, E, {0})
<1>1. CASE g.op = "xor"
  <2>1. \A p : LocalValue(p, g, t[p], all)[1] = t[p][g.left][1] ## t[p][g.right][1]
    BY <1>1 DEF LocalValue, PairXor
  <2>2. ClearValue(g, E, {0}) = E[g.left] ## E[g.right]
    BY <1>1 DEF ClearValue
  <2> QED BY <2>1, <2>2, InSymDiff DEF Has
<1>2. CASE g.op = "inv"
  <2>1. /\ LocalValue(0, g, t[0], all)[1] = t[0][g.left][1] ## all
        /\ LocalValue(1, g, t[1], all)[1] = t[1][g.left][1] ## {}
        /\ LocalValue(2, g, t[2], all)[1] = t[2][g.left][1] ## {}
    BY <1>2 DEF LocalValue, PairXor, PublicPair
  <2>2. ClearValue(g, E, {0}) = E[g.left] ## {0}
    BY <1>2 DEF ClearValue
  <2>3. l \notin {} /\ 0 \in {0}
    OBVIOUS
  <2> QED BY <2>1, <2>2, <2>3, InSymDiff DEF Has
<1> QED BY <1>1, <1>2 DEF IsGate

(* Going through the local gates of a round in order: what they read is    *)
(* right by then, and what they write stays right.                         *)
LEMMA RoundLocals ==
    ASSUME NEW c, Formed(c), NEW avail, IsAvailable(c, avail), NEW n \in Nat, DOMAIN c.gates = 1..n,
           NEW r \in Nat, NEW L, InOrder(L, c, avail, r, FALSE, n),
           NEW all, NEW l \in all, NEW E, IsTable(E, c), NEW t,
           \A p \in Parties : DOMAIN t[p] = Wires(c), RightOn(t, Done(c, avail, r), l, E)
    PROVE  LET u == [p \in Parties |-> LocalGates(p, L, t[p], all)]
           IN /\ \A p \in Parties : DOMAIN u[p] = Wires(c)
              /\ RightOn(u, LocalsDone(c, avail, r), l, E)
<1>0. PICK N \in Nat : N = Len(L) /\ DOMAIN L = 1..N
  <2>1. L \in Seq({c.gates[i] : i \in 1..n})
    BY DEF InOrder
  <2> QED BY <2>1
<1> DEFINE W == Wires(c)
           a(p) == [seq |-> L, p |-> p, all |-> all]
           IsRun(p, h) == Runs(h, "local", a(p), t[p], N) /\ LocalGates(p, L, t[p], all) = h[N]
           h(p) == CHOOSE f : IsRun(p, f)
           T(k) == [p \in Parties |-> h(p)[k]]
           B(i) == ReadyAt(avail, c.gates[i]) = r /\ c.gates[i].op # "and"
           D(k) == Done(c, avail, r) \cup {L[m].out : m \in 1..k}
           Fine(k) == (\A p \in Parties : DOMAIN h(p)[k] = W) /\ RightOn(T(k), D(k), l, E)
           S == {k \in 0..N : Fine(k)}
<1>1. /\ \A k \in 1..N : \E i \in 1..n :
            /\ L[k] = c.gates[i] /\ B(i)
            /\ \A j \in 1..(i - 1) : B(j) => \E m \in 1..(k - 1) : L[m] = c.gates[j]
      /\ \A i \in 1..n : B(i) => \E k \in 1..N : L[k] = c.gates[i]
  <2>3. \A i : Belongs(c.gates[i], avail, r, FALSE) <=> B(i)
    BY DEF Belongs
  <2> HIDE DEF B
  <2> QED BY <1>0, <2>3 DEF InOrder
<1>2. \A i \in 1..n : IsGate(c, c.gates[i])
  BY GatesAre
<1>3. ASSUME NEW p \in Parties PROVE IsRun(p, h(p))
  <2>1. \E f : IsRun(p, f)
    BY <1>0, LocalGatesRuns
  <2> HIDE DEF IsRun
  <2> QED BY <2>1
<1> HIDE DEF h
<1>4. Fine(0)
  <2>1. ASSUME NEW p \in Parties PROVE h(p)[0] = t[p]
    BY <1>3 DEF Runs
  <2>2. D(0) = Done(c, avail, r)
    <3>1. 1..0 = {}
      OBVIOUS
    <3> QED BY <3>1
  <2>3. 0 \in Parties /\ 1 \in Parties /\ 2 \in Parties
    BY DEF Parties
  <2>4. \A w : Has(T(0), w, l) <=> Has(t, w, l)
    <3>1. T(0)[0] = t[0] /\ T(0)[1] = t[1] /\ T(0)[2] = t[2]
      BY <2>1, <2>3
    <3> HIDE DEF T
    <3> QED BY <3>1 DEF Has
  <2>5. ASSUME NEW p \in Parties PROVE DOMAIN h(p)[0] = W
    BY <2>1
  <2> HIDE DEF T, D, W
  <2>6. RightOn(T(0), D(0), l, E)
    BY <2>2, <2>4 DEF RightOn
  <2> QED BY <2>5, <2>6
<1>5. ASSUME NEW k \in 0..(N - 1), Fine(k) PROVE Fine(k + 1)
  <2> DEFINE K == k + 1
             g == L[K]
             V(p) == LocalValue(p, g, h(p)[k], all)
  <2>1. K \in 1..N /\ K \in Nat /\ K - 1 = k
    OBVIOUS
  <2> HIDE DEF B
  <2>2. PICK i \in 1..n :
            /\ g = c.gates[i] /\ B(i)
            /\ \A j \in 1..(i - 1) : B(j) => \E m \in 1..k : L[m] = c.gates[j]
    <3> HIDE DEF K
    <3> QED BY <1>1, <2>1
  <2>3. IsGate(c, g) /\ g.op # "and"
    BY <1>2, <2>2 DEF B
  <2>4. ASSUME NEW w \in {g.left, g.right} PROVE w \in D(k)
    <3>1. w \in LocalsDone(c, avail, r) /\ w \in W
      <4>1. w \in {c.gates[i].left, c.gates[i].right} /\ ReadyAt(avail, c.gates[i]) = r /\ i \in DOMAIN c.gates
        BY <2>2 DEF B
      <4>2. w \in LocalsDone(c, avail, r)
        BY <4>1, ReadsDone
      <4> QED BY <4>2 DEF LocalsDone
    <3>2. CASE w \in Done(c, avail, r)
      BY <3>2
    <3>3. CASE w \notin Done(c, avail, r)
      <4>1. PICK j \in 1..n : c.gates[j].out = w /\ ~(ReadyAt(avail, c.gates[j]) < r)
        BY <3>1, <3>3 DEF Done
      <4>2. B(j)
        BY <3>1, <4>1 DEF LocalsDone, B
      <4>3. w \in c.gates[i].in
        BY <2>2, <2>3 DEF IsGate
      <4>4. ~(i <= j)
        BY <4>1, <4>3 DEF Formed
      <4>5. j \in 1..(i - 1)
        BY <4>4
      <4>6. PICK m \in 1..k : L[m] = c.gates[j]
        BY <2>2, <4>2, <4>5
      <4> QED BY <4>1, <4>6
    <3> QED BY <3>2, <3>3
  <2>5. ASSUME NEW p \in Parties PROVE h(p)[K] = [h(p)[k] EXCEPT ![g.out] = V(p)]
    <3>1. h(p)[K] = FoldStep("local", a(p), h(p)[k], K)
      BY <1>3, <2>1 DEF Runs
    <3> QED BY <3>1 DEF FoldStep, GateValue
  <2>6. 0 \in Parties /\ 1 \in Parties /\ 2 \in Parties
    BY DEF Parties
  <2>7. ASSUME NEW p \in Parties PROVE T(k)[p] = h(p)[k]
    OBVIOUS
  <2>8. l \in (V(0)[1] ## V(1)[1] ## V(2)[1]) <=> 0 \in E[g.out]
    <3>1. Has(T(k), g.left, l) <=> 0 \in E[g.left]
      <4> HIDE DEF T, D
      <4> QED BY <1>5, <2>4 DEF RightOn
    <3>2. Has(T(k), g.right, l) <=> 0 \in E[g.right]
      <4> HIDE DEF T, D
      <4> QED BY <1>5, <2>4 DEF RightOn
    <3>3. l \in (LocalValue(0, g, T(k)[0], all)[1] ## LocalValue(1, g, T(k)[1], all)[1]
                    ## LocalValue(2, g, T(k)[2], all)[1]) <=> 0 \in ClearValue(g, E, {0})
      <4> HIDE DEF T, g
      <4> QED BY <2>3, <3>1, <3>2, LocalValueRight
    <3>4. E[g.out] = ClearValue(g, E, {0})
      BY <2>2 DEF IsTable
    <3> HIDE DEF T, g
    <3> QED BY <2>6, <2>7, <3>3, <3>4
  <2>9. ASSUME NEW p \in Parties
        PROVE  /\ DOMAIN h(p)[K] = W
               /\ \A w \in W : h(p)[K][w] = IF w = g.out THEN V(p) ELSE h(p)[k][w]
    <3> HIDE DEF V, g, K, W
    <3> QED BY <1>5, <2>5
  <2>10. \A w \in D(K) : w \in W /\ (w = g.out \/ w \in D(k))
    <3> SUFFICES ASSUME NEW w \in D(K) PROVE w \in W /\ (w = g.out \/ w \in D(k))
      OBVIOUS
    <3>1. CASE w \in Done(c, avail, r)
      BY <3>1 DEF Done
    <3>2. CASE w \notin Done(c, avail, r)
      <4>1. PICK m \in 1..K : w = L[m].out
        BY <3>2
      <4>2. m \in 1..N
        BY <2>1
      <4>3. w \in W
        BY <1>1, <1>2, <4>1, <4>2 DEF IsGate
      <4>4. m = K \/ m \in 1..k
        BY <2>1
      <4> QED BY <4>1, <4>3, <4>4
    <3> QED BY <3>1, <3>2
  <2>11. \A w \in D(K) : Has(T(K), w, l) <=> 0 \in E[w]
    <3> SUFFICES ASSUME NEW w \in D(K) PROVE Has(T(K), w, l) <=> 0 \in E[w]
      BY Zenon
    <3>1. w \in W
      BY <2>10
    <3>2. Has(T(K), w, l) <=> l \in (h(0)[K][w][1] ## h(1)[K][w][1] ## h(2)[K][w][1])
      BY <2>6 DEF Has
    <3>3. CASE w = g.out
      <4> HIDE DEF V, g, K, W, T, D
      <4> QED BY <2>6, <2>8, <2>9, <3>1, <3>2, <3>3
    <3>4. CASE w # g.out
      <4>1. w \in D(k)
        BY <2>10, <3>4
      <4>2. Has(T(k), w, l) <=> 0 \in E[w]
        <5> HIDE DEF T, D
        <5> QED BY <1>5, <4>1 DEF RightOn
      <4>3. Has(T(k), w, l) <=> l \in (h(0)[k][w][1] ## h(1)[k][w][1] ## h(2)[k][w][1])
        BY <2>6 DEF Has
      <4>4. h(0)[K][w] = h(0)[k][w] /\ h(1)[K][w] = h(1)[k][w] /\ h(2)[K][w] = h(2)[k][w]
        <5> HIDE DEF V, g, K, W
        <5> QED BY <2>6, <2>9, <3>1, <3>4
      <4> HIDE DEF T, K
      <4> QED BY <3>2, <4>2, <4>3, <4>4
    <3> QED BY <3>3, <3>4
  <2>12. RightOn(T(K), D(K), l, E)
    <3> HIDE DEF T, D
    <3> QED BY <2>11 DEF RightOn
  <2>13. ASSUME NEW p \in Parties PROVE DOMAIN h(p)[K] = W
    BY <2>9
  <2> HIDE DEF T, D, W
  <2> QED BY <2>12, <2>13
<1>6. 0 \in S /\ \A k \in 0..(N - 1) : k \in S => k + 1 \in S
  <2> HIDE DEF Fine
  <2> QED BY <1>4, <1>5
<1>7. Fine(N)
  <2> HIDE DEF S
  <2>1. \A k \in 0..N : k \in S
    BY <1>6, UpTo
  <2> HIDE DEF Fine
  <2> QED BY <2>1 DEF S
<1>8. LocalsDone(c, avail, r) \subseteq D(N)
  <2> SUFFICES ASSUME NEW w \in LocalsDone(c, avail, r), w \notin Done(c, avail, r) PROVE w \in D(N)
    OBVIOUS
  <2>1. w \in W
    BY DEF LocalsDone
  <2>2. PICK j \in 1..n : c.gates[j].out = w /\ ~(ReadyAt(avail, c.gates[j]) < r)
    BY <2>1 DEF Done
  <2>3. B(j)
    BY <2>2 DEF LocalsDone, B
  <2>4. PICK k \in 1..N : L[k] = c.gates[j]
    BY <1>1, <2>3
  <2> QED BY <2>2, <2>4
<1>9. T(N) = [p \in Parties |-> LocalGates(p, L, t[p], all)]
  <2>1. ASSUME NEW p \in Parties PROVE h(p)[N] = LocalGates(p, L, t[p], all)
    BY <1>3
  <2> QED BY <2>1, Zenon
<1>10. \A w \in LocalsDone(c, avail, r) : Has(T(N), w, l) <=> 0 \in E[w]
  <2> HIDE DEF T, D
  <2> QED BY <1>7, <1>8 DEF RightOn
<1>11. ASSUME NEW p \in Parties PROVE DOMAIN T(N)[p] = W
  <2>1. DOMAIN h(p)[N] = W
    BY <1>7
  <2> QED BY <2>1
<1>12. RightOn(T(N), LocalsDone(c, avail, r), l, E)
  <2> HIDE DEF T
  <2> QED BY <1>10 DEF RightOn
<1> HIDE DEF W, T
<1> QED BY <1>9, <1>11, <1>12, Zenon DEF W

(* The three parties' products for an AND, each hidden by its zero share,  *)
(* are shares of the AND.                                                  *)
LEMMA ProductsRight ==
    ASSUME NEW c, NEW g, IsGate(c, g), g.op = "and", NEW l, NEW E, NEW t,
           \A p \in Parties : Fitting(t[p], t[NextOf(p)], Wires(c)),
           Has(t, g.left, l) <=> 0 \in E[g.left], Has(t, g.right, l) <=> 0 \in E[g.right],
           NEW z, l \notin (z[0] ## z[1] ## z[2])
    PROVE  l \in (Product(g, t[0], z[0]) ## Product(g, t[1], z[1]) ## Product(g, t[2], z[2]))
              <=> 0 \in ClearValue(g, E, {0})
<1> DEFINE x(p) == t[p][g.left][1]
           y(p) == t[p][g.right][1]
<1>1. /\ 0 \in Parties /\ 1 \in Parties /\ 2 \in Parties
      /\ NextOf(0) = 1 /\ NextOf(1) = 2 /\ NextOf(2) = 0
  BY DEF Parties, NextOf
<1>2. g.left \in Wires(c) /\ g.right \in Wires(c)
  BY DEF IsGate
<1>3. /\ t[0][g.left][2] = x(1) /\ t[1][g.left][2] = x(2) /\ t[2][g.left][2] = x(0)
      /\ t[0][g.right][2] = y(1) /\ t[1][g.right][2] = y(2) /\ t[2][g.right][2] = y(0)
  BY <1>1, <1>2 DEF Fitting
<1>4. /\ Product(g, t[0], z[0]) = (x(0) \cap y(0)) ## (x(0) \cap y(1)) ## (x(1) \cap y(0)) ## z[0]
      /\ Product(g, t[1], z[1]) = (x(1) \cap y(1)) ## (x(1) \cap y(2)) ## (x(2) \cap y(1)) ## z[1]
      /\ Product(g, t[2], z[2]) = (x(2) \cap y(2)) ## (x(2) \cap y(0)) ## (x(0) \cap y(2)) ## z[2]
  BY <1>3 DEF Product
<1>5. ClearValue(g, E, {0}) = E[g.left] \cap E[g.right]
  BY DEF ClearValue
<1>6. /\ l \in (x(0) ## x(1) ## x(2)) <=> 0 \in E[g.left]
      /\ l \in (y(0) ## y(1) ## y(2)) <=> 0 \in E[g.right]
  BY DEF Has
<1> HIDE DEF x, y
<1> QED BY <1>4, <1>5, <1>6, InSymDiff, SMTT(30)

(* Zero shares that cancel in lane l; tapes u that are t except for the     *)
(* products of the round's ANDs as first components.                       *)
Cancel(z, ands, l) == \A k \in DOMAIN ands : l \notin (z[0][k] ## z[1][k] ## z[2][k])
RoundProducts(u, t, z, ands, W) ==
    \A p \in Parties : \A w \in W :
        u[p][w][1] = IF \E k \in DOMAIN ands : ands[k].out = w
                       THEN LET k == CHOOSE k \in DOMAIN ands : ands[k].out = w
                            IN Product(ands[k], t[p], z[p][k])
                       ELSE t[p][w][1]

(* The ANDs of a round: the products become first components.              *)
LEMMA RoundAnds ==
    ASSUME NEW c, Formed(c), NEW avail, IsAvailable(c, avail), NEW n \in Nat, DOMAIN c.gates = 1..n,
           NEW r \in Nat, NEW L, InOrder(L, c, avail, r, TRUE, n),
           NEW l, NEW E, IsTable(E, c), NEW t,
           \A p \in Parties : Fitting(t[p], t[NextOf(p)], Wires(c)),
           RightOn(t, LocalsDone(c, avail, r), l, E),
           NEW z, Cancel(z, L, l), NEW u, RoundProducts(u, t, z, L, Wires(c))
    PROVE  RightOn(u, Done(c, avail, r + 1), l, E)
<1> DEFINE On(w) == \E k \in DOMAIN L : L[k].out = w
           Place(w) == CHOOSE k \in DOMAIN L : L[k].out = w
<1>0. 0 \in Parties /\ 1 \in Parties /\ 2 \in Parties
  BY DEF Parties
<1>1. /\ \A k \in DOMAIN L : \E i \in 1..n :
            L[k] = c.gates[i] /\ c.gates[i].op = "and" /\ ReadyAt(avail, c.gates[i]) = r
      /\ \A i \in 1..n : c.gates[i].op = "and" /\ ReadyAt(avail, c.gates[i]) = r =>
            \E k \in DOMAIN L : L[k] = c.gates[i]
  <2>1. L \in Seq({c.gates[i] : i \in 1..n})
    BY DEF InOrder
  <2>2. DOMAIN L = 1..Len(L)
    BY <2>1
  <2>3. \A i : Belongs(c.gates[i], avail, r, TRUE) <=>
                    c.gates[i].op = "and" /\ ReadyAt(avail, c.gates[i]) = r
    BY DEF Belongs
  <2> QED BY <2>2, <2>3 DEF InOrder
<1>2. SUFFICES ASSUME NEW w \in Done(c, avail, r + 1)
               PROVE  Has(u, w, l) <=> 0 \in E[w]
  BY DEF RightOn
<1>3. w \in Wires(c)
  BY DEF Done
<1>4. CASE On(w)
  <2> DEFINE k == Place(w)
             g == L[k]
  <2>1. k \in DOMAIN L /\ g.out = w
    BY <1>4
  <2>2. /\ u[0][w][1] = Product(g, t[0], z[0][k]) /\ u[1][w][1] = Product(g, t[1], z[1][k])
        /\ u[2][w][1] = Product(g, t[2], z[2][k])
    BY <1>0, <1>3, <1>4 DEF RoundProducts
  <2> HIDE DEF k
  <2>3. PICK i \in 1..n : g = c.gates[i] /\ c.gates[i].op = "and" /\ ReadyAt(avail, c.gates[i]) = r
    BY <1>1, <2>1
  <2>4. IsGate(c, g) /\ g.op = "and" /\ E[w] = ClearValue(g, E, {0})
    BY <2>1, <2>3, GatesAre DEF IsTable
  <2>5. g.left \in LocalsDone(c, avail, r) /\ g.right \in LocalsDone(c, avail, r)
    BY <2>3, ReadsDone
  <2> HIDE DEF g
  <2>6. (Has(t, g.left, l) <=> 0 \in E[g.left]) /\ (Has(t, g.right, l) <=> 0 \in E[g.right])
    BY <2>5 DEF RightOn
  <2> DEFINE y == [p \in Parties |-> z[p][k]]
  <2>7. y[0] = z[0][k] /\ y[1] = z[1][k] /\ y[2] = z[2][k]
    BY <1>0
  <2>8. l \notin (y[0] ## y[1] ## y[2])
    BY <2>1, <2>7 DEF Cancel
  <2> HIDE DEF y
  <2>9. l \in (Product(g, t[0], y[0]) ## Product(g, t[1], y[1]) ## Product(g, t[2], y[2]))
              <=> 0 \in ClearValue(g, E, {0})
    BY <2>4, <2>6, <2>8, ProductsRight
  <2> QED BY <2>2, <2>4, <2>7, <2>9 DEF Has
<1>5. CASE ~On(w)
  <2>1. /\ u[0][w][1] = t[0][w][1] /\ u[1][w][1] = t[1][w][1] /\ u[2][w][1] = t[2][w][1]
    BY <1>0, <1>3, <1>5 DEF RoundProducts
  <2>2. w \in LocalsDone(c, avail, r)
    <3>1. ~\E i \in 1..n : /\ c.gates[i].out = w /\ c.gates[i].op = "and"
                           /\ ReadyAt(avail, c.gates[i]) = r
      BY <1>1, <1>5
    <3> QED BY <3>1, DoneNext
  <2>3. Has(t, w, l) <=> 0 \in E[w]
    BY <2>2 DEF RightOn
  <2> QED BY <2>1, <2>3 DEF Has
<1> QED BY <1>4, <1>5

(* eval_clear (bristol.rs:44) makes such a table: every gate's output has  *)
(* the gate's value, and what no gate writes is as given.                  *)
LEMMA ClearTableIs ==
    ASSUME NEW c, Formed(c), NEW n \in Nat, DOMAIN c.gates = 1..n,
           NEW inputs, FlattenSeq(inputs) \in Seq({{}, {0}})
    PROVE  LET end == ClearTable(c, inputs, {0})
           IN /\ IsTable(end, c)
              /\ end \in [Wires(c) -> {{}, {0}}]
              /\ \A w \in Wires(c) : (\A i \in 1..n : c.gates[i].out # w) =>
                    end[w] = IF w < Len(FlattenSeq(inputs)) THEN FlattenSeq(inputs)[w + 1] ELSE {}
<1> DEFINE given == FlattenSeq(inputs)
           end == ClearTable(c, inputs, {0})
           a == [seq |-> c.gates, all |-> {0}]
           T == {{}, {0}}
           t == Given(c, inputs)
<1>1. PICK h : Runs(h, "clear", a, t, n) /\ end = h[n]
  <2>1. ASSUME NEW all
        PROVE  \E h : /\ Runs(h, "clear", [seq |-> c.gates, all |-> all], Given(c, inputs), n)
                      /\ ClearTable(c, inputs, all) = h[n]
    BY ClearTableRuns
  <2> QED BY <2>1
<1>0. t = [w \in Wires(c) |-> IF w < Len(given) THEN given[w + 1] ELSE {}]
  BY DEF Given
<1> HIDE DEF given, t
<1>2. \A i \in 1..n : IsGate(c, c.gates[i])
  BY GatesAre
<1>3. t \in [Wires(c) -> T]
  <2>1. ASSUME NEW w \in Wires(c), w < Len(given) PROVE given[w + 1] \in T
    <3>1. w \in Nat /\ given \in Seq(T)
      BY DEF Wires, Formed, given
    <3> QED BY <2>1, <3>1
  <2> QED BY <1>0, <2>1
<1>4. ASSUME NEW i \in 1..n, NEW u \in [Wires(c) -> T] PROVE GateValue("clear", a, c.gates[i], u) \in T
  <2> DEFINE g == c.gates[i]
  <2>1. /\ u[g.left] \in T /\ u[g.right] \in T /\ g.op \in {"xor", "and", "inv"}
    BY <1>2 DEF IsGate
  <2>2. \A x, y \in T : (x ## y) \in T /\ (x \cap y) \in T
    BY DEF ##, SymDiff
  <2> HIDE DEF g, T
  <2>3. ClearValue(g, u, {0}) \in T
    <3>1. {0} \in T
      BY DEF T
    <3>2. CASE g.op = "xor"
      BY <2>1, <2>2, <3>2 DEF ClearValue
    <3>3. CASE g.op = "and"
      BY <2>1, <2>2, <3>3 DEF ClearValue
    <3>4. CASE g.op = "inv"
      BY <2>1, <2>2, <3>1, <3>4 DEF ClearValue
    <3> QED BY <2>1, <3>2, <3>3, <3>4
  <2>4. GateValue("clear", a, g, u) = ClearValue(g, u, {0})
    BY DEF GateValue
  <2> QED BY <2>3, <2>4 DEF g
<1>5. a.seq = c.gates /\ a.all = {0}
  OBVIOUS
<1> HIDE DEF a, T, t, end
<1>6. end \in [Wires(c) -> T] /\ Settled(end, "clear", a, c, t, n)
  <2>1. h[n] \in [Wires(c) -> T] /\ Settled(h[n], "clear", a, c, t, n)
    BY <1>1, <1>3, <1>4, <1>5, RunSettles
  <2> QED BY <1>1, <2>1
<1>7. IsTable(end, c)
  <2>1. \A i \in 1..n : end[c.gates[i].out] = ClearValue(c.gates[i], end, {0})
    BY <1>5, <1>6 DEF Settled, GateValue
  <2> QED BY <2>1 DEF IsTable
<1>8. \A w \in Wires(c) : (\A i \in 1..n : c.gates[i].out # w) =>
                    end[w] = IF w < Len(given) THEN given[w + 1] ELSE {}
  BY <1>0, <1>6 DEF Settled
<1> QED BY <1>6, <1>7, <1>8 DEF end, T, given
=============================================================================
