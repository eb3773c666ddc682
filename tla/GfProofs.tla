------------------------------ MODULE GfProofs ------------------------------
(***************************************************************************)
(* The algebra of the field's proofs, for every modulus that is            *)
(* irreducible.  Sums and products over functions, however they are        *)
(* folded; polynomials, as sums of multiples of (x + 1)(x + 2)...(x + j);  *)
(* one of degree less than n with n zeros is zero; so the weights of       *)
(* lagrange_at reproduce every polynomial of a degree below the number of  *)
(* its points.                                                             *)
(***************************************************************************)
EXTENDS Gf, CircuitProofs

-----------------------------------------------------------------------------
(* The field: sums and products. *)

(* Sums of any words.                                                      *)
LEMMA AddCommutes == \A a, b : a ## b = b ## a
BY DEF ##, SymDiff

(* The order of additions does not matter.                                 *)
LEMMA AddAssoc == \A a, b, c : (a ## b) ## c = a ## (b ## c)
BY DEF ##, SymDiff

(* Two words in front change places.                                       *)
LEMMA AddLeft == \A a, b, c : a ## (b ## c) = b ## (a ## c)
BY DEF ##, SymDiff

(* Two sums are added pair by pair.                                        *)
LEMMA AddPairs == \A a, b, c, d : (a ## b) ## (c ## d) = (a ## c) ## (b ## d)
BY DEF ##, SymDiff

(* A word is its own negative.                                             *)
LEMMA AddSelf == \A a : a ## a = Zero
BY DEF ##, SymDiff, Zero

(* Zero adds nothing.                                                      *)
LEMMA AddZero == \A a : a ## Zero = a /\ Zero ## a = a
BY DEF ##, SymDiff, Zero

(* Words that add up to zero are equal.                                    *)
LEMMA AddEqual == \A a, b : a ## b = Zero => a = b
BY DEF ##, SymDiff, Zero

(* Sums of elements are elements.                                          *)
LEMMA AddType ==
    /\ Zero \in Elements /\ One \in Elements
    /\ \A a, b \in Elements : a ## b \in Elements
BY FieldSize DEF Elements, Zero, One, ##, SymDiff

(* Products of elements of the field.                                      *)
LEMMA TimesType == \A a, b \in Elements : a \otimes b \in Elements
BY FieldAxioms

(* Products commute.                                                       *)
LEMMA TimesCommutes == \A a, b \in Elements : a \otimes b = b \otimes a
BY FieldAxioms

(* The order of multiplications does not matter.                           *)
LEMMA TimesAssoc == \A a, b, c \in Elements : (a \otimes b) \otimes c = a \otimes (b \otimes c)
BY FieldAxioms

(* A product of a sum is a sum of products.                                *)
LEMMA TimesAdd == \A a, b, c \in Elements : a \otimes (b ## c) = (a \otimes b) ## (a \otimes c)
BY FieldAxioms

(* One multiplies to the same.                                             *)
LEMMA TimesOne == \A a \in Elements : a \otimes One = a /\ One \otimes a = a
BY AddType, FieldAxioms

(* Two factors in front change places.                                     *)
LEMMA TimesLeft ==
    ASSUME NEW a \in Elements, NEW b \in Elements, NEW c \in Elements
    PROVE  a \otimes (b \otimes c) = b \otimes (a \otimes c)
<1>1. (a \otimes b) \otimes c = a \otimes (b \otimes c)
  BY TimesAssoc
<1>2. (b \otimes a) \otimes c = b \otimes (a \otimes c)
  BY TimesAssoc
<1>3. a \otimes b = b \otimes a
  BY TimesCommutes
<1> QED BY <1>1, <1>2, <1>3

(* A sum of products, with the sum in front.                               *)
LEMMA AddTimes ==
    ASSUME NEW a \in Elements, NEW b \in Elements, NEW c \in Elements
    PROVE  (b ## c) \otimes a = (b \otimes a) ## (c \otimes a)
<1>1. b ## c \in Elements
  BY AddType
<1>2. (b ## c) \otimes a = a \otimes (b ## c) /\ b \otimes a = a \otimes b /\ c \otimes a = a \otimes c
  BY <1>1, TimesCommutes
<1> QED BY <1>2, TimesAdd

(* Zero multiplies to zero.                                                *)
LEMMA TimesZero ==
    ASSUME NEW a \in Elements
    PROVE  a \otimes Zero = Zero /\ Zero \otimes a = Zero
<1>0. Zero \in Elements /\ Zero ## Zero = Zero
  BY AddType, AddZero
<1>1. a \otimes (Zero ## Zero) = (a \otimes Zero) ## (a \otimes Zero)
  BY <1>0, TimesAdd
<1>2. (a \otimes Zero) ## (a \otimes Zero) = Zero
  BY AddSelf
<1>3. a \otimes Zero = Zero \otimes a
  BY <1>0, TimesCommutes
<1> QED BY <1>0, <1>1, <1>2, <1>3

(* All but zero has an inverse.                                            *)
LEMMA InverseIs == \A a \in Elements : a # Zero => Inv[a] \in Elements /\ a \otimes Inv[a] = One
BY FieldAxioms

(* A product of two elements is not zero, unless one of them is.           *)
LEMMA NoDivisors ==
    ASSUME NEW a \in Elements, NEW b \in Elements, a # Zero, a \otimes b = Zero
    PROVE  b = Zero
<1>1. PICK i \in Elements : a \otimes i = One
  BY InverseIs
<1>2. i \otimes (a \otimes b) = a \otimes (i \otimes b)
  BY TimesLeft
<1>3. (a \otimes i) \otimes b = a \otimes (i \otimes b)
  BY TimesAssoc
<1>4. i \otimes Zero = Zero /\ One \otimes b = b
  BY TimesZero, TimesOne
<1> QED BY <1>1, <1>2, <1>3, <1>4

(* The sums and the products, together.                                    *)
Comb(o, a, b) == IF o = "sum" THEN a ## b ELSE a \otimes b
Unit(o) == IF o = "sum" THEN Zero ELSE One
Gathered(o, f) == IF o = "sum" THEN XorOver(f) ELSE ProductOver(f)

(* Either may be taken in any order.                                       *)
LEMMA CombType == \A o : Unit(o) \in Elements /\ \A a, b \in Elements : Comb(o, a, b) \in Elements
BY AddType, TimesType DEF Comb, Unit

(* Either operation lets two operands in front change places.              *)
LEMMA CombLeft ==
    ASSUME NEW o, NEW a \in Elements, NEW b \in Elements, NEW c \in Elements
    PROVE  Comb(o, a, Comb(o, b, c)) = Comb(o, b, Comb(o, a, c))
<1>1. CASE o = "sum"
  BY <1>1, AddLeft DEF Comb
<1>2. CASE o # "sum"
  BY <1>2, TimesLeft DEF Comb
<1> QED BY <1>1, <1>2

(* A fold that gathers the values of f over the subsets of S.              *)
Gathers(o, g, f, S) ==
    /\ g = [T \in SUBSET S |-> g[T]]
    /\ \A T \in SUBSET S : g[T] = IF T = {} THEN Unit(o) ELSE Comb(o, f[Picked(T)], g[T \ {Picked(T)}])

(* There is such a fold: of the subsets up to a size, then of the next.    *)
LEMMA GatherExists ==
    ASSUME NEW o, NEW f, NEW S, IsFiniteSet(S)
    PROVE  \E g : Gathers(o, g, f, S)
<1> DEFINE Upto(g, k) ==
             /\ g = [T \in SUBSET S |-> g[T]]
             /\ \A T \in SUBSET S : Cardinality(T) <= k =>
                    g[T] = IF T = {} THEN Unit(o) ELSE Comb(o, f[Picked(T)], g[T \ {Picked(T)}])
           Good(k) == \E g : Upto(g, k)
           Fine == {k \in Nat : Good(k)}
<1>0. \A T \in SUBSET S : IsFiniteSet(T) /\ Cardinality(T) \in Nat /\ Cardinality(T) <= Cardinality(S)
  BY FS_Subset, FS_CardinalityType
<1>1. Good(0)
  <2> DEFINE g == [T \in SUBSET S |-> Unit(o)]
  <2>1. \A T \in SUBSET S : Cardinality(T) <= 0 => T = {}
    BY <1>0, FS_EmptySet
  <2>2. Upto(g, 0)
    BY <2>1
  <2> QED BY <2>2
<1>2. ASSUME NEW k \in Nat, Good(k) PROVE Good(k + 1)
  <2>1. PICK g : Upto(g, k)
    BY <1>2
  <2> DEFINE h == [T \in SUBSET S |->
                     IF Cardinality(T) <= k THEN g[T] ELSE Comb(o, f[Picked(T)], g[T \ {Picked(T)}])]
  <2>2. ASSUME NEW T \in SUBSET S, Cardinality(T) <= k + 1, T # {}
        PROVE  h[T] = Comb(o, f[Picked(T)], h[T \ {Picked(T)}])
    <3>1. Picked(T) \in T
      BY <2>2, PickedIn
    <3>2. /\ T \ {Picked(T)} \in SUBSET S /\ Cardinality(T \ {Picked(T)}) = Cardinality(T) - 1
          /\ Cardinality(T) \in Nat
      BY <3>1, Smaller
    <3>3. h[T \ {Picked(T)}] = g[T \ {Picked(T)}]
      BY <2>2, <3>2
    <3> QED BY <2>1, <2>2, <3>3
  <2>3. h[{}] = Unit(o)
    <3>1. {} \in SUBSET S /\ Cardinality({}) = 0 /\ 0 <= k
      BY FS_EmptySet
    <3> QED BY <2>1, <3>1
  <2>4. h = [T \in SUBSET S |-> h[T]]
    OBVIOUS
  <2> HIDE DEF h
  <2>5. Upto(h, k + 1)
    BY <2>2, <2>3, <2>4
  <2> QED BY <2>5
<1>3. Cardinality(S) \in Nat
  BY FS_CardinalityType
<1>4. Good(Cardinality(S))
  <2> HIDE DEF Good
  <2>1. 0 \in Fine /\ \A n \in 0..(Cardinality(S) - 1) : n \in Fine => n + 1 \in Fine
    BY <1>1, <1>2, <1>3
  <2> HIDE DEF Fine
  <2>2. \A n \in 0..Cardinality(S) : n \in Fine
    BY <1>3, <2>1, UpTo
  <2> QED BY <1>3, <2>2 DEF Fine
<1>5. PICK g : Upto(g, Cardinality(S))
  BY <1>4
<1>6. Gathers(o, g, f, S)
  BY <1>0, <1>5 DEF Gathers
<1> QED BY <1>6

(* A fold of functions is such a fold.                                     *)
LEMMA GatheredFold ==
    ASSUME NEW o, NEW f, IsFiniteSet(DOMAIN f)
    PROVE  \E g : Gathers(o, g, f, DOMAIN f) /\ Gathered(o, f) = g[DOMAIN f]
<1> DEFINE S == DOMAIN f
           IsX(g) == g = [T \in SUBSET S |->
                IF T = {} THEN {} ELSE f[CHOOSE x \in T : TRUE] ## g[T \ {CHOOSE x \in T : TRUE}]]
           IsP(g) == g = [T \in SUBSET S |->
                IF T = {} THEN One ELSE f[CHOOSE x \in T : TRUE] \otimes g[T \ {CHOOSE x \in T : TRUE}]]
           X == CHOOSE g : IsX(g)
           P == CHOOSE g : IsP(g)
<1>1. PICK g : Gathers(o, g, f, S)
  BY GatherExists
<1>2. CASE o = "sum"
  <2>1. IsX(g)
    BY <1>1, <1>2 DEF Gathers, Picked, Comb, Unit, Zero
  <2>2. IsX(X)
    <3> HIDE DEF IsX
    <3> QED BY <2>1
  <2>3. Gathered(o, f) = X[S]
    BY <1>2 DEF Gathered, XorOver, FoldFunction, FoldFunctionOnSet, MapThenFoldSet
  <2> HIDE DEF X
  <2>4. Gathers(o, X, f, S)
    BY <1>2, <2>2 DEF Gathers, Picked, Comb, Unit, Zero
  <2> QED BY <2>3, <2>4
<1>3. CASE o # "sum"
  <2>1. IsP(g)
    BY <1>1, <1>3 DEF Gathers, Picked, Comb, Unit
  <2>2. IsP(P)
    <3> HIDE DEF IsP
    <3> QED BY <2>1
  <2>3. Gathered(o, f) = P[S]
    BY <1>3 DEF Gathered, ProductOver, FoldFunction, FoldFunctionOnSet, MapThenFoldSet
  <2> HIDE DEF P
  <2>4. Gathers(o, P, f, S)
    BY <1>3, <2>2 DEF Gathers, Picked, Comb, Unit
  <2> QED BY <2>3, <2>4
<1> QED BY <1>2, <1>3

(* The values of f on S are elements; f and h have the same ones.          *)
ElementsOn(f, S) == \A x \in S : f[x] \in Elements
SameOn(f, h, S) == \A x \in S : f[x] = h[x]

AnyFirst(o, g, f, S) ==
    \A T \in SUBSET S : g[T] \in Elements /\ \A y \in T : g[T] = Comb(o, f[y], g[T \ {y}])

(* Such a fold may take any value first.                                   *)
LEMMA GatherTakes ==
    ASSUME NEW o, NEW S, IsFiniteSet(S), NEW f, ElementsOn(f, S), NEW g, Gathers(o, g, f, S)
    PROVE  AnyFirst(o, g, f, S)
<1> DEFINE Fine(T) == g[T] \in Elements /\ \A y \in T : g[T] = Comb(o, f[y], g[T \ {y}])
           Bad == {T \in SUBSET S : ~Fine(T)}
<1> SUFFICES ASSUME Bad # {} PROVE FALSE
  BY DEF AnyFirst
<1>1. PICK T \in Bad : \A U \in Bad : Cardinality(T) <= Cardinality(U)
  <2>1. Bad \in SUBSET (SUBSET S)
    OBVIOUS
  <2> HIDE DEF Bad
  <2> QED BY <2>1, SmallestSubset
<1>2. ASSUME NEW V \in SUBSET S, NEW y \in V, V \subseteq T PROVE V \ {y} \in SUBSET S /\ Fine(V \ {y})
  <2>1. V \ {y} \in SUBSET S /\ Cardinality(V \ {y}) = Cardinality(V) - 1 /\ Cardinality(V) \in Nat
    BY Smaller
  <2>2. Cardinality(V) <= Cardinality(T) /\ Cardinality(T) \in Nat
    BY <1>1, <1>2, FS_Subset, FS_CardinalityType
  <2>3. ~(Cardinality(T) <= Cardinality(V \ {y}))
    BY <2>1, <2>2
  <2> HIDE DEF Fine
  <2> QED BY <1>1, <2>1, <2>3
<1>3. T # {}
  <2>1. g[{}] = Unit(o)
    BY DEF Gathers
  <2>2. Fine({})
    <3> QED BY <2>1, CombType
  <2>3. ~Fine(T)
    BY <1>1
  <2> HIDE DEF Fine
  <2> QED BY <2>2, <2>3
<1> DEFINE x == Picked(T)
<1>4. x \in T /\ f[x] \in Elements /\ g[T] = Comb(o, f[x], g[T \ {x}])
  BY <1>1, <1>3, PickedIn DEF Gathers, ElementsOn
<1> HIDE DEF x
<1>5. g[T \ {x}] \in Elements
  BY <1>1, <1>2, <1>4
<1>6. ASSUME NEW y \in T, y # x PROVE g[T] = Comb(o, f[y], g[T \ {y}])
  <2>1. y \in T \ {x} /\ x \in T \ {y} /\ (T \ {x}) \ {y} = (T \ {y}) \ {x} /\ f[y] \in Elements
    BY <1>1, <1>4, <1>6 DEF ElementsOn
  <2>2. g[T \ {x}] = Comb(o, f[y], g[(T \ {x}) \ {y}])
    <3> HIDE DEF Fine
    <3>1. Fine(T \ {x})
      BY <1>1, <1>2, <1>4
    <3> QED BY <2>1, <3>1 DEF Fine
  <2>3. g[T \ {y}] = Comb(o, f[x], g[(T \ {y}) \ {x}]) /\ g[T \ {y}] \in Elements
    <3> HIDE DEF Fine
    <3>1. Fine(T \ {y})
      BY <1>1, <1>2
    <3> QED BY <2>1, <3>1 DEF Fine
  <2>4. g[(T \ {x}) \ {y}] \in Elements
    <3>1. T \ {x} \in SUBSET S /\ T \ {x} \subseteq T
      BY <1>1
    <3> HIDE DEF Fine
    <3>2. Fine((T \ {x}) \ {y})
      BY <1>2, <2>1, <3>1
    <3> QED BY <3>2 DEF Fine
  <2>5. Comb(o, f[x], Comb(o, f[y], g[(T \ {x}) \ {y}])) = Comb(o, f[y], Comb(o, f[x], g[(T \ {x}) \ {y}]))
    BY <1>4, <2>1, <2>4, CombLeft
  <2> QED BY <1>4, <2>1, <2>2, <2>3, <2>5
<1>7. g[T] \in Elements /\ \A y \in T : g[T] = Comb(o, f[y], g[T \ {y}])
  <2>1. g[T] \in Elements
    BY <1>4, <1>5, CombType
  <2>2. ASSUME NEW y \in T PROVE g[T] = Comb(o, f[y], g[T \ {y}])
    <3>1. CASE y = x
      BY <1>4, <3>1
    <3> QED BY <1>6, <3>1
  <2> QED BY <2>1, <2>2
<1>8. ~Fine(T)
  BY <1>1
<1> QED BY <1>7, <1>8

(* Folds of two functions agree where the functions do.                    *)
LEMMA GatherAgrees ==
    ASSUME NEW o, NEW S, NEW R, NEW V, IsFiniteSet(V), V \subseteq S, V \subseteq R,
           NEW f, NEW h, SameOn(f, h, V),
           NEW g, NEW e, Gathers(o, g, f, S), Gathers(o, e, h, R)
    PROVE  SameOn(g, e, SUBSET V)
<1> DEFINE Bad == {T \in SUBSET V : g[T] # e[T]}
<1> SUFFICES ASSUME Bad # {} PROVE FALSE
  BY DEF SameOn
<1>1. PICK T \in Bad : \A U \in Bad : Cardinality(T) <= Cardinality(U)
  <2>1. Bad \in SUBSET (SUBSET V)
    OBVIOUS
  <2> HIDE DEF Bad
  <2> QED BY <2>1, SmallestSubset
<1>2. T \in SUBSET S /\ T \in SUBSET R /\ T \in SUBSET V
  BY <1>1
<1>3. T # {}
  BY <1>1, <1>2 DEF Gathers
<1>4. Picked(T) \in T /\ f[Picked(T)] = h[Picked(T)]
  BY <1>2, <1>3, PickedIn DEF SameOn
<1>5. g[T \ {Picked(T)}] = e[T \ {Picked(T)}]
  <2>1. T \ {Picked(T)} \in SUBSET V /\ Cardinality(T \ {Picked(T)}) = Cardinality(T) - 1 /\ Cardinality(T) \in Nat
    BY <1>2, <1>4, Smaller
  <2>2. ~(Cardinality(T) <= Cardinality(T \ {Picked(T)}))
    BY <2>1
  <2> QED BY <1>1, <2>1, <2>2
<1>6. g[T] = Comb(o, f[Picked(T)], g[T \ {Picked(T)}])
  BY <1>2, <1>3 DEF Gathers
<1>7. e[T] = Comb(o, h[Picked(T)], e[T \ {Picked(T)}])
  BY <1>2, <1>3 DEF Gathers
<1> QED BY <1>1, <1>4, <1>5, <1>6, <1>7

(* Gathering one value more.                                               *)
LEMMA GatheredTakes ==
    ASSUME NEW o, NEW S, IsFiniteSet(S), NEW y \in S, NEW f, DOMAIN f = S, ElementsOn(f, S),
           NEW h, DOMAIN h = S \ {y}, SameOn(f, h, S \ {y})
    PROVE  /\ Gathered(o, f) = Comb(o, f[y], Gathered(o, h))
           /\ Gathered(o, f) \in Elements /\ Gathered(o, h) \in Elements
<1> DEFINE R == S \ {y}
<1>1. IsFiniteSet(R) /\ R \subseteq S /\ R \in SUBSET S /\ S \in SUBSET S
  BY FS_Subset
<1>2. PICK g : Gathers(o, g, f, S) /\ Gathered(o, f) = g[S]
  BY GatheredFold
<1>3. PICK e : Gathers(o, e, h, R) /\ Gathered(o, h) = e[R]
  BY <1>1, GatheredFold
<1>4. g[S] = Comb(o, f[y], g[R]) /\ g[S] \in Elements /\ g[R] \in Elements
  <2>1. AnyFirst(o, g, f, S)
    BY <1>2, GatherTakes
  <2> QED BY <1>1, <2>1 DEF AnyFirst
<1>5. SameOn(g, e, SUBSET R)
  <2>1. SameOn(f, h, R)
    OBVIOUS
  <2> HIDE DEF R
  <2> QED BY <1>1, <1>2, <1>3, <2>1, GatherAgrees
<1>6. g[R] = e[R]
  BY <1>5 DEF SameOn
<1> QED BY <1>2, <1>3, <1>4, <1>6

(* Gathering nothing.                                                      *)
LEMMA GatheredNone ==
    ASSUME NEW o, NEW f, DOMAIN f = {}
    PROVE  Gathered(o, f) = Unit(o)
<1>1. PICK g : Gathers(o, g, f, {}) /\ Gathered(o, f) = g[{}]
  BY FS_EmptySet, GatheredFold
<1> QED BY <1>1 DEF Gathers

-----------------------------------------------------------------------------
(* The first n values of f. *)
SumTo(f, n) == XorOver([j \in 1..n |-> f[j]])
ProductTo(f, n) == ProductOver([j \in 1..n |-> f[j]])

(* f has elements of the field for its first n values.                     *)
Valued(f, n) == \A j \in 1..n : f[j] \in Elements

(* Nothing to add, nothing to multiply.                                    *)
LEMMA ToNone == \A f : SumTo(f, 0) = Zero /\ ProductTo(f, 0) = One
<1> TAKE f
<1> DEFINE g == [j \in 1..0 |-> f[j]]
<1>1. DOMAIN g = {}
  OBVIOUS
<1> HIDE DEF g
<1>2. Gathered("sum", g) = Zero /\ Gathered("product", g) = One
  BY <1>1, GatheredNone DEF Unit
<1> QED BY <1>2 DEF SumTo, ProductTo, Gathered, g

(* One value more.                                                         *)
LEMMA ToNext ==
    ASSUME NEW n \in Nat, NEW f, Valued(f, n + 1)
    PROVE  /\ SumTo(f, n + 1) = SumTo(f, n) ## f[n + 1]
           /\ ProductTo(f, n + 1) = ProductTo(f, n) \otimes f[n + 1]
           /\ SumTo(f, n) \in Elements /\ SumTo(f, n + 1) \in Elements
           /\ ProductTo(f, n) \in Elements /\ ProductTo(f, n + 1) \in Elements
           /\ f[n + 1] \in Elements
<1> DEFINE S == 1..(n + 1)
           g == [j \in S |-> f[j]]
           h == [j \in 1..n |-> f[j]]
<1>1. IsFiniteSet(S) /\ n + 1 \in S /\ S \ {n + 1} = 1..n /\ f[n + 1] \in Elements
  BY FS_Interval DEF Valued
<1>2. /\ DOMAIN g = S /\ ElementsOn(g, S)
      /\ DOMAIN h = S \ {n + 1} /\ SameOn(g, h, S \ {n + 1})
      /\ g[n + 1] = f[n + 1]
  BY <1>1 DEF Valued, ElementsOn, SameOn
<1> HIDE DEF g, h, S
<1>3. \A o : /\ Gathered(o, g) = Comb(o, f[n + 1], Gathered(o, h))
             /\ Gathered(o, g) \in Elements /\ Gathered(o, h) \in Elements
  BY <1>1, <1>2, GatheredTakes
<1>4. /\ SumTo(f, n + 1) = f[n + 1] ## SumTo(f, n)
      /\ SumTo(f, n) \in Elements /\ SumTo(f, n + 1) \in Elements
  BY <1>3 DEF SumTo, Gathered, Comb, g, h, S
<1>5. /\ ProductTo(f, n + 1) = f[n + 1] \otimes ProductTo(f, n)
      /\ ProductTo(f, n) \in Elements /\ ProductTo(f, n + 1) \in Elements
  <2>1. /\ Gathered("product", g) = f[n + 1] \otimes Gathered("product", h)
        /\ Gathered("product", g) \in Elements /\ Gathered("product", h) \in Elements
    BY <1>3 DEF Comb
  <2> QED BY <2>1 DEF ProductTo, Gathered, g, h, S
<1>6. f[n + 1] ## SumTo(f, n) = SumTo(f, n) ## f[n + 1]
  BY AddCommutes
<1>7. f[n + 1] \otimes ProductTo(f, n) = ProductTo(f, n) \otimes f[n + 1]
  BY <1>1, <1>5, TimesCommutes
<1> QED BY <1>1, <1>4, <1>5, <1>6, <1>7

(* They are elements.                                                      *)
LEMMA ToType ==
    ASSUME NEW n \in Nat, NEW f, Valued(f, n)
    PROVE  SumTo(f, n) \in Elements /\ ProductTo(f, n) \in Elements
<1>1. CASE n = 0
  BY <1>1, ToNone, AddType
<1>2. CASE n # 0
  <2>1. n - 1 \in Nat /\ (n - 1) + 1 = n
    BY <1>2
  <2> QED BY <2>1, ToNext
<1> QED BY <1>1, <1>2

(* The same values.                                                        *)
LEMMA ToSame ==
    ASSUME NEW n \in Nat, NEW f, NEW g, \A j \in 1..n : f[j] = g[j]
    PROVE  SumTo(f, n) = SumTo(g, n) /\ ProductTo(f, n) = ProductTo(g, n)
<1>1. [j \in 1..n |-> f[j]] = [j \in 1..n |-> g[j]]
  OBVIOUS
<1> QED BY <1>1 DEF SumTo, ProductTo

(* A sum of sums.                                                          *)
LEMMA SumOfSums ==
    ASSUME NEW n \in Nat, NEW f, NEW g, NEW h, Valued(f, n), Valued(g, n),
           \A j \in 1..n : h[j] = f[j] ## g[j]
    PROVE  SumTo(h, n) = SumTo(f, n) ## SumTo(g, n)
<1> DEFINE S == {m \in 0..n : SumTo(h, m) = SumTo(f, m) ## SumTo(g, m)}
<1>1. 0 \in S
  BY ToNone, AddZero
<1>2. ASSUME NEW m \in 0..(n - 1), m \in S PROVE m + 1 \in S
  <2>1. m \in Nat /\ m + 1 \in 1..n /\ Valued(f, m + 1) /\ Valued(g, m + 1) /\ Valued(h, m + 1)
    BY AddType DEF Valued
  <2>2. /\ SumTo(f, m + 1) = SumTo(f, m) ## f[m + 1] /\ SumTo(g, m + 1) = SumTo(g, m) ## g[m + 1]
        /\ SumTo(h, m + 1) = SumTo(h, m) ## h[m + 1] /\ h[m + 1] = f[m + 1] ## g[m + 1]
    BY <2>1, ToNext
  <2>3. SumTo(h, m) = SumTo(f, m) ## SumTo(g, m)
    BY <1>2
  <2>4. SumTo(h, m + 1) = SumTo(f, m + 1) ## SumTo(g, m + 1)
    BY <2>2, <2>3, AddPairs
  <2> QED BY <2>1, <2>4
<1> HIDE DEF S
<1>3. n \in S
  BY <1>1, <1>2, UpTo
<1> QED BY <1>3 DEF S

(* A multiple of a sum.                                                    *)
LEMMA SumOfMultiples ==
    ASSUME NEW n \in Nat, NEW f, NEW h, NEW a \in Elements, Valued(f, n),
           \A j \in 1..n : h[j] = a \otimes f[j]
    PROVE  SumTo(h, n) = a \otimes SumTo(f, n)
<1> DEFINE S == {m \in 0..n : SumTo(h, m) = a \otimes SumTo(f, m)}
<1>1. 0 \in S
  BY ToNone, TimesZero
<1>2. ASSUME NEW m \in 0..(n - 1), m \in S PROVE m + 1 \in S
  <2>1. m \in Nat /\ m + 1 \in 1..n /\ Valued(f, m + 1) /\ Valued(h, m + 1)
    BY TimesType DEF Valued
  <2>2. /\ SumTo(f, m + 1) = SumTo(f, m) ## f[m + 1]
        /\ SumTo(f, m) \in Elements /\ f[m + 1] \in Elements
        /\ SumTo(h, m + 1) = SumTo(h, m) ## h[m + 1] /\ h[m + 1] = a \otimes f[m + 1]
    BY <2>1, ToNext
  <2>3. SumTo(h, m) = a \otimes SumTo(f, m)
    BY <1>2
  <2>4. SumTo(h, m + 1) = a \otimes SumTo(f, m + 1)
    BY <2>2, <2>3, TimesAdd
  <2> QED BY <2>1, <2>4
<1> HIDE DEF S
<1>3. n \in S
  BY <1>1, <1>2, UpTo
<1> QED BY <1>3 DEF S

(* Beyond m there are only zeros.                                          *)
LEMMA SumStops ==
    ASSUME NEW n \in Nat, NEW m \in 0..n, NEW f, Valued(f, m), \A j \in (m + 1)..n : f[j] = Zero
    PROVE  SumTo(f, n) = SumTo(f, m)
<1> DEFINE S == {d \in 0..(n - m) : SumTo(f, m + d) = SumTo(f, m)}
<1>1. 0 \in S
  OBVIOUS
<1>2. ASSUME NEW d \in 0..((n - m) - 1), d \in S PROVE d + 1 \in S
  <2>1. m + d \in Nat /\ (m + d) + 1 \in (m + 1)..n
    OBVIOUS
  <2>2. Valued(f, (m + d) + 1)
    <3> SUFFICES ASSUME NEW j \in 1..((m + d) + 1) PROVE f[j] \in Elements
      BY DEF Valued
    <3>1. CASE j \in 1..m
      BY <3>1 DEF Valued
    <3>2. CASE j \in (m + 1)..n
      BY <3>2, AddType
    <3> QED BY <2>1, <3>1, <3>2
  <2>3. SumTo(f, (m + d) + 1) = SumTo(f, m + d) ## f[(m + d) + 1] /\ f[(m + d) + 1] = Zero
    BY <2>1, <2>2, ToNext
  <2>4. SumTo(f, m + (d + 1)) = SumTo(f, m)
    <3>1. m + (d + 1) = (m + d) + 1
      OBVIOUS
    <3> QED BY <1>2, <2>3, <3>1, AddZero
  <2> QED BY <2>4
<1>3. n - m \in Nat /\ m + (n - m) = n
  OBVIOUS
<1> HIDE DEF S
<1>4. n - m \in S
  BY <1>1, <1>2, <1>3, UpTo
<1> QED BY <1>3, <1>4 DEF S

(* A single value that is not zero.                                        *)
LEMMA SumOfOne ==
    ASSUME NEW n \in Nat, NEW i \in 1..n, NEW f, f[i] \in Elements, \A j \in (1..n) \ {i} : f[j] = Zero
    PROVE  SumTo(f, n) = f[i]
<1>1. i - 1 \in Nat /\ i - 1 \in 0..n /\ (i - 1) + 1 = i /\ 0 \in 0..(i - 1)
  OBVIOUS
<1>2. Valued(f, i) /\ Valued(f, i - 1) /\ Valued(f, 0)
  BY AddType DEF Valued
<1>3. SumTo(f, n) = SumTo(f, i)
  <2>1. \A j \in (i + 1)..n : f[j] = Zero
    OBVIOUS
  <2> QED BY <1>2, <2>1, SumStops
<1>4. SumTo(f, i - 1) = SumTo(f, 0)
  <2>1. \A j \in (0 + 1)..(i - 1) : f[j] = Zero
    OBVIOUS
  <2> QED BY <1>1, <1>2, <2>1, SumStops
<1>5. SumTo(f, i) = SumTo(f, i - 1) ## f[i]
  <2>1. Valued(f, (i - 1) + 1)
    BY <1>1, <1>2
  <2> QED BY <1>1, <2>1, ToNext
<1> QED BY <1>3, <1>4, <1>5, ToNone, AddZero

(* A product is zero if a factor is, and only then.                        *)
LEMMA ProductIsZero ==
    ASSUME NEW n \in Nat, NEW f, Valued(f, n)
    PROVE  ProductTo(f, n) = Zero <=> \E j \in 1..n : f[j] = Zero
<1>0. One # Zero
  BY DEF One, Zero
<1> DEFINE S == {m \in 0..n : ProductTo(f, m) = Zero <=> \E j \in 1..m : f[j] = Zero}
<1>1. 0 \in S
  BY <1>0, ToNone
<1>2. ASSUME NEW m \in 0..(n - 1), m \in S PROVE m + 1 \in S
  <2>1. m \in Nat /\ m + 1 \in 1..n /\ Valued(f, m + 1)
    BY DEF Valued
  <2>2. /\ ProductTo(f, m + 1) = ProductTo(f, m) \otimes f[m + 1]
        /\ ProductTo(f, m) \in Elements /\ f[m + 1] \in Elements
    BY <2>1, ToNext
  <2>3. ProductTo(f, m) = Zero <=> \E j \in 1..m : f[j] = Zero
    BY <1>2
  <2>4. ProductTo(f, m + 1) = Zero <=> ProductTo(f, m) = Zero \/ f[m + 1] = Zero
    BY <2>2, TimesZero, NoDivisors
  <2>5. (\E j \in 1..(m + 1) : f[j] = Zero) <=> (\E j \in 1..m : f[j] = Zero) \/ f[m + 1] = Zero
    OBVIOUS
  <2> QED BY <2>1, <2>3, <2>4, <2>5
<1> HIDE DEF S
<1>3. n \in S
  BY <1>1, <1>2, UpTo
<1> QED BY <1>3 DEF S

-----------------------------------------------------------------------------
(* Polynomials. *)

(* The products of the first factors x + 1, x + 2, ..., at x.              *)
Factors(x, n) == [t \in 1..n |-> x ## Numeral(t)]
Newton(n, x) == ProductTo(Factors(x, n), n)

(* f is a polynomial of degree less than d: it is a sum of multiples of    *)
(* the first d such products.                                              *)
Terms(c, d, x) == [j \in 1..d |-> c[j] \otimes Newton(j - 1, x)]
Poly(d, f) ==
    \E c : Valued(c, d) /\ \A x \in Elements : f[x] = SumTo(Terms(c, d, x), d)

(* The points of a proof are elements.                                     *)
LEMMA NumeralType == \A k : Numeral(k) \in Elements
BY DEF Numeral, Elements

(* One factor more.                                                        *)
LEMMA NewtonNext ==
    ASSUME NEW n \in Nat, NEW x \in Elements
    PROVE  /\ Newton(0, x) = One
           /\ Newton(n + 1, x) = Newton(n, x) \otimes (x ## Numeral(n + 1))
           /\ Newton(n, x) \in Elements /\ Newton(n + 1, x) \in Elements
<1>1. Newton(0, x) = One
  BY ToNone DEF Newton
<1>2. Valued(Factors(x, n + 1), n + 1) /\ Factors(x, n + 1)[n + 1] = x ## Numeral(n + 1)
  BY NumeralType, AddType DEF Valued, Factors
<1>3. ProductTo(Factors(x, n + 1), n) = ProductTo(Factors(x, n), n)
  <2>1. \A j \in 1..n : Factors(x, n + 1)[j] = Factors(x, n)[j]
    BY DEF Factors
  <2> QED BY <2>1, ToSame
<1> QED BY <1>1, <1>2, <1>3, ToNext DEF Newton

(* Its terms are elements, and so are its values.                          *)
LEMMA TermsType ==
    ASSUME NEW d \in Nat, NEW c, Valued(c, d), NEW x \in Elements
    PROVE  Valued(Terms(c, d, x), d) /\ SumTo(Terms(c, d, x), d) \in Elements
<1>1. ASSUME NEW j \in 1..d PROVE Terms(c, d, x)[j] \in Elements
  <2>1. j - 1 \in Nat /\ c[j] \in Elements
    BY DEF Valued
  <2>2. Newton(j - 1, x) \in Elements
    BY <2>1, NewtonNext
  <2> QED BY <2>1, <2>2, TimesType DEF Terms
<1>2. Valued(Terms(c, d, x), d)
  BY <1>1 DEF Valued
<1> QED BY <1>2, ToType

(* A polynomial's values are elements.                                     *)
LEMMA PolyType ==
    ASSUME NEW d \in Nat, NEW f, Poly(d, f)
    PROVE  \A x \in Elements : f[x] \in Elements
BY TermsType DEF Poly

(* What has the values of a polynomial is one.                             *)
LEMMA PolySame ==
    ASSUME NEW d, NEW f, NEW h, Poly(d, f), SameOn(h, f, Elements)
    PROVE  Poly(d, h)
BY DEF Poly, SameOn

(* Of degree less than zero there is zero alone.                           *)
LEMMA PolyNone ==
    ASSUME NEW f
    PROVE  Poly(0, f) <=> \A x \in Elements : f[x] = Zero
<1>1. \A c, x : SumTo(Terms(c, 0, x), 0) = Zero
  BY ToNone
<1>2. \A c : Valued(c, 0)
  BY DEF Valued
<1> QED BY <1>1, <1>2 DEF Poly

(* One term more.                                                          *)
LastTerm(f, g, a, d) == \A x \in Elements : f[x] = g[x] ## (a \otimes Newton(d, x))

(* The sum with one term more.                                             *)
LEMMA TermsNext ==
    ASSUME NEW d \in Nat, NEW c, Valued(c, d + 1), NEW x \in Elements
    PROVE  SumTo(Terms(c, d + 1, x), d + 1) = SumTo(Terms(c, d, x), d) ## (c[d + 1] \otimes Newton(d, x))
<1>1. Terms(c, d + 1, x)[d + 1] = c[d + 1] \otimes Newton(d, x)
  <2>1. d + 1 \in 1..(d + 1) /\ (d + 1) - 1 = d
    OBVIOUS
  <2> QED BY <2>1 DEF Terms
<1>2. SumTo(Terms(c, d + 1, x), d) = SumTo(Terms(c, d, x), d)
  <2>1. \A j \in 1..d : Terms(c, d + 1, x)[j] = Terms(c, d, x)[j]
    BY DEF Terms
  <2> QED BY <2>1, ToSame
<1>3. Valued(Terms(c, d + 1, x), d + 1)
  BY TermsType
<1> QED BY <1>1, <1>2, <1>3, ToNext

(* A polynomial is one of lower degree and a last term.                    *)
LEMMA PolyTakes ==
    ASSUME NEW d \in Nat, NEW f, Poly(d + 1, f)
    PROVE  \E g, a : Poly(d, g) /\ a \in Elements /\ LastTerm(f, g, a, d)
<1>1. PICK c : Valued(c, d + 1) /\ \A x \in Elements : f[x] = SumTo(Terms(c, d + 1, x), d + 1)
  BY DEF Poly
<1> DEFINE g == [x \in Elements |-> SumTo(Terms(c, d, x), d)]
<1>2. Valued(c, d) /\ c[d + 1] \in Elements
  BY <1>1 DEF Valued
<1>3. Poly(d, g)
  BY <1>2 DEF Poly
<1>4. LastTerm(f, g, c[d + 1], d)
  <2> SUFFICES ASSUME NEW x \in Elements PROVE f[x] = g[x] ## (c[d + 1] \otimes Newton(d, x))
    BY DEF LastTerm
  <2>1. f[x] = SumTo(Terms(c, d + 1, x), d + 1)
    BY <1>1
  <2> QED BY <1>1, <2>1, TermsNext
<1> HIDE DEF g
<1> QED BY <1>2, <1>3, <1>4

(* With a last term its degree is one higher.                              *)
LEMMA PolyGives ==
    ASSUME NEW d \in Nat, NEW f, NEW g, NEW a \in Elements, Poly(d, g), LastTerm(f, g, a, d)
    PROVE  Poly(d + 1, f)
<1>1. PICK c : Valued(c, d) /\ \A x \in Elements : g[x] = SumTo(Terms(c, d, x), d)
  BY DEF Poly
<1> DEFINE e == [j \in 1..(d + 1) |-> IF j <= d THEN c[j] ELSE a]
<1>2. Valued(e, d + 1) /\ e[d + 1] = a /\ \A j \in 1..d : e[j] = c[j]
  BY <1>1 DEF Valued
<1> HIDE DEF e
<1>3. ASSUME NEW x \in Elements PROVE f[x] = SumTo(Terms(e, d + 1, x), d + 1)
  <2>1. f[x] = g[x] ## (a \otimes Newton(d, x)) /\ g[x] = SumTo(Terms(c, d, x), d)
    BY <1>1 DEF LastTerm
  <2>2. SumTo(Terms(e, d, x), d) = SumTo(Terms(c, d, x), d)
    <3>1. \A j \in 1..d : Terms(e, d, x)[j] = Terms(c, d, x)[j]
      BY <1>2 DEF Terms
    <3> QED BY <3>1, ToSame
  <2> QED BY <1>2, <2>1, <2>2, TermsNext
<1> QED BY <1>2, <1>3 DEF Poly

(* Sums and multiples of polynomials.                                      *)
SumOn(h, f, g) == \A x \in Elements : h[x] = f[x] ## g[x]
TimesOn(h, f, g) == \A x \in Elements : h[x] = f[x] \otimes g[x]
MultipleOn(h, a, f) == \A x \in Elements : h[x] = a \otimes f[x]

(* The sum of two polynomials is one.                                      *)
LEMMA PolyAdds ==
    ASSUME NEW d \in Nat, NEW f, NEW g, NEW h, Poly(d, f), Poly(d, g), SumOn(h, f, g)
    PROVE  Poly(d, h)
<1>1. PICK c : Valued(c, d) /\ \A x \in Elements : f[x] = SumTo(Terms(c, d, x), d)
  BY DEF Poly
<1>2. PICK e : Valued(e, d) /\ \A x \in Elements : g[x] = SumTo(Terms(e, d, x), d)
  BY DEF Poly
<1> DEFINE b == [j \in 1..d |-> c[j] ## e[j]]
<1>3. Valued(b, d)
  BY <1>1, <1>2, AddType DEF Valued
<1>4. ASSUME NEW x \in Elements PROVE h[x] = SumTo(Terms(b, d, x), d)
  <2>1. ASSUME NEW j \in 1..d PROVE Terms(b, d, x)[j] = Terms(c, d, x)[j] ## Terms(e, d, x)[j]
    <3>1. j - 1 \in Nat /\ c[j] \in Elements /\ e[j] \in Elements
      BY <1>1, <1>2 DEF Valued
    <3>2. Newton(j - 1, x) \in Elements
      BY <3>1, NewtonNext
    <3>3. (c[j] ## e[j]) \otimes Newton(j - 1, x) = (c[j] \otimes Newton(j - 1, x)) ## (e[j] \otimes Newton(j - 1, x))
      BY <3>1, <3>2, AddTimes
    <3> QED BY <3>3 DEF Terms
  <2>2. Valued(Terms(c, d, x), d) /\ Valued(Terms(e, d, x), d)
    BY <1>1, <1>2, TermsType
  <2> HIDE DEF b
  <2>3. SumTo(Terms(b, d, x), d) = SumTo(Terms(c, d, x), d) ## SumTo(Terms(e, d, x), d)
    BY <2>1, <2>2, SumOfSums
  <2> QED BY <1>1, <1>2, <2>3 DEF SumOn
<1> HIDE DEF b
<1> QED BY <1>3, <1>4 DEF Poly

(* The multiple of a polynomial is one.                                    *)
LEMMA PolyScales ==
    ASSUME NEW d \in Nat, NEW a \in Elements, NEW f, NEW h, Poly(d, f), MultipleOn(h, a, f)
    PROVE  Poly(d, h)
<1>1. PICK c : Valued(c, d) /\ \A x \in Elements : f[x] = SumTo(Terms(c, d, x), d)
  BY DEF Poly
<1> DEFINE b == [j \in 1..d |-> a \otimes c[j]]
<1>3. Valued(b, d)
  BY <1>1, TimesType DEF Valued
<1>4. ASSUME NEW x \in Elements PROVE h[x] = SumTo(Terms(b, d, x), d)
  <2>1. ASSUME NEW j \in 1..d PROVE Terms(b, d, x)[j] = a \otimes Terms(c, d, x)[j]
    <3>1. j - 1 \in Nat /\ c[j] \in Elements
      BY <1>1 DEF Valued
    <3>2. Newton(j - 1, x) \in Elements
      BY <3>1, NewtonNext
    <3>3. (a \otimes c[j]) \otimes Newton(j - 1, x) = a \otimes (c[j] \otimes Newton(j - 1, x))
      BY <3>1, <3>2, TimesAssoc
    <3> QED BY <3>3 DEF Terms
  <2>2. Valued(Terms(c, d, x), d)
    BY <1>1, TermsType
  <2> HIDE DEF b
  <2>3. SumTo(Terms(b, d, x), d) = a \otimes SumTo(Terms(c, d, x), d)
    BY <2>1, <2>2, SumOfMultiples
  <2> QED BY <1>1, <2>3 DEF MultipleOn
<1> HIDE DEF b
<1> QED BY <1>3, <1>4 DEF Poly

(* A greater bound of the degree.                                          *)
LEMMA PolyGrows ==
    ASSUME NEW d \in Nat, NEW e \in Nat, d <= e, NEW f, Poly(d, f)
    PROVE  Poly(e, f)
<1> DEFINE S == {n \in 0..(e - d) : Poly(d + n, f)}
<1>1. 0 \in S
  OBVIOUS
<1>2. ASSUME NEW n \in 0..((e - d) - 1), n \in S PROVE n + 1 \in S
  <2>1. d + n \in Nat /\ Poly(d + n, f) /\ d + (n + 1) = (d + n) + 1 /\ Zero \in Elements
    BY <1>2, AddType
  <2>2. LastTerm(f, f, Zero, d + n)
    <3> SUFFICES ASSUME NEW x \in Elements PROVE f[x] = f[x] ## (Zero \otimes Newton(d + n, x))
      BY DEF LastTerm
    <3>1. Newton(d + n, x) \in Elements
      BY <2>1, NewtonNext
    <3> QED BY <3>1, TimesZero, AddZero
  <2>3. Poly((d + n) + 1, f)
    BY <2>1, <2>2, PolyGives
  <2> QED BY <2>1, <2>3
<1> HIDE DEF S
<1>3. e - d \in Nat /\ e - d \in S
  BY <1>1, <1>2, UpTo
<1> QED BY <1>3 DEF S

(* Times a linear factor.                                                  *)
LinearOn(h, a, f) == \A x \in Elements : h[x] = (x ## a) \otimes f[x]

(* A linear factor makes the degree one higher.                            *)
LEMMA PolyLinear ==
    ASSUME NEW N \in Nat, NEW a \in Elements
    PROVE  \A n \in 0..N : \A f, h : Poly(n, f) /\ LinearOn(h, a, f) => Poly(n + 1, h)
<1> DEFINE Fine(n) == \A f, h : Poly(n, f) /\ LinearOn(h, a, f) => Poly(n + 1, h)
           S == {n \in 0..N : Fine(n)}
<1>1. Fine(0)
  <2> SUFFICES ASSUME NEW f, NEW h, Poly(0, f), LinearOn(h, a, f) PROVE Poly(0 + 1, h)
    OBVIOUS
  <2>1. ASSUME NEW x \in Elements PROVE h[x] = Zero
    <3>1. f[x] = Zero /\ x ## a \in Elements
      BY PolyNone, AddType
    <3> QED BY <3>1, TimesZero DEF LinearOn
  <2>2. Poly(0, h)
    BY <2>1, PolyNone
  <2> QED BY <2>2, PolyGrows
<1>2. ASSUME NEW n \in 0..(N - 1), Fine(n) PROVE Fine(n + 1)
  <2> HIDE DEF Fine
  <2> SUFFICES ASSUME NEW f, NEW h, Poly(n + 1, f), LinearOn(h, a, f) PROVE Poly((n + 1) + 1, h)
    BY DEF Fine
  <2>1. PICK g, b : Poly(n, g) /\ b \in Elements /\ LastTerm(f, g, b, n)
    BY PolyTakes
  <2> DEFINE p == Numeral(n + 1)
             k == b \otimes (p ## a)
             e == [x \in Elements |-> (x ## a) \otimes g[x]]
             m == [x \in Elements |-> e[x] ## (k \otimes Newton(n, x))]
  <2>2. p \in Elements /\ p ## a \in Elements /\ k \in Elements
    BY <2>1, NumeralType, AddType, TimesType
  <2>3. Poly(n + 1, e)
    <3>1. LinearOn(e, a, g)
      BY DEF LinearOn
    <3> HIDE DEF e
    <3> QED BY <1>2, <2>1, <3>1 DEF Fine
  <2>4. Poly(n + 1, m)
    <3> DEFINE r == [x \in Elements |-> k \otimes Newton(n, x)]
               z == [x \in Elements |-> Zero]
    <3>1. Poly(n, z)
      <4>1. Poly(0, z)
        BY PolyNone
      <4> HIDE DEF z
      <4> QED BY <4>1, PolyGrows
    <3>2. LastTerm(r, z, k, n)
      <4>1. \A x \in Elements : r[x] = k \otimes Newton(n, x) /\ z[x] = Zero
        OBVIOUS
      <4> HIDE DEF r, z
      <4> QED BY <4>1, AddZero DEF LastTerm
    <3>3. SumOn(m, e, r)
      <4>1. \A x \in Elements : r[x] = k \otimes Newton(n, x) /\ m[x] = e[x] ## (k \otimes Newton(n, x))
        OBVIOUS
      <4> HIDE DEF m, r, e
      <4> QED BY <4>1 DEF SumOn
    <3> HIDE DEF r, z, m, e, k
    <3>4. Poly(n + 1, r)
      BY <2>2, <3>1, <3>2, PolyGives
    <3> QED BY <2>3, <3>3, <3>4, PolyAdds
  <2>5. LastTerm(h, m, b, n + 1)
    <3> SUFFICES ASSUME NEW x \in Elements PROVE h[x] = m[x] ## (b \otimes Newton(n + 1, x))
      BY DEF LastTerm
    <3> DEFINE w == Newton(n, x)
               y == x ## a
    <3>1. w \in Elements /\ Newton(n + 1, x) = w \otimes (x ## p) /\ y \in Elements /\ x ## p \in Elements
      BY <2>2, NewtonNext, AddType
    <3>2. h[x] = y \otimes (g[x] ## (b \otimes w))
      BY <2>1 DEF LinearOn, LastTerm
    <3>3. g[x] \in Elements /\ b \otimes w \in Elements
      BY <2>1, <3>1, PolyType, TimesType
    <3>4. m[x] = (y \otimes g[x]) ## (k \otimes w)
      OBVIOUS
    <3> HIDE DEF m, e, w, p
    <3>5. h[x] = (y \otimes g[x]) ## (y \otimes (b \otimes w))
      BY <3>1, <3>2, <3>3, TimesAdd
    <3>6. y \otimes (b \otimes w) = (b \otimes w) \otimes y
      BY <3>1, <3>3, TimesCommutes
    <3>7. y = (p ## a) ## (x ## p)
      BY DEF ##, SymDiff
    <3> HIDE DEF y
    <3>8. (b \otimes w) \otimes y = ((b \otimes w) \otimes (p ## a)) ## ((b \otimes w) \otimes (x ## p))
      BY <2>2, <3>1, <3>3, <3>7, TimesAdd
    <3>9. (b \otimes w) \otimes (x ## p) = b \otimes (w \otimes (x ## p))
      BY <2>1, <3>1, TimesAssoc
    <3>10. (b \otimes w) \otimes (p ## a) = k \otimes w
      <4>1. (b \otimes w) \otimes (p ## a) = (p ## a) \otimes (b \otimes w)
        BY <2>2, <3>3, TimesCommutes
      <4>2. (p ## a) \otimes (b \otimes w) = b \otimes ((p ## a) \otimes w)
        BY <2>1, <2>2, <3>1, TimesLeft
      <4>3. (b \otimes (p ## a)) \otimes w = b \otimes ((p ## a) \otimes w)
        BY <2>1, <2>2, <3>1, TimesAssoc
      <4> QED BY <4>1, <4>2, <4>3
    <3> HIDE DEF k
    <3>11. h[x] = (y \otimes g[x]) ## ((k \otimes w) ## (b \otimes Newton(n + 1, x)))
      BY <3>1, <3>5, <3>6, <3>8, <3>9, <3>10
    <3>12. h[x] = ((y \otimes g[x]) ## (k \otimes w)) ## (b \otimes Newton(n + 1, x))
      BY <3>11, AddAssoc
    <3> QED BY <3>4, <3>12
  <2> HIDE DEF m
  <2> QED BY <2>1, <2>4, <2>5, PolyGives
<1>3. 0 \in S /\ \A n \in 0..(N - 1) : n \in S => n + 1 \in S
  <2> HIDE DEF Fine
  <2> QED BY <1>1, <1>2
<1> HIDE DEF S
<1>4. \A n \in 0..N : n \in S
  BY <1>3, UpTo
<1> QED BY <1>4 DEF S

(* Times the first n factors.                                              *)
LEMMA PolyFactors ==
    ASSUME NEW d \in Nat, NEW f, Poly(d, f), NEW N \in Nat
    PROVE  \A n \in 0..N : \A h : (\A x \in Elements : h[x] = Newton(n, x) \otimes f[x]) => Poly(d + n, h)
<1> DEFINE Is(h, n) == \A x \in Elements : h[x] = Newton(n, x) \otimes f[x]
           S == {n \in 0..N : \A h : Is(h, n) => Poly(d + n, h)}
<1>0. \A x \in Elements : f[x] \in Elements
  BY PolyType
<1>1. 0 \in S
  <2> SUFFICES ASSUME NEW h, Is(h, 0) PROVE Poly(d + 0, h)
    OBVIOUS
  <2>1. SameOn(h, f, Elements)
    BY <1>0, NewtonNext, TimesOne DEF SameOn
  <2> QED BY <2>1, PolySame
<1>2. ASSUME NEW n \in 0..(N - 1), n \in S PROVE n + 1 \in S
  <2> SUFFICES ASSUME NEW h, Is(h, n + 1) PROVE Poly(d + (n + 1), h)
    OBVIOUS
  <2> DEFINE e == [x \in Elements |-> Newton(n, x) \otimes f[x]]
             p == Numeral(n + 1)
  <2>1. Poly(d + n, e)
    <3>1. Is(e, n)
      OBVIOUS
    <3> HIDE DEF e, Is
    <3> QED BY <1>2, <3>1
  <2>2. LinearOn(h, p, e)
    <3> SUFFICES ASSUME NEW x \in Elements PROVE h[x] = (x ## p) \otimes e[x]
      BY DEF LinearOn
    <3>1. p \in Elements /\ f[x] \in Elements /\ x ## p \in Elements
      BY <1>0, NumeralType, AddType
    <3>2. Newton(n, x) \in Elements /\ Newton(n + 1, x) = Newton(n, x) \otimes (x ## p)
      BY NewtonNext
    <3> DEFINE w == Newton(n, x)
    <3>3. h[x] = (w \otimes (x ## p)) \otimes f[x] /\ e[x] = w \otimes f[x]
      BY <3>2
    <3> HIDE DEF w, e, p, Is
    <3>4. w \in Elements
      BY <3>2 DEF w
    <3>5. (w \otimes (x ## p)) \otimes f[x] = w \otimes ((x ## p) \otimes f[x])
      BY <3>1, <3>4, TimesAssoc
    <3>6. w \otimes ((x ## p) \otimes f[x]) = (x ## p) \otimes (w \otimes f[x])
      BY <3>1, <3>4, TimesLeft
    <3> QED BY <3>3, <3>5, <3>6
  <2> HIDE DEF e
  <2>3. p \in Elements /\ d + n \in 0..(d + n) /\ d + n \in Nat /\ d + (n + 1) = (d + n) + 1
    BY NumeralType
  <2> HIDE DEF p, Is
  <2>4. Poly((d + n) + 1, h)
    BY <2>1, <2>2, <2>3, PolyLinear
  <2> QED BY <2>3, <2>4
<1> HIDE DEF S
<1>3. \A n \in 0..N : n \in S
  BY <1>1, <1>2, UpTo
<1> QED BY <1>3 DEF S

(* The product of two polynomials.                                         *)
LEMMA PolyTimes ==
    ASSUME NEW d \in Nat, NEW g, Poly(d, g), NEW N \in Nat
    PROVE  \A n \in 0..N : \A f, h : Poly(n + 1, f) /\ TimesOn(h, f, g) => Poly(d + n, h)
<1> DEFINE Fine(n) == \A f, h : Poly(n + 1, f) /\ TimesOn(h, f, g) => Poly(d + n, h)
           S == {n \in 0..N : Fine(n)}
<1>0. \A x \in Elements : g[x] \in Elements
  BY PolyType
<1>a. ASSUME NEW n \in 0..N, NEW f, NEW h, Poly(n + 1, f), TimesOn(h, f, g),
             NEW e, Poly(n, e), NEW a \in Elements, LastTerm(f, e, a, n),
             NEW r, TimesOn(r, e, g), Poly(d + n, r)
      PROVE  Poly(d + n, h)
  <2> DEFINE q == [x \in Elements |-> Newton(n, x) \otimes g[x]]
             s == [x \in Elements |-> a \otimes q[x]]
  <2>1. Poly(d + n, q)
    <3>1. \A x \in Elements : q[x] = Newton(n, x) \otimes g[x]
      OBVIOUS
    <3> HIDE DEF q
    <3> QED BY <3>1, PolyFactors
  <2>2. Poly(d + n, s)
    <3>1. MultipleOn(s, a, q)
      BY DEF MultipleOn
    <3> HIDE DEF q, s
    <3> QED BY <2>1, <3>1, PolyScales
  <2>3. SumOn(h, r, s)
    <3> SUFFICES ASSUME NEW x \in Elements PROVE h[x] = r[x] ## s[x]
      BY DEF SumOn
    <3> DEFINE w == Newton(n, x)
    <3>1. w \in Elements /\ g[x] \in Elements /\ e[x] \in Elements /\ a \otimes w \in Elements
      BY <1>0, <1>a, NewtonNext, PolyType, TimesType
    <3>2. h[x] = (e[x] ## (a \otimes w)) \otimes g[x] /\ r[x] = e[x] \otimes g[x]
      BY <1>a DEF TimesOn, LastTerm
    <3>3. s[x] = a \otimes (w \otimes g[x])
      OBVIOUS
    <3> HIDE DEF w, s, q
    <3>4. (e[x] ## (a \otimes w)) \otimes g[x] = (e[x] \otimes g[x]) ## ((a \otimes w) \otimes g[x])
      BY <3>1, AddTimes
    <3>5. (a \otimes w) \otimes g[x] = a \otimes (w \otimes g[x])
      BY <3>1, <1>a, TimesAssoc
    <3> QED BY <3>2, <3>3, <3>4, <3>5
  <2> HIDE DEF q, s
  <2> QED BY <1>a, <2>2, <2>3, PolyAdds
<1>1. Fine(0)
  <2> SUFFICES ASSUME NEW f, NEW h, Poly(0 + 1, f), TimesOn(h, f, g) PROVE Poly(d + 0, h)
    OBVIOUS
  <2>1. PICK e, a : Poly(0, e) /\ a \in Elements /\ LastTerm(f, e, a, 0)
    BY PolyTakes
  <2> DEFINE r == [x \in Elements |-> e[x] \otimes g[x]]
  <2>2. TimesOn(r, e, g)
    BY DEF TimesOn
  <2>3. \A x \in Elements : r[x] = Zero
    BY <1>0, <2>1, PolyNone, TimesZero
  <2> HIDE DEF r
  <2>4. Poly(d + 0, r)
    <3>1. Poly(0, r)
      BY <2>3, PolyNone
    <3> QED BY <3>1, PolyGrows
  <2> QED BY <1>a, <2>1, <2>2, <2>4
<1>2. ASSUME NEW n \in 0..(N - 1), Fine(n) PROVE Fine(n + 1)
  <2> SUFFICES ASSUME NEW f, NEW h, Poly((n + 1) + 1, f), TimesOn(h, f, g) PROVE Poly(d + (n + 1), h)
    OBVIOUS
  <2>1. PICK e, a : Poly(n + 1, e) /\ a \in Elements /\ LastTerm(f, e, a, n + 1)
    BY PolyTakes
  <2> DEFINE r == [x \in Elements |-> e[x] \otimes g[x]]
  <2>2. TimesOn(r, e, g)
    BY DEF TimesOn
  <2> HIDE DEF r
  <2>3. Poly(d + n, r)
    BY <1>2, <2>1, <2>2
  <2> HIDE DEF Fine
  <2>4. Poly(d + (n + 1), r)
    BY <2>3, PolyGrows
  <2> QED BY <1>a, <2>1, <2>2, <2>4
<1>3. 0 \in S /\ \A n \in 0..(N - 1) : n \in S => n + 1 \in S
  <2> HIDE DEF Fine
  <2> QED BY <1>1, <1>2
<1> HIDE DEF S
<1>4. \A n \in 0..N : n \in S
  BY <1>3, UpTo
<1> QED BY <1>4 DEF S

(* The sum of n polynomials.                                               *)
ValuesAt(F, x) == [l \in DOMAIN F |-> F[l][x]]

(* The sum of so many polynomials is one.                                  *)
LEMMA PolySums ==
    ASSUME NEW d \in Nat, NEW N \in Nat, NEW F, DOMAIN F = 1..N, \A l \in 1..N : Poly(d, F[l]),
           NEW h, \A x \in Elements : h[x] = SumTo(ValuesAt(F, x), N)
    PROVE  Poly(d, h)
<1> DEFINE P(n) == [x \in Elements |-> SumTo(ValuesAt(F, x), n)]
           S == {n \in 0..N : Poly(d, P(n))}
<1>1. 0 \in S
  <2>1. \A x \in Elements : P(0)[x] = Zero
    BY ToNone
  <2> HIDE DEF P
  <2>2. Poly(0, P(0))
    BY <2>1, PolyNone
  <2> QED BY <2>2, PolyGrows
<1>2. ASSUME NEW n \in 0..(N - 1), n \in S PROVE n + 1 \in S
  <2>1. SumOn(P(n + 1), P(n), F[n + 1])
    <3> SUFFICES ASSUME NEW x \in Elements PROVE P(n + 1)[x] = P(n)[x] ## F[n + 1][x]
      BY DEF SumOn
    <3>1. Valued(ValuesAt(F, x), n + 1)
      <4> SUFFICES ASSUME NEW l \in 1..(n + 1) PROVE ValuesAt(F, x)[l] \in Elements
        BY DEF Valued
      <4>1. l \in 1..N
        OBVIOUS
      <4>2. F[l][x] \in Elements
        BY <4>1, PolyType
      <4> QED BY <4>1, <4>2 DEF ValuesAt
    <3>2. SumTo(ValuesAt(F, x), n + 1) = SumTo(ValuesAt(F, x), n) ## ValuesAt(F, x)[n + 1]
      BY <3>1, ToNext
    <3>3. ValuesAt(F, x)[n + 1] = F[n + 1][x]
      BY DEF ValuesAt
    <3> QED BY <3>2, <3>3
  <2>2. n + 1 \in 1..N /\ n + 1 \in 0..N
    OBVIOUS
  <2> HIDE DEF P
  <2>3. Poly(d, P(n + 1))
    BY <1>2, <2>1, <2>2, PolyAdds
  <2> QED BY <2>2, <2>3
<1> HIDE DEF S
<1>3. \A n \in 0..N : n \in S
  BY <1>1, <1>2, UpTo
<1>4. SameOn(h, P(N), Elements)
  BY DEF SameOn
<1> HIDE DEF P
<1> QED BY <1>3, <1>4, PolySame DEF S

(* A constant is a polynomial.                                             *)
LEMMA PolyConstant ==
    ASSUME NEW a \in Elements, NEW f, \A x \in Elements : f[x] = a
    PROVE  Poly(1, f)
<1> DEFINE z == [x \in Elements |-> Zero]
<1>1. \A x \in Elements : z[x] = Zero
  OBVIOUS
<1> HIDE DEF z
<1>2. Poly(0, z)
  BY <1>1, PolyNone
<1>3. LastTerm(f, z, a, 0)
  <2> SUFFICES ASSUME NEW x \in Elements PROVE f[x] = z[x] ## (a \otimes Newton(0, x))
    BY DEF LastTerm
  <2> QED BY <1>1, NewtonNext, TimesOne, AddZero
<1>4. Poly(0 + 1, f)
  BY <1>2, <1>3, PolyGives
<1> QED BY <1>4

(* The first K points differ.                                              *)
Apart(K) == \A i, j \in 1..K : Numeral(i) = Numeral(j) => i = j

(* Where the products of factors are zero.                                 *)
LEMMA NewtonZeros ==
    ASSUME NEW K \in Nat, Apart(K), NEW n \in 0..K, NEW i \in 1..K
    PROVE  Newton(n, Numeral(i)) = Zero <=> i <= n
<1> DEFINE f == Factors(Numeral(i), n)
<1>1. \A j \in 1..n : f[j] = Numeral(i) ## Numeral(j) /\ f[j] \in Elements
  BY NumeralType, AddType DEF Factors
<1> HIDE DEF f
<1>2. \A j \in 1..n : f[j] = Zero <=> j = i
  <2> SUFFICES ASSUME NEW j \in 1..n PROVE f[j] = Zero <=> j = i
    OBVIOUS
  <2>1. f[j] = Zero <=> Numeral(i) = Numeral(j)
    BY <1>1, AddEqual, AddSelf
  <2> QED BY <2>1 DEF Apart
<1>3. ProductTo(f, n) = Zero <=> \E j \in 1..n : f[j] = Zero
  BY <1>1, ProductIsZero DEF Valued
<1> QED BY <1>2, <1>3 DEF Newton, f

(* f is zero at the first n points.                                        *)
ZeroAt(f, n) == \A j \in 1..n : f[Numeral(j)] = Zero

(* A polynomial that is zero at as many points as it has terms is zero.    *)
LEMMA PolyZeros ==
    ASSUME NEW K \in Nat, Apart(K)
    PROVE  \A n \in 0..K : \A f : Poly(n, f) /\ ZeroAt(f, n) => \A x \in Elements : f[x] = Zero
<1> DEFINE Fine(n) == \A f : Poly(n, f) /\ ZeroAt(f, n) => \A x \in Elements : f[x] = Zero
           S == {n \in 0..K : Fine(n)}
<1>1. Fine(0)
  BY PolyNone
<1>2. ASSUME NEW n \in 0..(K - 1), Fine(n) PROVE Fine(n + 1)
  <2> SUFFICES ASSUME NEW f, Poly(n + 1, f), ZeroAt(f, n + 1) PROVE \A x \in Elements : f[x] = Zero
    OBVIOUS
  <2>1. PICK g, a : Poly(n, g) /\ a \in Elements /\ LastTerm(f, g, a, n)
    BY PolyTakes
  <2>2. \A x \in Elements : g[x] \in Elements /\ Newton(n, x) \in Elements
    BY <2>1, PolyType, NewtonNext
  <2>3. ZeroAt(g, n)
    <3> SUFFICES ASSUME NEW j \in 1..n PROVE g[Numeral(j)] = Zero
      BY DEF ZeroAt
    <3>1. j \in 1..K /\ j \in 1..(n + 1) /\ Numeral(j) \in Elements
      BY NumeralType
    <3>2. Newton(n, Numeral(j)) = Zero
      BY <3>1, NewtonZeros
    <3>3. f[Numeral(j)] = g[Numeral(j)] ## (a \otimes Zero)
      BY <2>1, <3>1, <3>2 DEF LastTerm
    <3> QED BY <2>1, <3>1, <3>3, TimesZero, AddZero DEF ZeroAt
  <2>4. \A x \in Elements : g[x] = Zero
    BY <1>2, <2>1, <2>3
  <2>5. a = Zero
    <3> DEFINE p == Numeral(n + 1)
    <3>1. n + 1 \in 1..K /\ p \in Elements /\ f[p] = Zero /\ ~(n + 1 <= n)
      BY NumeralType DEF ZeroAt
    <3>2. Newton(n, p) # Zero /\ Newton(n, p) \in Elements
      BY <2>2, <3>1, NewtonZeros
    <3>3. f[p] = Zero ## (a \otimes Newton(n, p))
      BY <2>1, <2>4, <3>1 DEF LastTerm
    <3>4. a \otimes Newton(n, p) = Zero
      BY <3>1, <3>3, AddZero
    <3>5. Newton(n, p) \otimes a = Zero
      BY <2>1, <3>2, <3>4, TimesCommutes
    <3> QED BY <2>1, <3>2, <3>5, NoDivisors
  <2> QED BY <2>1, <2>2, <2>4, <2>5, TimesZero, AddZero DEF LastTerm
<1>3. 0 \in S /\ \A n \in 0..(K - 1) : n \in S => n + 1 \in S
  <2> HIDE DEF Fine
  <2> QED BY <1>1, <1>2
<1> HIDE DEF S
<1>4. \A n \in 0..K : n \in S
  BY <1>3, UpTo
<1> QED BY <1>4 DEF S

-----------------------------------------------------------------------------
(* Interpolation. *)

(* The factors at x but for the one of point j.                            *)
Others(m, j, x) == ProductOver([t \in (1..m) \ {j} |-> x ## Numeral(t)])

(* What an interpolated value is made of.                                  *)
LEMMA LagrangeIs ==
    ASSUME NEW n \in Nat, NEW x, NEW j \in 1..n
    PROVE  LagrangeAt(n, x)[j] = Others(n, j, x) \otimes Inv[Others(n, j, Numeral(j))]
<1>1. [t \in (1..n) \ {j} |-> x ## Points(n)[t]] = [t \in (1..n) \ {j} |-> x ## Numeral(t)]
  BY DEF Points
<1>2. [t \in (1..n) \ {j} |-> Points(n)[j] ## Points(n)[t]] = [t \in (1..n) \ {j} |-> Numeral(j) ## Numeral(t)]
  BY DEF Points
<1> QED BY <1>1, <1>2 DEF LagrangeAt, Others

(* One factor more.                                                        *)
LEMMA OthersNext ==
    ASSUME NEW m \in Nat, NEW j \in Nat, NEW x \in Elements
    PROVE  /\ Others(0, j, x) = One
           /\ j = m + 1 => Others(m + 1, j, x) = Others(m, j, x)
           /\ j # m + 1 => Others(m + 1, j, x) = (x ## Numeral(m + 1)) \otimes Others(m, j, x)
           /\ j # m + 1 => Others(m, j, x) \in Elements
<1>1. Others(0, j, x) = One
  <2> DEFINE f == [t \in (1..0) \ {j} |-> x ## Numeral(t)]
  <2>1. DOMAIN f = {}
    OBVIOUS
  <2> HIDE DEF f
  <2>2. Gathered("product", f) = One
    BY <2>1, GatheredNone DEF Unit
  <2> QED BY <2>2 DEF Gathered, Others, f
<1>2. ASSUME j = m + 1 PROVE Others(m + 1, j, x) = Others(m, j, x)
  <2>1. (1..(m + 1)) \ {j} = (1..m) \ {j}
    BY <1>2
  <2> QED BY <2>1 DEF Others
<1>3. ASSUME j # m + 1
      PROVE  /\ Others(m + 1, j, x) = (x ## Numeral(m + 1)) \otimes Others(m, j, x)
             /\ Others(m, j, x) \in Elements
  <2> DEFINE S == (1..(m + 1)) \ {j}
             f == [t \in S |-> x ## Numeral(t)]
             h == [t \in (1..m) \ {j} |-> x ## Numeral(t)]
  <2>1. IsFiniteSet(S) /\ m + 1 \in S /\ S \ {m + 1} = (1..m) \ {j}
    <3>1. IsFiniteSet(1..(m + 1)) /\ S \subseteq 1..(m + 1)
      BY FS_Interval
    <3>2. IsFiniteSet(S)
      BY <3>1, FS_Subset
    <3> QED BY <1>3, <3>2
  <2>2. /\ DOMAIN f = S /\ ElementsOn(f, S) /\ DOMAIN h = S \ {m + 1} /\ SameOn(f, h, S \ {m + 1})
        /\ f[m + 1] = x ## Numeral(m + 1)
    BY <2>1, NumeralType, AddType DEF ElementsOn, SameOn
  <2> HIDE DEF f, h, S
  <2>3. Gathered("product", f) = f[m + 1] \otimes Gathered("product", h) /\ Gathered("product", h) \in Elements
    <3>1. Gathered("product", f) = Comb("product", f[m + 1], Gathered("product", h))
      BY <2>1, <2>2, GatheredTakes
    <3>2. Gathered("product", h) \in Elements
      BY <2>1, <2>2, GatheredTakes
    <3> QED BY <3>1, <3>2 DEF Comb
  <2> QED BY <2>2, <2>3 DEF Gathered, Others, f, h, S
<1> QED BY <1>1, <1>2, <1>3

(* As a function of x it is a polynomial, zero at the other points.        *)
LEMMA OthersPoly ==
    ASSUME NEW K \in Nat, Apart(K), NEW j \in 1..K
    PROVE  \A m \in 0..K :
             /\ Poly(IF j <= m THEN m ELSE m + 1, [x \in Elements |-> Others(m, j, x)])
             /\ \A i \in 1..K : Others(m, j, Numeral(i)) = Zero <=> i <= m /\ i # j
<1> DEFINE P(m) == [x \in Elements |-> Others(m, j, x)]
           D(m) == IF j <= m THEN m ELSE m + 1
           Z(m) == \A i \in 1..K : Others(m, j, Numeral(i)) = Zero <=> i <= m /\ i # j
           S == {m \in 0..K : Poly(D(m), P(m)) /\ Z(m)}
<1>0. \A x \in Elements : Others(0, j, x) = One
  BY OthersNext
<1>1. 0 \in S
  <2>1. Poly(D(0), P(0))
    <3>1. \A x \in Elements : P(0)[x] = One
      BY <1>0
    <3> HIDE DEF P
    <3>2. One \in Elements /\ D(0) = 1
      BY AddType
    <3> QED BY <3>1, <3>2, PolyConstant
  <2>2. Z(0)
    <3>1. One # Zero
      BY DEF One, Zero
    <3> QED BY <1>0, <3>1, NumeralType
  <2> QED BY <2>1, <2>2
<1>2. ASSUME NEW m \in 0..(K - 1), m \in S PROVE m + 1 \in S
  <2>0. m + 1 \in 0..K /\ m \in 0..K /\ m + 1 \in 1..K /\ Poly(D(m), P(m)) /\ Z(m)
    BY <1>2
  <2>1. CASE j = m + 1
    <3>1. \A x \in Elements : Others(m + 1, j, x) = Others(m, j, x)
      BY <2>1, OthersNext
    <3>2. D(m + 1) = m + 1 /\ D(m) = m + 1
      BY <2>1
    <3>3. SameOn(P(m + 1), P(m), Elements)
      BY <3>1 DEF SameOn
    <3>4. Z(m + 1)
      <4> SUFFICES ASSUME NEW i \in 1..K
                   PROVE  Others(m + 1, j, Numeral(i)) = Zero <=> i <= m + 1 /\ i # j
        OBVIOUS
      <4>1. Others(m, j, Numeral(i)) = Zero <=> i <= m /\ i # j
        BY <2>0
      <4> QED BY <2>1, <3>1, <4>1, NumeralType
    <3> HIDE DEF P, Z
    <3>5. Poly(D(m + 1), P(m + 1))
      BY <2>0, <3>2, <3>3, PolySame
    <3> QED BY <2>0, <3>4, <3>5
  <2>2. CASE j # m + 1
    <3>1. \A x \in Elements : /\ Others(m + 1, j, x) = (x ## Numeral(m + 1)) \otimes Others(m, j, x)
                              /\ Others(m, j, x) \in Elements
      BY <2>2, OthersNext
    <3>2. D(m + 1) = D(m) + 1 /\ D(m) \in Nat /\ Numeral(m + 1) \in Elements
      BY <2>2, NumeralType
    <3>3. LinearOn(P(m + 1), Numeral(m + 1), P(m))
      BY <3>1 DEF LinearOn
    <3>4. Z(m + 1)
      <4> SUFFICES ASSUME NEW i \in 1..K
                   PROVE  Others(m + 1, j, Numeral(i)) = Zero <=> i <= m + 1 /\ i # j
        OBVIOUS
      <4>1. Others(m, j, Numeral(i)) = Zero <=> i <= m /\ i # j
        BY <2>0
      <4>2. Numeral(i) ## Numeral(m + 1) = Zero <=> i = m + 1
        BY <2>0, AddEqual, AddSelf DEF Apart
      <4>3. Numeral(i) ## Numeral(m + 1) \in Elements /\ Numeral(i) \in Elements
        BY NumeralType, AddType
      <4>4. Others(m + 1, j, Numeral(i)) = (Numeral(i) ## Numeral(m + 1)) \otimes Others(m, j, Numeral(i))
            /\ Others(m, j, Numeral(i)) \in Elements
        BY <3>1, <4>3
      <4> DEFINE u == Numeral(i) ## Numeral(m + 1)
                 v == Others(m, j, Numeral(i))
      <4>5. u \otimes v = Zero <=> u = Zero \/ v = Zero
        <5> HIDE DEF u, v
        <5>1. u \in Elements /\ v \in Elements
          BY <4>3, <4>4 DEF u, v
        <5> QED BY <5>1, TimesZero, NoDivisors
      <4> QED BY <2>2, <4>1, <4>2, <4>4, <4>5
    <3> HIDE DEF P, Z, D
    <3>5. Poly(D(m) + 1, P(m + 1))
      BY <2>0, <3>2, <3>3, PolyLinear
    <3> QED BY <2>0, <3>2, <3>4, <3>5
  <2> QED BY <2>1, <2>2
<1> HIDE DEF S
<1>3. \A m \in 0..K : m \in S
  BY <1>1, <1>2, UpTo
<1> QED BY <1>3 DEF S

(* The weight of value j: a polynomial that is one at its own point and    *)
(* zero at the others.                                                     *)
WeightOf(n, j) == [x \in Elements |-> LagrangeAt(n, x)[j]]

(* What a value weighs is a polynomial, one at its own point and zero at   *)
(* the others.                                                             *)
LEMMA LagrangePoly ==
    ASSUME NEW K \in Nat, Apart(K), NEW n \in 1..K, NEW j \in 1..n
    PROVE  /\ Poly(n, WeightOf(n, j))
           /\ \A i \in 1..n : LagrangeAt(n, Numeral(i))[j] = IF i = j THEN One ELSE Zero
<1> DEFINE P == [x \in Elements |-> Others(n, j, x)]
           q == Others(n, j, Numeral(j))
<1>1. /\ Poly(n, P)
      /\ \A i \in 1..n : Others(n, j, Numeral(i)) = Zero <=> i # j
  <2>1. n \in 0..K /\ j \in 1..K /\ j <= n /\ \A i \in 1..n : i \in 1..K /\ i <= n
    OBVIOUS
  <2> QED BY <2>1, OthersPoly
<1>2. \A i \in 1..n : Others(n, j, Numeral(i)) \in Elements /\ Numeral(i) \in Elements
  BY <1>1, PolyType, NumeralType
<1>3. q \in Elements /\ q # Zero
  BY <1>1, <1>2
<1> HIDE DEF q
<1>4. Inv[q] \in Elements /\ q \otimes Inv[q] = One
  BY <1>3, InverseIs
<1>5. \A x : LagrangeAt(n, x)[j] = Others(n, j, x) \otimes Inv[q]
  BY LagrangeIs DEF q
<1>6. MultipleOn(WeightOf(n, j), Inv[q], P)
  <2> SUFFICES ASSUME NEW x \in Elements PROVE WeightOf(n, j)[x] = Inv[q] \otimes P[x]
    BY DEF MultipleOn
  <2>1. P[x] \in Elements
    BY <1>1, PolyType
  <2>2. P[x] \otimes Inv[q] = Inv[q] \otimes P[x]
    BY <1>4, <2>1, TimesCommutes
  <2> QED BY <1>5, <2>2 DEF WeightOf
<1>7. Poly(n, WeightOf(n, j))
  <2> HIDE DEF P
  <2> QED BY <1>1, <1>4, <1>6, PolyScales
<1>8. ASSUME NEW i \in 1..n PROVE LagrangeAt(n, Numeral(i))[j] = IF i = j THEN One ELSE Zero
  <2>1. CASE i = j
    BY <1>4, <1>5, <2>1 DEF q
  <2>2. CASE i # j
    <3>1. Others(n, j, Numeral(i)) = Zero
      BY <1>1, <2>2
    <3> QED BY <1>4, <1>5, <2>2, <3>1, TimesZero
  <2> QED BY <2>1, <2>2
<1> QED BY <1>7, <1>8

(* v has the values of f at the points; w weighs them at x.                *)
Samples(v, f, n) == \A j \in 1..n : v[j] = f[Numeral(j)]
Weighted(w, n, x, v) == \A j \in 1..n : w[j] = LagrangeAt(n, x)[j] \otimes v[j]

(* lagrange_at is exact below degree n: its weights at x, applied to the   *)
(* values of a polynomial at the first n points, give the value at x       *)
(* (gf64.rs:86).                                                           *)
THEOREM Interpolates ==
    ASSUME NEW K \in Nat, Apart(K), NEW n \in 1..K, NEW d \in 0..n, NEW f, Poly(d, f),
           NEW v, Samples(v, f, n), NEW x \in Elements, NEW w, Weighted(w, n, x, v)
    PROVE  SumTo(w, n) = f[x]
<1> DEFINE F == [j \in 1..n |-> [y \in Elements |-> v[j] \otimes WeightOf(n, j)[y]]]
           h == [y \in Elements |-> SumTo(ValuesAt(F, y), n)]
           e == [y \in Elements |-> h[y] ## f[y]]
<1>1. \A j \in 1..n : v[j] \in Elements /\ Numeral(j) \in Elements
  BY PolyType, NumeralType DEF Samples
<1>2. \A j \in 1..n : Poly(n, F[j])
  <2> SUFFICES ASSUME NEW j \in 1..n PROVE Poly(n, F[j])
    OBVIOUS
  <2>1. MultipleOn(F[j], v[j], WeightOf(n, j))
    BY DEF MultipleOn
  <2>2. Poly(n, WeightOf(n, j)) /\ v[j] \in Elements /\ n \in Nat
    BY <1>1, LagrangePoly
  <2> HIDE DEF F
  <2> QED BY <2>1, <2>2, PolyScales
<1>3. ASSUME NEW j \in 1..n, NEW y \in Elements
      PROVE  /\ F[j][y] = LagrangeAt(n, y)[j] \otimes v[j] /\ ValuesAt(F, y)[j] = F[j][y]
             /\ LagrangeAt(n, y)[j] \in Elements
  <2>1. Poly(n, WeightOf(n, j)) /\ n \in Nat
    BY LagrangePoly
  <2>2. WeightOf(n, j)[y] \in Elements
    BY <2>1, PolyType
  <2>3. WeightOf(n, j)[y] = LagrangeAt(n, y)[j]
    BY DEF WeightOf
  <2>4. F[j][y] = v[j] \otimes WeightOf(n, j)[y]
    OBVIOUS
  <2>5. v[j] \otimes WeightOf(n, j)[y] = WeightOf(n, j)[y] \otimes v[j]
    BY <1>1, <2>2, TimesCommutes
  <2>6. ValuesAt(F, y)[j] = F[j][y]
    BY DEF ValuesAt
  <2> QED BY <2>2, <2>3, <2>4, <2>5, <2>6
<1>4. DOMAIN F = 1..n
  OBVIOUS
<1>5. \A y \in Elements : h[y] = SumTo(ValuesAt(F, y), n)
  OBVIOUS
<1> HIDE DEF F, h
<1>6. Poly(n, h)
  BY <1>2, <1>4, <1>5, PolySums
<1>7. Poly(n, f)
  BY PolyGrows
<1>8. Poly(n, e)
  <2>1. SumOn(e, h, f)
    BY DEF SumOn
  <2> HIDE DEF e
  <2> QED BY <1>6, <1>7, <2>1, PolyAdds
<1>9. ZeroAt(e, n)
  <2> SUFFICES ASSUME NEW i \in 1..n PROVE e[Numeral(i)] = Zero
    BY DEF ZeroAt
  <2> DEFINE y == Numeral(i)
             u == ValuesAt(F, y)
  <2>1. y \in Elements
    BY <1>1
  <2>2. ASSUME NEW j \in 1..n PROVE u[j] = IF i = j THEN v[i] ELSE Zero
    <3>1. u[j] = LagrangeAt(n, y)[j] \otimes v[j]
      BY <1>3, <2>1
    <3>2. LagrangeAt(n, y)[j] = IF i = j THEN One ELSE Zero
      BY LagrangePoly
    <3> QED BY <1>1, <3>1, <3>2, TimesOne, TimesZero
  <2> HIDE DEF u
  <2>3. SumTo(u, n) = v[i]
    <3>1. u[i] = v[i] /\ u[i] \in Elements /\ \A j \in (1..n) \ {i} : u[j] = Zero
      BY <1>1, <2>2
    <3> QED BY <3>1, SumOfOne
  <2>4. h[y] = v[i] /\ f[y] = v[i]
    BY <1>5, <2>1, <2>3 DEF u, Samples
  <2> QED BY <2>1, <2>4, AddSelf
<1>10. e[x] = Zero
  <2> HIDE DEF e
  <2> QED BY <1>8, <1>9, PolyZeros
<1>11. h[x] = f[x]
  BY <1>10, AddEqual
<1>12. SumTo(w, n) = h[x]
  <2>1. \A j \in 1..n : w[j] = ValuesAt(F, x)[j]
    BY <1>3 DEF Weighted
  <2> QED BY <1>5, <2>1, ToSame
<1> QED BY <1>11, <1>12
=============================================================================
