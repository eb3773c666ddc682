--------------------------------- MODULE Gf ---------------------------------
(***************************************************************************)
(* The binary field of the transcript proofs (engine/src/gf64.rs).  An     *)
(* element is the set of exponents of its polynomial, so addition is ##.   *)
(* The modulus is x^W plus the powers in Taps; the code has W = 64 and     *)
(* Taps = {0, 1, 3, 4}.                                                    *)
(***************************************************************************)
EXTENDS Rep3, Functions, TLC

CONSTANTS W, Taps

ASSUME FieldSize == W \in Nat \ {0} /\ 0 \in Taps /\ Taps \subseteq 0..(W - 1)

Elements == SUBSET (0..(W - 1))
Zero == {}
One == {0}
Gf64(w) == w \cap (0..(W - 1))
Numeral(k) == {i \in 0..(W - 1) : (k \div 2^i) % 2 = 1}

Up(a, i) == {b + i : b \in a}
Down(a, i) == {b - i : b \in {c \in a : c >= i}}
XorOver(f) == FoldFunction(LAMBDA x, acc : x ## acc, {}, f)

(* clmul: the product as polynomials, the high and the low part.           *)
Clmul(a, b) == XorOver([i \in b |-> Up(a, i)])

(* reduce: x^W is the sum of the taps.  Folding the high part in pushes up *)
(* to Max(Taps) bits out again, which are folded once more.                *)
Fold(h) == XorOver([t \in Taps |-> Up(h, t)]) \cap (0..(W - 1))
Reduce(hi, lo) == lo ## Fold(hi) ## Fold(XorOver([t \in Taps \ {0} |-> Down(hi, W - t)]))

(* f itself, which TLC then keeps as a table. *)
Tabled(f) == CHOOSE g \in {f} : g = f

Times == Tabled([a \in Elements |-> Tabled([b \in Elements |->
            LET product == Clmul(a, b)
            IN Reduce(Down(product, W), product \cap (0..(W - 1)))])])
a \otimes b == Times[a][b]

(* inv: a to the power 2^W - 2, by squaring.                               *)
Inv == Tabled([a \in Elements |->
    LET power[i \in 0..(W - 1)] ==
          IF i = 0 THEN [result |-> One, base |-> a \otimes a]
          ELSE [result |-> power[i - 1].result \otimes power[i - 1].base,
                base   |-> power[i - 1].base \otimes power[i - 1].base]
    IN power[W - 1].result])

(* The modulus is irreducible.                                             *)
ASSUME FieldAxioms ==
    /\ \A a, b \in Elements : a \otimes b \in Elements /\ a \otimes b = b \otimes a
    /\ \A a, b, c \in Elements : (a \otimes b) \otimes c = a \otimes (b \otimes c)
    /\ \A a, b, c \in Elements : a \otimes (b ## c) = (a \otimes b) ## (a \otimes c)
    /\ \A a \in Elements : a \otimes One = a
    /\ \A a \in Elements \ {Zero} : Inv[a] \in Elements /\ a \otimes Inv[a] = One

-----------------------------------------------------------------------------
(* pts: the first n points.                                                *)
Points(n) == [j \in 1..n |-> Numeral(j)]

(* lagrange_at: what each of n values at the first n points weighs at x.   *)
ProductOver(f) == FoldFunction(LAMBDA x, acc : x \otimes acc, One, f)
LagrangeAt(n, x) ==
    LET pt == Points(n)
    IN [j \in 1..n |->
          LET others == (1..n) \ {j}
          IN ProductOver([t \in others |-> x ## pt[t]])
               \otimes Inv[ProductOver([t \in others |-> pt[j] ## pt[t]])]]

(* The sum of weighted values: an interpolated value, an inner product.    *)
Dot(a, b) == XorOver([j \in DOMAIN a |-> a[j] \otimes b[j]])
=============================================================================
