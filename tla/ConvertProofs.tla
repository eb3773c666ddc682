--------------------------- MODULE ConvertProofs ---------------------------
(***************************************************************************)
(* Theorems about Convert, for every width, group order, block, dealing    *)
(* and choice of summands: the circuit masks every leaf right, one lying   *)
(* party cannot move a point, and nothing but the leaf is released for it. *)
(*                                                                         *)
(* The circuit's part is arithmetic: the value of a number in words, what  *)
(* a full adder, an adder of a constant and a conditional subtraction do   *)
(* to it, and what a leaf's entries and the summands' words amount to.  A  *)
(* recursive function is first shown to exist, one step longer at a time.  *)
(***************************************************************************)
EXTENDS Convert, CircuitProofs

(* The exponents in use.                                                   *)
Exponents == 0..(Width + 4)

(* Powers of two: positive, and each the double of the one before.        *)
LEMMA Powers ==
    /\ \A n \in Exponents : 2^n \in Nat \ {0}
    /\ \A n \in 1..(Width + 4) : 2^n = 2 * 2^(n - 1)
    /\ 2^0 = 1
    /\ Width \in Nat \ {0}
<1>1. Width \in Nat \ {0} /\ 2^0 = 1
  BY QMaskSizes, PowersOfTwo
<1>2. \A n \in 1..(Width + 4) : 2^n = 2 * 2^(n - 1)
  <2> SUFFICES ASSUME NEW n \in 1..(Width + 4) PROVE 2^n = 2 * 2^(n - 1)
    OBVIOUS
  <2>1. n - 1 \in 0..(Width + 3) /\ (n - 1) + 1 = n
    BY <1>1
  <2>2. 2^((n - 1) + 1) = 2 * 2^(n - 1)
    BY <2>1, PowersOfTwo
  <2> QED BY <2>1, <2>2
<1>3. \A n \in Exponents : 2^n \in Nat \ {0}
  <2> DEFINE Bad == {n \in Exponents : 2^n \notin Nat \ {0}}
  <2> SUFFICES ASSUME Bad # {} PROVE FALSE
    OBVIOUS
  <2>1. PICK n \in Bad : \A y \in Bad : n <= y
    <3>1. Bad \in SUBSET Nat
      BY <1>1 DEF Exponents
    <3> HIDE DEF Bad
    <3> QED BY <3>1, LeastNumber
  <2>2. n \in 1..(Width + 4)
    <3>1. ASSUME n = 0 PROVE FALSE
      <4>1. 2^n = 1
        BY <1>1, <3>1
      <4> QED BY <2>1, <4>1
    <3> QED BY <1>1, <2>1, <3>1 DEF Exponents
  <2>3. n - 1 \in Exponents /\ ~(n <= n - 1)
    BY <1>1, <2>2 DEF Exponents
  <2>4. 2^(n - 1) \in Nat \ {0}
    BY <2>1, <2>3
  <2>5. 2^n \in Nat \ {0}
    BY <1>2, <2>2, <2>4
  <2> QED BY <2>1, <2>5
<1> QED BY <1>1, <1>2, <1>3

(* A higher power is a larger number.                                      *)
LEMMA PowersGrow ==
    ASSUME NEW i \in Exponents, NEW j \in Exponents, i < j
    PROVE  2^i < 2^j
<1> DEFINE Bad == {n \in Exponents : i < n /\ ~(2^i < 2^n)}
<1>0. Width \in Nat /\ \A n \in Exponents : 2^n \in Nat \ {0}
  BY Powers
<1> SUFFICES ASSUME Bad # {} PROVE FALSE
  OBVIOUS
<1>1. PICK n \in Bad : \A y \in Bad : n <= y
  <2>1. Bad \in SUBSET Nat
    BY <1>0 DEF Exponents
  <2> HIDE DEF Bad
  <2> QED BY <2>1, LeastNumber
<1>2. n \in 1..(Width + 4) /\ n - 1 \in Exponents /\ ~(n <= n - 1) /\ i <= n - 1
  BY <1>0, <1>1 DEF Exponents
<1>3. 2^n = 2 * 2^(n - 1) /\ 2^n \in Nat /\ 2^(n - 1) \in Nat \ {0} /\ 2^i \in Nat
  BY <1>0, <1>1, <1>2, Powers
<1>4. CASE i = n - 1
  <2>1. 2^i = 2^(n - 1)
    BY <1>4
  <2> QED BY <1>1, <1>3, <2>1
<1>5. CASE i < n - 1
  <2>1. 2^i < 2^(n - 1)
    BY <1>1, <1>2, <1>5
  <2> QED BY <1>1, <1>3, <2>1
<1> QED BY <1>2, <1>4, <1>5 DEF Exponents

-----------------------------------------------------------------------------
(* The number that the first n words have in lane l.                       *)
Ones(words, l, n) == {i \in 1..n : l \in Word(words, i)}
Value(words, l, n) == SumSet({2^(i - 1) : i \in Ones(words, l, n)})
Weight(words, l, n) == IF l \in Word(words, n) THEN 2^(n - 1) ELSE 0

(* What word n adds to the value.                                          *)
LEMMA ValueNext ==
    ASSUME NEW words, NEW l
    PROVE  /\ Value(words, l, 0) = 0
           /\ \A n \in 1..(Width + 4) :
                /\ Value(words, l, n) = Value(words, l, n - 1) + Weight(words, l, n)
                /\ Value(words, l, n - 1) \in Nat /\ Weight(words, l, n) \in Nat
<1> DEFINE P(n) == {2^(i - 1) : i \in Ones(words, l, n)}
<1>0. Width \in Nat /\ \A i \in Exponents : 2^i \in Nat
  BY Powers
<1>1. Value(words, l, 0) = 0
  <2>1. P(0) = {}
    BY DEF Ones
  <2> QED BY <2>1, SumNone DEF Value
<1>2. ASSUME NEW n \in 1..(Width + 4)
      PROVE  /\ Value(words, l, n) = Value(words, l, n - 1) + Weight(words, l, n)
             /\ Value(words, l, n - 1) \in Nat /\ Weight(words, l, n) \in Nat
  <2>1. n - 1 \in Exponents /\ n \in Exponents /\ 2^(n - 1) \in Nat
    BY <1>0 DEF Exponents
  <2>2. ASSUME NEW i \in Ones(words, l, n - 1) PROVE 2^(i - 1) \in Nat /\ 2^(i - 1) < 2^(n - 1)
    <3>1. i - 1 \in Exponents /\ i - 1 < n - 1
      BY <1>0 DEF Ones, Exponents
    <3> QED BY <1>0, <2>1, <3>1, PowersGrow
  <2>3. P(n - 1) \in SUBSET Nat /\ IsFiniteSet(P(n - 1)) /\ 2^(n - 1) \in Nat \ P(n - 1)
    <3>1. \A x \in P(n - 1) : x \in Nat /\ x < 2^(n - 1)
      BY <2>2
    <3>2. P(n - 1) \in SUBSET Nat /\ (\A x \in P(n - 1) : x <= 2^(n - 1)) /\ 2^(n - 1) \notin P(n - 1)
      BY <2>1, <3>1
    <3> HIDE DEF P
    <3> QED BY <2>1, <3>2, FS_BoundedSetOfNaturals
  <2>4. Value(words, l, n - 1) = SumSet(P(n - 1)) /\ Value(words, l, n) = SumSet(P(n))
    BY DEF Value
  <2>5. P(n) = IF l \in Word(words, n) THEN P(n - 1) \cup {2^(n - 1)} ELSE P(n - 1)
    <3>1. Ones(words, l, n) = IF l \in Word(words, n) THEN Ones(words, l, n - 1) \cup {n}
                                                      ELSE Ones(words, l, n - 1)
      BY DEF Ones
    <3> QED BY <3>1
  <2> HIDE DEF P
  <2>6. SumSet(P(n - 1) \cup {2^(n - 1)}) = SumSet(P(n - 1)) + 2^(n - 1) /\ SumSet(P(n - 1)) \in Nat
    BY <2>3, SumAdds
  <2> QED BY <2>1, <2>4, <2>5, <2>6 DEF Weight
<1> QED BY <1>1, <1>2

(* The same, counted from below.                                           *)
LEMMA ValueStep ==
    ASSUME NEW words, NEW l, NEW n \in 0..(Width + 3)
    PROVE  /\ Value(words, l, n + 1) = Value(words, l, n) + (IF l \in Word(words, n + 1) THEN 2^n ELSE 0)
           /\ Value(words, l, n) \in Nat
<1>1. n + 1 \in 1..(Width + 4) /\ (n + 1) - 1 = n
  BY Powers
<1> QED BY <1>1, ValueNext DEF Weight

(* It is less than the next power.                                         *)
LEMMA ValueBound ==
    ASSUME NEW words, NEW l
    PROVE  \A n \in Exponents : Value(words, l, n) \in Nat /\ Value(words, l, n) < 2^n
<1> DEFINE S == {n \in Nat : Value(words, l, n) \in Nat /\ Value(words, l, n) < 2^n}
<1>0. Width \in Nat /\ Width + 4 \in Nat /\ \A i \in Exponents : 2^i \in Nat
  BY Powers
<1>1. 0 \in S
  <2>1. 0 \in Nat /\ 2^0 = 1 /\ Value(words, l, 0) = 0
    BY ValueNext, Powers
  <2> QED BY <2>1
<1>2. ASSUME NEW n \in 0..(Width + 4 - 1), n \in S PROVE n + 1 \in S
  <2>1. n + 1 \in 1..(Width + 4) /\ (n + 1) - 1 = n /\ n + 1 \in Nat /\ n \in Exponents
    BY <1>0 DEF Exponents
  <2>2. Value(words, l, n + 1) = Value(words, l, n) + Weight(words, l, n + 1)
    BY <2>1, ValueNext
  <2>3. Weight(words, l, n + 1) \in {0, 2^n}
    BY <2>1 DEF Weight
  <2>4. 2^(n + 1) = 2 * 2^n /\ 2^n \in Nat
    BY <1>0, <2>1, Powers
  <2>5. Value(words, l, n) \in Nat /\ Value(words, l, n) < 2^n
    BY <1>2
  <2> QED BY <2>1, <2>2, <2>3, <2>4, <2>5
<1> HIDE DEF S
<1>3. \A n \in 0..(Width + 4) : n \in S
  BY <1>0, <1>1, <1>2, UpTo
<1> QED BY <1>3 DEF S, Exponents

(* Words with the same bits have the same value.                           *)
LEMMA ValueSame ==
    ASSUME NEW a, NEW b, NEW l, NEW n, \A i \in 1..n : l \in Word(a, i) <=> l \in Word(b, i)
    PROVE  Value(a, l, n) = Value(b, l, n)
<1>1. Ones(a, l, n) = Ones(b, l, n)
  BY DEF Ones
<1> QED BY <1>1 DEF Value

(* Adding a multiple of P does not change a number modulo P.               *)
LEMMA ResidueShift ==
    ASSUME NEW P \in Nat \ {0}, NEW n \in Int, NEW k \in Int
    PROVE  (n + k * P) % P = n % P
<1> DEFINE m == n + k * P
           d == n \div P
           r == n % P
           e == m \div P
           s == m % P
           f == d + k - e
<1>1. k * P \in Int /\ m \in Int
  BY Z3
<1>2. d \in Int /\ r \in Int /\ n = (P * d) + r /\ 0 <= r /\ r < P
  BY Z3
<1>3. m \in Int => e \in Int /\ s \in Int /\ m = (P * e) + s /\ 0 <= s /\ s < P
  <2> HIDE DEF m
  <2> QED BY Z3
<1>4. e \in Int /\ s \in Int /\ n + (k * P) = (P * e) + s /\ 0 <= s /\ s < P
  BY <1>1, <1>3
<1> HIDE DEF m, d, r, e, s
<1>5. f \in Int /\ P * f = s - r
  BY <1>2, <1>4, Z3
<1> HIDE DEF f
<1>6. ASSUME f >= 1 PROVE FALSE
  <2>1. P * f >= P
    BY <1>5, <1>6, Z3
  <2> QED BY <2>1, <1>2, <1>4, <1>5, Z3
<1>7. ASSUME f <= -1 PROVE FALSE
  <2>1. P * f <= -P
    BY <1>5, <1>7, Z3
  <2> QED BY <2>1, <1>2, <1>4, <1>5, Z3
<1>8. f = 0
  BY <1>5, <1>6, <1>7
<1>9. s = r
  BY <1>8, <1>5, <1>2, <1>4, Z3
<1> QED BY <1>9 DEF s, r, m

(* The remainder of a number is told by where it lies.                     *)
LEMMA RemainderIs ==
    ASSUME NEW P \in Nat \ {0}, NEW n \in Int, NEW k \in Int, NEW r \in 0..(P - 1), n = r + k * P
    PROVE  n % P = r
<1>1. n % P = r % P
  <2>1. r \in Int
    OBVIOUS
  <2>2. (r + k * P) % P = r % P
    BY <2>1, ResidueShift
  <2> QED BY <2>2, Zenon
<1>2. r % P = r
  BY Z3
<1> QED BY <1>1, <1>2

(* The bit that a remainder modulo a power is longer by.                   *)
LEMMA NextBit ==
    ASSUME NEW n \in Nat, NEW i \in 1..(Width + 4)
    PROVE  n % 2^i = (n % 2^(i - 1)) + (IF BitAt(n, i) THEN 2^(i - 1) ELSE 0)
<1> DEFINE P == 2^(i - 1)
           q == n \div P
           r == n % P
           h == q \div 2
           b == q % 2
<1>1. P \in Nat \ {0} /\ 2^i = 2 * P
  <2>1. i - 1 \in Exponents
    BY Powers DEF Exponents
  <2> QED BY <2>1, Powers
<1> HIDE DEF P
<1>2. q \in Int /\ r \in Int /\ n = P * q + r /\ 0 <= r /\ r < P
  BY <1>1, Z3
<1>3. q \in Int => h \in Int /\ b \in 0..1 /\ q = 2 * h + b
  <2> HIDE DEF q
  <2> QED BY Z3
<1>4. BitAt(n, i) <=> b = 1
  BY DEF BitAt, P
<1> HIDE DEF q, r, h, b
<1>5. b \in 0..1 /\ h \in Int /\ q = 2 * h + b
  BY <1>2, <1>3
<1> DEFINE s == IF b = 1 THEN P + r ELSE r
<1>6. 2 * P \in Nat \ {0} /\ s \in 0..(2 * P - 1)
  BY <1>1, <1>2
<1>7. n = s + h * (2 * P)
  <2>1. CASE b = 1
    <3>1. n = P * (2 * h + 1) + r
      BY <1>2, <1>5, <2>1
    <3> QED BY <1>1, <1>2, <1>5, <2>1, <3>1, Z3
  <2>2. CASE b = 0
    <3>1. n = P * (2 * h) + r
      <4>1. 2 * h + 0 = 2 * h
        BY <1>5
      <4> QED BY <1>2, <1>5, <2>2, <4>1
    <3> QED BY <1>1, <1>2, <1>5, <2>2, <3>1, Z3
  <2> QED BY <1>5, <2>1, <2>2
<1> HIDE DEF s
<1>8. n % (2 * P) = s
  BY <1>5, <1>6, <1>7, RemainderIs
<1>9. n % 2^i = s
  BY <1>1, <1>8
<1> QED BY <1>1, <1>2, <1>4, <1>5, <1>9 DEF s, r, P

(* Words that have the bits of a number have its value.                    *)
LEMMA ValueIs ==
    ASSUME NEW words, NEW l, NEW n \in Nat, NEW N \in Exponents,
           \A i \in 1..N : l \in Word(words, i) <=> BitAt(n, i)
    PROVE  \A k \in 0..N : Value(words, l, k) = n % 2^k
<1> DEFINE S == {k \in Nat : Value(words, l, k) = n % 2^k}
<1>0. Width \in Nat /\ N \in Nat
  BY Powers DEF Exponents
<1>1. 0 \in S
  <2>1. n % 1 = 0
    BY Z3
  <2>2. n % 2^0 = 0
    BY <2>1, Powers
  <2> QED BY <2>2, ValueNext
<1>2. ASSUME NEW k \in 0..(N - 1), k \in S PROVE k + 1 \in S
  <2>1. k + 1 \in 1..(Width + 4) /\ (k + 1) - 1 = k /\ k + 1 \in 1..N /\ k + 1 \in Nat
    BY <1>0 DEF Exponents
  <2>2. Value(words, l, k + 1) = Value(words, l, k) + Weight(words, l, k + 1)
    BY <2>1, ValueNext
  <2>3. n % 2^(k + 1) = (n % 2^k) + (IF BitAt(n, k + 1) THEN 2^k ELSE 0)
    BY <2>1, NextBit
  <2>4. Weight(words, l, k + 1) = IF BitAt(n, k + 1) THEN 2^k ELSE 0
    BY <2>1 DEF Weight
  <2> QED BY <1>2, <2>1, <2>2, <2>3, <2>4
<1> HIDE DEF S
<1>3. \A k \in 0..N : k \in S
  BY <1>0, <1>1, <1>2, UpTo
<1> QED BY <1>3 DEF S

(* The masked sum less the residues of its summands is the leaf's residue. *)
Unmasks(P, a, b, c, d) ==
    (((a + b + c + d) % P) - (b % P) - (c % P) - (d % P)) % P = a % P

(* Summands that were added modulo P come off modulo P.                    *)
LEMMA MaskOff ==
    ASSUME NEW P \in Nat \ {0}, NEW a \in Int, NEW b \in Int, NEW c \in Int, NEW d \in Int
    PROVE  Unmasks(P, a, b, c, d)
<1> DEFINE t == a + b + c + d
           k == (b \div P) + (c \div P) + (d \div P) - (t \div P)
<1>1. \A x \in Int : x \div P \in Int /\ x % P \in Int /\ x = (P * (x \div P)) + (x % P)
  BY Z3
<1>2. t \in Int
  OBVIOUS
<1> HIDE DEF t
<1>3. k \in Int
  BY <1>1, <1>2
<1>4. (t % P) - (b % P) - (c % P) - (d % P) = a + k * P
  <2> DEFINE tq == t \div P  bq == b \div P  cq == c \div P  dq == d \div P
  <2>1. /\ t % P = t - P * tq /\ b % P = b - P * bq /\ c % P = c - P * cq /\ d % P = d - P * dq
        /\ tq \in Int /\ bq \in Int /\ cq \in Int /\ dq \in Int
        /\ t % P \in Int /\ b % P \in Int /\ c % P \in Int /\ d % P \in Int
    BY <1>1, <1>2, Z3
  <2>2. k = bq + cq + dq - tq
    OBVIOUS
  <2>3. t = a + b + c + d
    BY DEF t
  <2> HIDE DEF tq, bq, cq, dq, k
  <2> QED BY <2>1, <2>2, <2>3, <1>2, Z3
<1> HIDE DEF k
<1>5. (a + k * P) % P = a % P
  BY <1>3, ResidueShift
<1> QED BY <1>4, <1>5 DEF t, Unmasks

-----------------------------------------------------------------------------
(* Numbers in words, built from the lowest bit.                            *)
LEMMA ValueAppend ==
    ASSUME NEW U, NEW s \in Seq(U), NEW x \in U, NEW l, Len(s) \in 0..(Width + 3)
    PROVE  /\ Append(s, x) \in Seq(U) /\ Len(Append(s, x)) = Len(s) + 1
           /\ \A i \in 1..Len(s) : Append(s, x)[i] = s[i]
           /\ Append(s, x)[Len(s) + 1] = x
           /\ \A n \in 0..Len(s) : Value(Append(s, x), l, n) = Value(s, l, n)
           /\ Value(Append(s, x), l, Len(s) + 1)
                = Value(s, l, Len(s)) + (IF l \in x THEN 2^Len(s) ELSE 0)
<1> DEFINE t == Append(s, x)
<1>0. Width \in Nat /\ Len(s) \in Nat /\ Len(s) + 1 \in 1..(Width + 4) /\ (Len(s) + 1) - 1 = Len(s)
  BY Powers
<1>1. /\ t \in Seq(U) /\ Len(t) = Len(s) + 1
      /\ \A i \in 1..Len(s) : t[i] = s[i]
      /\ t[Len(s) + 1] = x
  OBVIOUS
<1> HIDE DEF t
<1>2. \A i \in 1..Len(s) : Word(t, i) = Word(s, i)
  BY <1>0, <1>1 DEF Word
<1>3. \A n \in 0..Len(s) : Value(t, l, n) = Value(s, l, n)
  <2> SUFFICES ASSUME NEW n \in 0..Len(s) PROVE Value(t, l, n) = Value(s, l, n)
    OBVIOUS
  <2>1. \A i \in 1..n : l \in Word(t, i) <=> l \in Word(s, i)
    BY <1>0, <1>2
  <2> QED BY <2>1, ValueSame
<1>4. Word(t, Len(s) + 1) = x
  BY <1>0, <1>1 DEF Word
<1>5. Value(t, l, Len(s) + 1) = Value(t, l, Len(s)) + Weight(t, l, Len(s) + 1)
  BY <1>0, ValueNext
<1>6. Value(t, l, Len(s)) = Value(s, l, Len(s))
  BY <1>0, <1>3
<1>7. Value(t, l, Len(s) + 1) = Value(s, l, Len(s)) + (IF l \in x THEN 2^Len(s) ELSE 0)
  BY <1>0, <1>4, <1>5, <1>6 DEF Weight
<1> QED BY <1>1, <1>3, <1>7 DEF t

(* Bits past the end are zero, and so are those of a number below a power. *)
LEMMA ValueBeyond ==
    ASSUME NEW s, NEW l, NEW m \in Exponents, NEW N \in m..(Width + 4),
           \A i \in (m + 1)..N : l \notin Word(s, i)
    PROVE  Value(s, l, N) = Value(s, l, m)
<1> DEFINE S == {n \in Nat : m <= n => Value(s, l, n) = Value(s, l, m)}
<1>0. Width \in Nat /\ m \in Nat /\ N \in Nat
  BY Powers DEF Exponents
<1>1. 0 \in S
  <2>1. m <= 0 => m = 0
    BY <1>0
  <2> QED BY <2>1
<1>2. ASSUME NEW n \in 0..(N - 1), n \in S PROVE n + 1 \in S
  <2>1. CASE n + 1 <= m
    <3>1. m <= n + 1 => n + 1 = m
      BY <1>0, <2>1
    <3>2. n + 1 \in Nat
      BY <1>0
    <3> QED BY <3>1, <3>2
  <2>2. CASE m <= n
    <3>1. n + 1 \in 1..(Width + 4) /\ (n + 1) - 1 = n /\ n + 1 \in (m + 1)..N /\ n + 1 \in Nat
      BY <1>0, <2>2
    <3>2. Value(s, l, n + 1) = Value(s, l, n) + Weight(s, l, n + 1) /\ Value(s, l, n) \in Nat
      BY <3>1, ValueNext
    <3>3. Weight(s, l, n + 1) = 0
      BY <3>1 DEF Weight
    <3> QED BY <1>2, <2>2, <3>1, <3>2, <3>3
  <2> QED BY <1>0, <2>1, <2>2
<1> HIDE DEF S
<1>3. \A n \in 0..N : n \in S
  BY <1>0, <1>1, <1>2, UpTo
<1> QED BY <1>0, <1>3 DEF S

(* A number below 2^m has its value in its first m words.                  *)
LEMMA ValueSmall ==
    ASSUME NEW s, NEW l, NEW m \in Exponents, NEW N \in m..(Width + 4), Value(s, l, N) < 2^m
    PROVE  Value(s, l, N) = Value(s, l, m)
<1>0. Width \in Nat /\ m \in Nat /\ N \in Nat /\ \A i \in Exponents : 2^i \in Nat
  BY Powers DEF Exponents
<1>1. ASSUME NEW k \in 0..(N - m) PROVE Value(s, l, N - k) = Value(s, l, N)
  <2> DEFINE S == {j \in Nat : j <= N - m => Value(s, l, N - j) = Value(s, l, N)}
  <2>1. 0 \in S
    <3>1. N - 0 = N
      BY <1>0
    <3> QED BY <3>1
  <2>2. ASSUME NEW j \in 0..(N - m - 1), j \in S PROVE j + 1 \in S
    <3>1. /\ N - j \in 1..(Width + 4) /\ (N - j) - 1 = N - (j + 1) /\ N - (j + 1) \in Exponents
          /\ m <= N - (j + 1) /\ j + 1 \in Nat
      BY <1>0 DEF Exponents
    <3>2. /\ Value(s, l, N - j) = Value(s, l, N - (j + 1)) + Weight(s, l, N - j)
          /\ Value(s, l, N - (j + 1)) \in Nat
      BY <3>1, ValueNext
    <3>3. Value(s, l, N - j) < 2^m /\ Value(s, l, N - j) = Value(s, l, N)
      BY <1>0, <2>2
    <3>4. Weight(s, l, N - j) = 0
      <4>1. 2^m <= 2^(N - (j + 1))
        <5>1. CASE m = N - (j + 1)
          BY <1>0, <5>1
        <5>2. CASE m < N - (j + 1)
          <6>1. 2^m < 2^(N - (j + 1))
            BY <3>1, <5>2, PowersGrow
          <6> QED BY <1>0, <3>1, <6>1
        <5> QED BY <1>0, <3>1, <5>1, <5>2
      <4>2. Weight(s, l, N - j) \in {0, 2^(N - (j + 1))}
        BY <3>1 DEF Weight
      <4> QED BY <1>0, <3>1, <3>2, <3>3, <4>1, <4>2
    <3>5. Value(s, l, N - (j + 1)) = Value(s, l, N)
      BY <3>2, <3>3, <3>4
    <3> QED BY <3>1, <3>5
  <2> HIDE DEF S
  <2>3. N - m \in Nat
    BY <1>0
  <2>4. \A j \in 0..(N - m) : j \in S
    BY <2>1, <2>2, <2>3, UpTo
  <2> QED BY <1>0, <2>4 DEF S
<1>2. N - m \in 0..(N - m) /\ N - (N - m) = m
  BY <1>0
<1>3. Value(s, l, N - (N - m)) = Value(s, l, N)
  BY <1>1, <1>2
<1> QED BY <1>2, <1>3

NoWords == [out |-> << >>, carry |-> {}]

(* The adder, bit by bit.                                                  *)
IsAdded(f, a, b, n) ==
    /\ f = [i \in 0..n |-> f[i]] /\ f[0] = NoWords
    /\ \A i \in 1..n : f[i] = Adder(f[i - 1], Word(a, i), Word(b, i))

(* There is such a chain, one adder longer at a time.                      *)
LEMMA AddedExists ==
    ASSUME NEW a, NEW b, NEW N \in Nat
    PROVE  \E f : IsAdded(f, a, b, N)
<1> DEFINE S == {k \in Nat : \E f : IsAdded(f, a, b, k)}
<1>1. 0 \in S
  <2> DEFINE f == [i \in 0..0 |-> NoWords]
  <2>1. IsAdded(f, a, b, 0)
    BY DEF IsAdded
  <2> QED BY <2>1
<1>2. ASSUME NEW k \in 0..(N - 1), k \in S PROVE k + 1 \in S
  <2>1. PICK f : IsAdded(f, a, b, k)
    BY <1>2
  <2> DEFINE g == [i \in 0..(k + 1) |-> IF i = k + 1 THEN Adder(f[k], Word(a, (k + 1)), Word(b, (k + 1))) ELSE f[i]]
  <2>2. k \in Nat /\ k + 1 \in Nat /\ 0 \in 0..k /\ 0 # k + 1 /\ (k + 1) - 1 = k /\ k \in 0..(k + 1) /\ k # k + 1
    OBVIOUS
  <2>3. g = [i \in 0..(k + 1) |-> g[i]] /\ g[0] = NoWords
    BY <2>1, <2>2 DEF IsAdded
  <2>4. ASSUME NEW i \in 1..k PROVE g[i] = Adder(g[i - 1], Word(a, i), Word(b, i))
    <3>1. i \in 0..(k + 1) /\ i - 1 \in 0..(k + 1) /\ i # k + 1 /\ i - 1 # k + 1
      BY <2>2
    <3>2. g[i] = f[i] /\ g[i - 1] = f[i - 1]
      BY <3>1
    <3> QED BY <2>1, <3>2 DEF IsAdded
  <2>5. g[k + 1] = Adder(g[k], Word(a, (k + 1)), Word(b, (k + 1)))
    BY <2>2
  <2> HIDE DEF g
  <2>6. \A i \in 1..(k + 1) : i \in 1..k \/ i = k + 1
    BY <2>2
  <2>7. \A i \in 1..(k + 1) : g[i] = Adder(g[i - 1], Word(a, i), Word(b, i))
    BY <2>2, <2>4, <2>5, <2>6
  <2>8. IsAdded(g, a, b, k + 1)
    BY <2>3, <2>7 DEF IsAdded
  <2> QED BY <2>2, <2>8
<1> HIDE DEF S
<1>3. \A k \in 0..N : k \in S
  BY <1>1, <1>2, UpTo
<1>4. N \in 0..N
  OBVIOUS
<1> QED BY <1>3, <1>4 DEF S

(* Add is such a chain of adders.                                          *)
LEMMA AddFold ==
    ASSUME NEW a, NEW b, NEW N \in Nat
    PROVE  \E f : IsAdded(f, a, b, N) /\ Add(a, b, N) = Append(f[N].out, f[N].carry)
<1> DEFINE F == CHOOSE f : f = [i \in 0..N |->
                    IF i = 0 THEN [out |-> << >>, carry |-> {}] ELSE Adder(f[i - 1], Word(a, i), Word(b, i))]
<1>1. PICK g : IsAdded(g, a, b, N)
  BY AddedExists
<1>2. g = [i \in 0..N |-> IF i = 0 THEN [out |-> << >>, carry |-> {}] ELSE Adder(g[i - 1], Word(a, i), Word(b, i))]
  <2>1. ASSUME NEW i \in 0..N
        PROVE  g[i] = IF i = 0 THEN [out |-> << >>, carry |-> {}] ELSE Adder(g[i - 1], Word(a, i), Word(b, i))
    <3>1. i = 0 \/ i \in 1..N
      OBVIOUS
    <3> QED BY <1>1, <3>1 DEF IsAdded, NoWords
  <2>2. g = [i \in 0..N |-> g[i]]
    BY <1>1 DEF IsAdded
  <2> QED BY <2>1, <2>2, Zenon
<1>3. F = [i \in 0..N |-> IF i = 0 THEN [out |-> << >>, carry |-> {}] ELSE Adder(F[i - 1], Word(a, i), Word(b, i))]
  BY <1>2
<1> HIDE DEF F
<1>4. IsAdded(F, a, b, N)
  <2>1. F = [i \in 0..N |-> F[i]] /\ F[0] = NoWords
    BY <1>3 DEF NoWords
  <2>2. ASSUME NEW i \in 1..N PROVE F[i] = Adder(F[i - 1], Word(a, i), Word(b, i))
    <3>1. i \in 0..N /\ i # 0
      OBVIOUS
    <3> QED BY <1>3, <3>1
  <2> QED BY <2>1, <2>2 DEF IsAdded
<1>5. Add(a, b, N) = Append(F[N].out, F[N].carry)
  BY DEF F, Add, Rippled
<1> QED BY <1>4, <1>5

(* Numbers of so many lanes.                                               *)
Words(U) == Seq(SUBSET U)

(* Every word of a number is a set of lanes.                               *)
LEMMA WordIn ==
    ASSUME NEW U, NEW s \in Words(U), NEW i \in Nat \ {0}
    PROVE  Word(s, i) \in SUBSET U
<1>1. i <= Len(s) => s[i] \in SUBSET U
  BY DEF Words
<1> QED BY <1>1 DEF Word

(* One full adder, of a bit that weighs P.                                 *)
LEMMA FullAdder ==
    ASSUME NEW X \in BOOLEAN, NEW Y \in BOOLEAN, NEW C \in BOOLEAN, NEW S \in BOOLEAN, NEW D \in BOOLEAN,
           S <=> ~(X <=> ~(Y <=> C)), D <=> (X /\ Y) \/ ((X \/ Y) /\ C),
           NEW P \in Nat, NEW a \in Nat, NEW b \in Nat, NEW o \in Nat,
           o + (IF C THEN P ELSE 0) = a + b
    PROVE  o + (IF S THEN P ELSE 0) + (IF D THEN 2 * P ELSE 0)
             = a + (IF X THEN P ELSE 0) + (b + (IF Y THEN P ELSE 0))
<1>1. CASE X /\ Y
  BY <1>1
<1>2. CASE X /\ ~Y
  BY <1>2
<1>3. CASE ~X /\ Y
  BY <1>3
<1>4. CASE ~X /\ ~Y
  BY <1>4
<1> QED BY <1>1, <1>2, <1>3, <1>4

(* Add adds.                                                               *)
LEMMA AddRight ==
    ASSUME NEW U, NEW a \in Words(U), NEW b \in Words(U), NEW l, NEW N \in 0..(Width + 3)
    PROVE  /\ Add(a, b, N) \in Words(U) /\ Len(Add(a, b, N)) = N + 1
           /\ Value(Add(a, b, N), l, N + 1) = Value(a, l, N) + Value(b, l, N)
<1>0. Width \in Nat /\ N \in Nat /\ \A i \in Exponents : 2^i \in Nat
  BY Powers
<1>1. PICK f : IsAdded(f, a, b, N) /\ Add(a, b, N) = Append(f[N].out, f[N].carry)
  BY <1>0, AddFold
<1> DEFINE Typed(i) == f[i].out \in Seq(SUBSET U) /\ Len(f[i].out) = i /\ f[i].carry \in SUBSET U
           Sums(i) == Value(f[i].out, l, i) + (IF l \in f[i].carry THEN 2^i ELSE 0)
                        = Value(a, l, i) + Value(b, l, i)
           S == {i \in Nat : Typed(i) /\ Sums(i)}
<1>2. 0 \in S
  <2>1. f[0] = NoWords
    BY <1>1 DEF IsAdded
  <2>2. f[0].out = << >> /\ f[0].carry = {}
    BY <2>1 DEF NoWords
  <2>3. Typed(0)
    BY <2>2
  <2>4. Sums(0)
    BY <2>2, ValueNext
  <2> QED BY <2>3, <2>4
<1>3. ASSUME NEW i \in 0..(N - 1), i \in S PROVE i + 1 \in S
  <2>1. /\ i \in Nat /\ i \in 0..(Width + 3) /\ i \in Exponents /\ i + 1 \in 1..N /\ (i + 1) - 1 = i
        /\ i + 1 \in 1..(Width + 4) /\ i + 1 \in Nat \ {0}
    BY <1>0 DEF Exponents
  <2> DEFINE x == Word(a, i + 1)
             y == Word(b, i + 1)
             c == f[i].carry
             s == x ## y ## c
             d == (x \cap y) ## ((x ## y) \cap c)
  <2>2. f[i + 1] = Adder(f[i], x, y)
    BY <1>1, <2>1 DEF IsAdded
  <2>3. f[i + 1].out = Append(f[i].out, s) /\ f[i + 1].carry = d
    BY <2>2 DEF Adder
  <2>4. Typed(i) /\ Sums(i)
    BY <1>3
  <2>5. x \in SUBSET U /\ y \in SUBSET U
    BY <2>1, WordIn
  <2>6. s \in SUBSET U /\ d \in SUBSET U
    BY <2>4, <2>5, InSymDiff
  <2>7. /\ l \in s <=> ~(l \in x <=> ~(l \in y <=> l \in c))
        /\ l \in d <=> \/ l \in x /\ l \in y
                       \/ (l \in x \/ l \in y) /\ l \in c
    BY InSymDiff
  <2>8. /\ Value(a, l, i + 1) = Value(a, l, i) + (IF l \in x THEN 2^i ELSE 0) /\ Value(a, l, i) \in Nat
        /\ Value(b, l, i + 1) = Value(b, l, i) + (IF l \in y THEN 2^i ELSE 0) /\ Value(b, l, i) \in Nat
    <3> HIDE DEF S
    <3> QED BY <2>1, ValueStep
  <2> HIDE DEF x, y, c, s, d
  <2>9. /\ f[i + 1].out \in Seq(SUBSET U) /\ Len(f[i + 1].out) = i + 1
        /\ Value(f[i + 1].out, l, i + 1) = Value(f[i].out, l, i) + (IF l \in s THEN 2^i ELSE 0)
    <3> DEFINE o == f[i].out
    <3>1. o \in Seq(SUBSET U) /\ Len(o) = i /\ f[i + 1].out = Append(o, s)
      BY <2>3, <2>4
    <3> HIDE DEF o, S
    <3>2. Len(o) \in 0..(Width + 3)
      BY <2>1, <3>1
    <3>3. /\ Append(o, s) \in Seq(SUBSET U) /\ Len(Append(o, s)) = Len(o) + 1
          /\ Value(Append(o, s), l, Len(o) + 1) = Value(o, l, Len(o)) + (IF l \in s THEN 2^Len(o) ELSE 0)
      <4> DEFINE V == SUBSET U
      <4>1. o \in Seq(V) /\ s \in V
        BY <2>6, <3>1
      <4> HIDE DEF V
      <4>2. /\ Append(o, s) \in Seq(V) /\ Len(Append(o, s)) = Len(o) + 1
            /\ Value(Append(o, s), l, Len(o) + 1) = Value(o, l, Len(o)) + (IF l \in s THEN 2^Len(o) ELSE 0)
        BY <3>2, <4>1, ValueAppend
      <4> QED BY <4>2 DEF V
    <3>4. /\ f[i + 1].out \in Seq(SUBSET U) /\ Len(f[i + 1].out) = i + 1
          /\ Value(f[i + 1].out, l, i + 1) = Value(o, l, i) + (IF l \in s THEN 2^i ELSE 0)
      BY <3>1, <3>3
    <3> QED BY <3>4 DEF o
  <2>10. Typed(i + 1)
    BY <2>3, <2>6, <2>9
  <2>11. Sums(i + 1)
    <3>1. 2^(i + 1) = 2 * 2^i /\ 2^i \in Nat
      BY <1>0, <2>1, Powers
    <3>2. Value(f[i].out, l, i) \in Nat
      BY <2>1, ValueBound
    <3>3. Value(f[i].out, l, i) + (IF l \in c THEN 2^i ELSE 0) = Value(a, l, i) + Value(b, l, i)
      BY <2>4 DEF c
    <3>4. Value(f[i].out, l, i) + (IF l \in s THEN 2^i ELSE 0) + (IF l \in d THEN 2^(i + 1) ELSE 0)
            = Value(a, l, i + 1) + Value(b, l, i + 1)
      <4>1. Value(f[i].out, l, i) + (IF l \in s THEN 2^i ELSE 0) + (IF l \in d THEN 2 * 2^i ELSE 0)
              = Value(a, l, i) + (IF l \in x THEN 2^i ELSE 0) + (Value(b, l, i) + (IF l \in y THEN 2^i ELSE 0))
        <5> DEFINE X == l \in x
                   Y == l \in y
                   C == l \in c
                   G == l \in s
                   D == l \in d
                   p == 2^i
                   va == Value(a, l, i)
                   vb == Value(b, l, i)
                   vo == Value(f[i].out, l, i)
        <5>1. X \in BOOLEAN /\ Y \in BOOLEAN /\ C \in BOOLEAN /\ G \in BOOLEAN /\ D \in BOOLEAN
          OBVIOUS
        <5>2. G <=> ~(X <=> ~(Y <=> C))
          BY <2>7
        <5>3. D <=> (X /\ Y) \/ ((X \/ Y) /\ C)
          BY <2>7
        <5>4. p \in Nat /\ va \in Nat /\ vb \in Nat /\ vo \in Nat
          BY <2>8, <3>1, <3>2
        <5>5. vo + (IF C THEN p ELSE 0) = va + vb
          BY <3>3
        <5> HIDE DEF X, Y, C, G, D, p, va, vb, vo
        <5>6. vo + (IF G THEN p ELSE 0) + (IF D THEN 2 * p ELSE 0)
                = va + (IF X THEN p ELSE 0) + (vb + (IF Y THEN p ELSE 0))
          BY <5>1, <5>2, <5>3, <5>4, <5>5, FullAdder
        <5> QED BY <5>6 DEF X, Y, C, G, D, p, va, vb, vo
      <4> QED BY <2>8, <3>1, <4>1
    <3> QED BY <2>3, <2>9, <3>4
  <2> HIDE DEF Typed, Sums
  <2> QED BY <2>1, <2>10, <2>11
<1> HIDE DEF S
<1>4. N \in S
  <2>1. \A i \in 0..N : i \in S
    BY <1>0, <1>2, <1>3, UpTo
  <2>2. N \in 0..N
    BY <1>0
  <2> QED BY <2>1, <2>2
<1>5. Typed(N) /\ Sums(N)
  BY <1>4 DEF S
<1> QED BY <1>0, <1>1, <1>5, ValueAppend DEF Words

(* The adder of a constant.                                                *)
IsConstAdded(f, a, k, all, n) ==
    /\ f = [i \in 0..n |-> f[i]] /\ f[0] = NoWords
    /\ \A i \in 1..n : f[i] = ConstAdder(f[i - 1], Word(a, i), BitAt(k, i), all)

(* There is such a chain.                                                  *)
LEMMA ConstAddedExists ==
    ASSUME NEW a, NEW k, NEW all, NEW N \in Nat
    PROVE  \E f : IsConstAdded(f, a, k, all, N)
<1> DEFINE S == {j \in Nat : \E f : IsConstAdded(f, a, k, all, j)}
<1>1. 0 \in S
  <2> DEFINE f == [i \in 0..0 |-> NoWords]
  <2>1. IsConstAdded(f, a, k, all, 0)
    BY DEF IsConstAdded
  <2> QED BY <2>1
<1>2. ASSUME NEW j \in 0..(N - 1), j \in S PROVE j + 1 \in S
  <2>1. PICK f : IsConstAdded(f, a, k, all, j)
    BY <1>2
  <2> DEFINE g == [i \in 0..(j + 1) |-> IF i = j + 1 THEN ConstAdder(f[j], Word(a, j + 1), BitAt(k, j + 1), all) ELSE f[i]]
  <2>2. j \in Nat /\ j + 1 \in Nat /\ 0 \in 0..j /\ 0 # j + 1 /\ (j + 1) - 1 = j /\ j \in 0..(j + 1) /\ j # j + 1
    OBVIOUS
  <2>3. g = [i \in 0..(j + 1) |-> g[i]] /\ g[0] = NoWords
    BY <2>1, <2>2 DEF IsConstAdded
  <2>4. ASSUME NEW i \in 1..j PROVE g[i] = ConstAdder(g[i - 1], Word(a, i), BitAt(k, i), all)
    <3>1. i \in 0..(j + 1) /\ i - 1 \in 0..(j + 1) /\ i # j + 1 /\ i - 1 # j + 1
      BY <2>2
    <3>2. g[i] = f[i] /\ g[i - 1] = f[i - 1]
      BY <3>1
    <3> QED BY <2>1, <3>2 DEF IsConstAdded
  <2>5. g[j + 1] = ConstAdder(g[j], Word(a, j + 1), BitAt(k, j + 1), all)
    BY <2>2
  <2> HIDE DEF g
  <2>6. \A i \in 1..(j + 1) : i \in 1..j \/ i = j + 1
    BY <2>2
  <2>7. \A i \in 1..(j + 1) : g[i] = ConstAdder(g[i - 1], Word(a, i), BitAt(k, i), all)
    BY <2>2, <2>4, <2>5, <2>6
  <2>8. IsConstAdded(g, a, k, all, j + 1)
    BY <2>3, <2>7 DEF IsConstAdded
  <2> QED BY <2>2, <2>8
<1> HIDE DEF S
<1>3. \A j \in 0..N : j \in S
  BY <1>1, <1>2, UpTo
<1>4. N \in 0..N
  OBVIOUS
<1> QED BY <1>3, <1>4 DEF S

(* AddConst is such a chain.                                               *)
LEMMA ConstFold ==
    ASSUME NEW a, NEW k, NEW all, NEW N \in Nat
    PROVE  \E f : IsConstAdded(f, a, k, all, N) /\ AddConst(a, k, N, all) = f[N]
<1> DEFINE F == CHOOSE f : f = [i \in 0..N |->
                    IF i = 0 THEN [out |-> << >>, carry |-> {}] ELSE ConstAdder(f[i - 1], Word(a, i), BitAt(k, i), all)]
<1>1. PICK g : IsConstAdded(g, a, k, all, N)
  BY ConstAddedExists
<1>2. g = [i \in 0..N |-> IF i = 0 THEN [out |-> << >>, carry |-> {}] ELSE ConstAdder(g[i - 1], Word(a, i), BitAt(k, i), all)]
  <2>1. ASSUME NEW i \in 0..N
        PROVE  g[i] = IF i = 0 THEN [out |-> << >>, carry |-> {}] ELSE ConstAdder(g[i - 1], Word(a, i), BitAt(k, i), all)
    <3>1. i = 0 \/ i \in 1..N
      OBVIOUS
    <3> QED BY <1>1, <3>1 DEF IsConstAdded, NoWords
  <2>2. g = [i \in 0..N |-> g[i]]
    BY <1>1 DEF IsConstAdded
  <2> QED BY <2>1, <2>2, Zenon
<1>3. F = [i \in 0..N |-> IF i = 0 THEN [out |-> << >>, carry |-> {}] ELSE ConstAdder(F[i - 1], Word(a, i), BitAt(k, i), all)]
  BY <1>2
<1> HIDE DEF F
<1>4. IsConstAdded(F, a, k, all, N)
  <2>1. F = [i \in 0..N |-> F[i]] /\ F[0] = NoWords
    BY <1>3 DEF NoWords
  <2>2. ASSUME NEW i \in 1..N PROVE F[i] = ConstAdder(F[i - 1], Word(a, i), BitAt(k, i), all)
    <3>1. i \in 0..N /\ i # 0
      OBVIOUS
    <3> QED BY <1>3, <3>1
  <2> QED BY <2>1, <2>2 DEF IsConstAdded
<1>5. AddConst(a, k, N, all) = F[N]
  BY DEF F, AddConst, Rippled
<1> QED BY <1>4, <1>5

(* The choice between a number and a difference.                           *)
IsSelected(f, u, v, n) ==
    /\ f = [i \in 0..n |-> f[i]] /\ f[0] = NoWords
    /\ \A i \in 1..n : f[i] = Selector(f[i - 1], Word(u, i), v.out[i], v.carry)

(* There is such a choice.                                                 *)
LEMMA SelectedExists ==
    ASSUME NEW u, NEW v, NEW N \in Nat
    PROVE  \E f : IsSelected(f, u, v, N)
<1> DEFINE S == {k \in Nat : \E f : IsSelected(f, u, v, k)}
<1>1. 0 \in S
  <2> DEFINE f == [i \in 0..0 |-> NoWords]
  <2>1. IsSelected(f, u, v, 0)
    BY DEF IsSelected
  <2> QED BY <2>1
<1>2. ASSUME NEW k \in 0..(N - 1), k \in S PROVE k + 1 \in S
  <2>1. PICK f : IsSelected(f, u, v, k)
    BY <1>2
  <2> DEFINE g == [i \in 0..(k + 1) |-> IF i = k + 1 THEN Selector(f[k], Word(u, k + 1), v.out[k + 1], v.carry) ELSE f[i]]
  <2>2. k \in Nat /\ k + 1 \in Nat /\ 0 \in 0..k /\ 0 # k + 1 /\ (k + 1) - 1 = k /\ k \in 0..(k + 1) /\ k # k + 1
    OBVIOUS
  <2>3. g = [i \in 0..(k + 1) |-> g[i]] /\ g[0] = NoWords
    BY <2>1, <2>2 DEF IsSelected
  <2>4. ASSUME NEW i \in 1..k PROVE g[i] = Selector(g[i - 1], Word(u, i), v.out[i], v.carry)
    <3>1. i \in 0..(k + 1) /\ i - 1 \in 0..(k + 1) /\ i # k + 1 /\ i - 1 # k + 1
      BY <2>2
    <3>2. g[i] = f[i] /\ g[i - 1] = f[i - 1]
      BY <3>1
    <3> QED BY <2>1, <3>2 DEF IsSelected
  <2>5. g[k + 1] = Selector(g[k], Word(u, k + 1), v.out[k + 1], v.carry)
    BY <2>2
  <2> HIDE DEF g
  <2>6. \A i \in 1..(k + 1) : i \in 1..k \/ i = k + 1
    BY <2>2
  <2>7. \A i \in 1..(k + 1) : g[i] = Selector(g[i - 1], Word(u, i), v.out[i], v.carry)
    BY <2>2, <2>4, <2>5, <2>6
  <2>8. IsSelected(g, u, v, k + 1)
    BY <2>3, <2>7 DEF IsSelected
  <2> QED BY <2>2, <2>8
<1> HIDE DEF S
<1>3. \A k \in 0..N : k \in S
  BY <1>1, <1>2, UpTo
<1>4. N \in 0..N
  OBVIOUS
<1> QED BY <1>3, <1>4 DEF S

(* CondSubtractQ makes that choice.                                        *)
LEMMA SelectFold ==
    ASSUME NEW u, NEW all, NEW N \in Nat
    PROVE  \E f : IsSelected(f, u, AddConst(u, 2^N - Q, N, all), N) /\ CondSubtractQ(u, N, all) = f[N].out
<1> DEFINE v == AddConst(u, 2^N - Q, N, all)
           F == CHOOSE f : f = [i \in 0..N |->
                       IF i = 0 THEN [out |-> << >>, carry |-> {}] ELSE Selector(f[i - 1], Word(u, i), v.out[i], v.carry)]
<1> HIDE DEF v
<1>1. PICK g : IsSelected(g, u, v, N)
  BY SelectedExists
<1>2. g = [i \in 0..N |-> IF i = 0 THEN [out |-> << >>, carry |-> {}] ELSE Selector(g[i - 1], Word(u, i), v.out[i], v.carry)]
  <2>1. ASSUME NEW i \in 0..N
        PROVE  g[i] = IF i = 0 THEN [out |-> << >>, carry |-> {}] ELSE Selector(g[i - 1], Word(u, i), v.out[i], v.carry)
    <3>1. i = 0 \/ i \in 1..N
      OBVIOUS
    <3> QED BY <1>1, <3>1 DEF IsSelected, NoWords
  <2>2. g = [i \in 0..N |-> g[i]]
    BY <1>1 DEF IsSelected
  <2> QED BY <2>1, <2>2, Zenon
<1>3. F = [i \in 0..N |-> IF i = 0 THEN [out |-> << >>, carry |-> {}] ELSE Selector(F[i - 1], Word(u, i), v.out[i], v.carry)]
  BY <1>2
<1>4. CondSubtractQ(u, N, all) = F[N].out
  BY DEF F, v, CondSubtractQ, Rippled
<1> HIDE DEF F
<1>5. IsSelected(F, u, v, N)
  <2>1. F = [i \in 0..N |-> F[i]] /\ F[0] = NoWords
    BY <1>3 DEF NoWords
  <2>2. ASSUME NEW i \in 1..N PROVE F[i] = Selector(F[i - 1], Word(u, i), v.out[i], v.carry)
    <3>1. i \in 0..N /\ i # 0
      OBVIOUS
    <3> QED BY <1>3, <3>1
  <2> QED BY <2>1, <2>2 DEF IsSelected
<1> QED BY <1>4, <1>5 DEF v

(* AddConst adds a constant; what does not fit goes into the carry.        *)
LEMMA ConstRight ==
    ASSUME NEW all, NEW a \in Words(all), NEW k \in Nat, NEW l \in all, NEW N \in 0..(Width + 3)
    PROVE  LET r == AddConst(a, k, N, all)
           IN /\ r.out \in Words(all) /\ Len(r.out) = N /\ r.carry \in SUBSET all
              /\ Value(r.out, l, N) + (IF l \in r.carry THEN 2^N ELSE 0)
                   = Value(a, l, N) + (k % 2^N)
<1>0. Width \in Nat /\ N \in Nat /\ \A i \in Exponents : 2^i \in Nat
  BY Powers
<1>1. PICK f : IsConstAdded(f, a, k, all, N) /\ AddConst(a, k, N, all) = f[N]
  BY <1>0, ConstFold
<1> DEFINE Typed(i) == f[i].out \in Seq(SUBSET all) /\ Len(f[i].out) = i /\ f[i].carry \in SUBSET all
           Sums(i) == Value(f[i].out, l, i) + (IF l \in f[i].carry THEN 2^i ELSE 0)
                        = Value(a, l, i) + (k % 2^i)
           S == {i \in Nat : Typed(i) /\ Sums(i)}
<1>2. 0 \in S
  <2>1. f[0] = NoWords
    BY <1>1 DEF IsConstAdded
  <2>2. f[0].out = << >> /\ f[0].carry = {}
    BY <2>1 DEF NoWords
  <2>3. Typed(0)
    BY <2>2
  <2>4. k % 2^0 = 0
    <3>1. k % 1 = 0
      BY Z3
    <3> QED BY <3>1, Powers
  <2>5. Sums(0)
    BY <2>2, <2>4, ValueNext
  <2> HIDE DEF Typed, Sums
  <2> QED BY <2>3, <2>5
<1>3. ASSUME NEW i \in 0..(N - 1), i \in S PROVE i + 1 \in S
  <2>1. /\ i \in Nat /\ i \in 0..(Width + 3) /\ i \in Exponents /\ i + 1 \in 1..N /\ (i + 1) - 1 = i
        /\ i + 1 \in 1..(Width + 4) /\ i + 1 \in Nat \ {0}
    BY <1>0 DEF Exponents
  <2> DEFINE x == Word(a, i + 1)
             y == BitAt(k, i + 1)
             c == f[i].carry
             o == f[i].out
             s == IF y THEN all \ (x ## c) ELSE x ## c
             d == IF y THEN x \cup c ELSE x \cap c
  <2>2. f[i + 1] = ConstAdder(f[i], x, y, all)
    BY <1>1, <2>1 DEF IsConstAdded
  <2>3. f[i + 1].out = Append(o, s) /\ f[i + 1].carry = d
    BY <2>2 DEF ConstAdder
  <2>4. o \in Seq(SUBSET all) /\ Len(o) = i /\ c \in SUBSET all /\ Sums(i)
    BY <1>3
  <2>5. x \in SUBSET all
    BY <2>1, WordIn
  <2>6. s \in SUBSET all /\ d \in SUBSET all
    BY <2>4, <2>5, InSymDiff
  <2>7. /\ l \in s <=> ~(l \in x <=> ~(y <=> l \in c))
        /\ l \in d <=> (l \in x /\ y) \/ ((l \in x \/ y) /\ l \in c)
        /\ y \in BOOLEAN
    <3>1. y \in BOOLEAN
      BY DEF BitAt
    <3>2. l \in (x ## c) <=> ~(l \in x <=> l \in c)
      BY InSymDiff
    <3>3. CASE y
      <4>1. s = all \ (x ## c) /\ d = x \cup c
        BY <3>3
      <4> HIDE DEF s, d, x, c, y, S
      <4> QED BY <3>1, <3>2, <3>3, <4>1
    <3>4. CASE ~y
      <4>1. s = x ## c /\ d = x \cap c
        BY <3>4
      <4> HIDE DEF s, d, x, c, y, S
      <4> QED BY <3>1, <3>2, <3>4, <4>1
    <3> QED BY <3>1, <3>3, <3>4
  <2>8. /\ Value(a, l, i + 1) = Value(a, l, i) + (IF l \in x THEN 2^i ELSE 0) /\ Value(a, l, i) \in Nat
        /\ k % 2^(i + 1) = (k % 2^i) + (IF y THEN 2^i ELSE 0) /\ k % 2^i \in Nat
    <3> HIDE DEF S
    <3>1. k % 2^(i + 1) = (k % 2^i) + (IF y THEN 2^i ELSE 0)
      BY <2>1, NextBit
    <3>2. k % 2^i \in Nat
      <4>1. 2^i \in Nat \ {0}
        BY <2>1, Powers
      <4> DEFINE P == 2^i
      <4> HIDE DEF P
      <4>2. P \in Nat \ {0} => k % P \in Nat
        BY Z3
      <4> QED BY <4>1, <4>2 DEF P
    <3> QED BY <2>1, <3>1, <3>2, ValueStep
  <2>9. /\ f[i + 1].out \in Seq(SUBSET all) /\ Len(f[i + 1].out) = i + 1
        /\ Value(f[i + 1].out, l, i + 1) = Value(o, l, i) + (IF l \in s THEN 2^i ELSE 0)
    <3> DEFINE V == SUBSET all
    <3>1. o \in Seq(V) /\ s \in V /\ Len(o) = i
      BY <2>4, <2>6
    <3> HIDE DEF V, o, s, S
    <3>2. Len(o) \in 0..(Width + 3)
      BY <2>1, <3>1
    <3>3. /\ Append(o, s) \in Seq(V) /\ Len(Append(o, s)) = Len(o) + 1
          /\ Value(Append(o, s), l, Len(o) + 1) = Value(o, l, Len(o)) + (IF l \in s THEN 2^Len(o) ELSE 0)
      BY <3>1, <3>2, ValueAppend
    <3>4. /\ f[i + 1].out \in Seq(V) /\ Len(f[i + 1].out) = i + 1
          /\ Value(f[i + 1].out, l, i + 1) = Value(o, l, i) + (IF l \in s THEN 2^i ELSE 0)
      BY <2>3, <3>1, <3>3
    <3> QED BY <3>4 DEF V
  <2>10. Value(o, l, i) + (IF l \in c THEN 2^i ELSE 0) = Value(a, l, i) + (k % 2^i)
    BY <2>4
  <2> HIDE DEF S
  <2> HIDE DEF x, y, c, o, s, d
  <2>11. Typed(i + 1)
    BY <2>3, <2>6, <2>9
  <2>12. Sums(i + 1)
    <3>1. 2^(i + 1) = 2 * 2^i /\ 2^i \in Nat
      BY <1>0, <2>1, Powers
    <3>2. Value(o, l, i) \in Nat
      BY <2>1, ValueBound
    <3> DEFINE X == l \in x
               C == l \in c
               G == l \in s
               D == l \in d
               p == 2^i
               va == Value(a, l, i)
               vb == k % 2^i
               vo == Value(o, l, i)
    <3>3. X \in BOOLEAN /\ C \in BOOLEAN /\ G \in BOOLEAN /\ D \in BOOLEAN
      OBVIOUS
    <3>4. y \in BOOLEAN /\ (G <=> ~(X <=> ~(y <=> C))) /\ (D <=> (X /\ y) \/ ((X \/ y) /\ C))
      BY <2>7
    <3>5. p \in Nat /\ va \in Nat /\ vb \in Nat /\ vo \in Nat
      BY <2>8, <3>1, <3>2
    <3>6. vo + (IF C THEN p ELSE 0) = va + vb
      BY <2>10
    <3>7. vo + (IF G THEN p ELSE 0) + (IF D THEN 2 * p ELSE 0)
            = va + (IF X THEN p ELSE 0) + (vb + (IF y THEN p ELSE 0))
      <4> HIDE DEF X, C, G, D, p, va, vb, vo
      <4> QED BY <3>3, <3>4, <3>5, <3>6, FullAdder
    <3>8. Value(f[i + 1].out, l, i + 1) + (IF l \in d THEN 2^(i + 1) ELSE 0)
            = Value(a, l, i + 1) + (k % 2^(i + 1))
      <4>1. /\ Value(a, l, i + 1) = va + (IF X THEN p ELSE 0) /\ k % 2^(i + 1) = vb + (IF y THEN p ELSE 0)
            /\ Value(f[i + 1].out, l, i + 1) = vo + (IF G THEN p ELSE 0)
        BY <2>8, <2>9
      <4> DEFINE e == 2^(i + 1)
      <4>2. e = 2 * p /\ (l \in d <=> D)
        BY <3>1
      <4> HIDE DEF X, C, G, D, p, va, vb, vo, e
      <4>3. vo + (IF G THEN p ELSE 0) + (IF D THEN e ELSE 0)
              = va + (IF X THEN p ELSE 0) + (vb + (IF y THEN p ELSE 0))
        BY <3>7, <4>2
      <4> QED BY <4>1, <4>2, <4>3 DEF e
    <3> QED BY <2>3, <3>8
  <2> HIDE DEF Typed, Sums
  <2> QED BY <2>1, <2>11, <2>12 DEF S
<1> HIDE DEF S
<1>4. N \in S
  <2>1. \A i \in 0..N : i \in S
    BY <1>0, <1>2, <1>3, UpTo
  <2>2. N \in 0..N
    BY <1>0
  <2> QED BY <2>1, <2>2
<1>5. Typed(N) /\ Sums(N)
  BY <1>4 DEF S
<1> QED BY <1>1, <1>5 DEF Words

(* What was selected: the difference where there was a carry.              *)
LEMMA SelectRight ==
    ASSUME NEW all, NEW u \in Words(all), NEW v, NEW N \in Nat, NEW f, IsSelected(f, u, v, N),
           v.out \in Words(all), Len(v.out) = N, v.carry \in SUBSET all
    PROVE  /\ f[N].out \in Words(all) /\ Len(f[N].out) = N
           /\ \A i \in 1..N : \A l \in all : l \in f[N].out[i] <=> IF l \in v.carry THEN l \in v.out[i] ELSE l \in Word(u, i)
<1> DEFINE c == v.carry
           Pick(i) == Word(u, i) ## (c \cap (Word(u, i) ## v.out[i]))
           Chosen(i, w) == \A l \in all : l \in w <=> IF l \in c THEN l \in v.out[i] ELSE l \in Word(u, i)
           Fine(i) == /\ f[i].out \in Words(all) /\ Len(f[i].out) = i
                      /\ \A j \in 1..i : Chosen(j, f[i].out[j])
           S == {i \in Nat : Fine(i)}
<1>1. 0 \in S
  <2>1. f[0] = [out |-> << >>, carry |-> {}]
    BY DEF IsSelected, NoWords
  <2>2. f[0].out = << >>
    BY <2>1
  <2>3. Fine(0)
    BY <2>2 DEF Words
  <2> HIDE DEF Fine
  <2> QED BY <2>3
<1>2. ASSUME NEW i \in 1..N PROVE Pick(i) \in SUBSET all /\ Chosen(i, Pick(i))
  <2> DEFINE x == Word(u, i)
             y == v.out[i]
  <2>1. x \in SUBSET all /\ y \in SUBSET all /\ c \in SUBSET all
    BY WordIn DEF Words
  <2> HIDE DEF x, y, c
  <2>2. \A l : l \in (x ## (c \cap (x ## y))) <=> IF l \in c THEN l \in y ELSE l \in x
    <3>1. \A l : l \in (x ## y) <=> ((l \in x /\ l \notin y) \/ (l \notin x /\ l \in y))
      BY InSymDiff
    <3> DEFINE z == c \cap (x ## y)
    <3>2. \A l : l \in (x ## z) <=> ((l \in x /\ l \notin z) \/ (l \notin x /\ l \in z))
      BY InSymDiff
    <3>3. \A l : l \in z <=> l \in c /\ l \in (x ## y)
      OBVIOUS
    <3> HIDE DEF z
    <3>4. \A l : l \in (x ## z) <=> IF l \in c THEN l \in y ELSE l \in x
      BY <3>1, <3>2, <3>3
    <3> QED BY <3>4 DEF z
  <2>3. (x ## (c \cap (x ## y))) \in SUBSET all
    BY <2>1, <2>2
  <2> QED BY <2>2, <2>3 DEF x, y
<1>3. ASSUME NEW i \in 0..(N - 1), i \in S PROVE i + 1 \in S
  <2>1. i \in Nat /\ i + 1 \in 1..N /\ (i + 1) - 1 = i /\ i + 1 \in Nat
    OBVIOUS
  <2>2. f[i + 1] = [out |-> Append(f[i].out, Pick(i + 1)), carry |-> f[i].carry]
    BY <2>1 DEF IsSelected, Selector
  <2> DEFINE o == f[i].out
             w == Pick(i + 1)
             V == SUBSET all
  <2>3. o \in Seq(V) /\ Len(o) = i /\ \A j \in 1..i : Chosen(j, o[j])
    BY <1>3 DEF Words
  <2>4. w \in V /\ Chosen(i + 1, w)
    BY <1>2, <2>1
  <2>5. f[i + 1].out = Append(o, w)
    BY <2>2
  <2> HIDE DEF o, w, V, S, Chosen, Pick
  <2>6. Append(o, w) \in Seq(V) /\ Len(Append(o, w)) = i + 1 /\ Append(o, w)[i + 1] = w
        /\ \A j \in 1..i : Append(o, w)[j] = o[j]
    BY <2>1, <2>3, <2>4
  <2>7. \A j \in 1..(i + 1) : Chosen(j, Append(o, w)[j])
    <3>1. \A j \in 1..(i + 1) : j \in 1..i \/ j = i + 1
      BY <2>1
    <3> QED BY <2>3, <2>4, <2>6, <3>1
  <2>9. Fine(i + 1)
    BY <2>5, <2>6, <2>7 DEF V, Words
  <2> HIDE DEF Fine
  <2> QED BY <2>1, <2>9 DEF S
<1> HIDE DEF S
<1>4. \A i \in 0..N : i \in S
  BY <1>1, <1>3, UpTo
<1>5. Fine(N)
  BY <1>4 DEF S
<1> QED BY <1>5

(* One conditional subtraction, at a width that holds more than Q.         *)
LEMMA CondSubtractRight ==
    ASSUME NEW all, NEW u \in Words(all), NEW l \in all, NEW N \in 0..(Width + 3), Q < 2^N
    PROVE  LET r == CondSubtractQ(u, N, all)
           IN /\ r \in Words(all) /\ Len(r) = N
              /\ Value(r, l, N) = IF Value(u, l, N) >= Q THEN Value(u, l, N) - Q ELSE Value(u, l, N)
<1> DEFINE M == 2^N
           v == AddConst(u, M - Q, N, all)
           w == Value(u, l, N)
           x == Value(v.out, l, N)
           r == CondSubtractQ(u, N, all)
<1>1. N \in Exponents /\ N \in Nat /\ M \in Nat /\ Q \in Nat \ {0} /\ M - Q \in Nat /\ M - Q \in 0..(M - 1) /\ M \in Nat \ {0}
  BY Powers, QMaskSizes DEF Exponents
<1>2. w \in Nat /\ w < M /\ x \in Nat /\ x < M
  BY <1>1, ValueBound
<1>3. /\ v.out \in Words(all) /\ Len(v.out) = N /\ v.carry \in SUBSET all
      /\ x + (IF l \in v.carry THEN M ELSE 0) = w + ((M - Q) % M)
  <2> DEFINE k == M - Q
  <2>1. k \in Nat
    BY <1>1
  <2> DEFINE y == AddConst(u, k, N, all)
  <2>2. y.out \in Words(all) /\ Len(y.out) = N /\ y.carry \in SUBSET all
        /\ Value(y.out, l, N) + (IF l \in y.carry THEN 2^N ELSE 0) = Value(u, l, N) + (k % 2^N)
    <3> HIDE DEF k, v, M, w, x, r
    <3> QED BY <2>1, ConstRight
  <2> HIDE DEF y
  <2>3. y = v
    BY DEF y
  <2> QED BY <2>2, <2>3
<1>4. (M - Q) % M = M - Q
  <2> HIDE DEF M
  <2> DEFINE k == M - Q
  <2>1. k \in 0..(M - 1) /\ k \in Int /\ k = k + 0 * M /\ 0 \in Int /\ M \in Nat \ {0}
    BY <1>1
  <2> HIDE DEF k
  <2>2. k % M = k
    BY <2>1, RemainderIs
  <2> QED BY <2>2 DEF k
<1>5. PICK f : IsSelected(f, u, v, N) /\ r = f[N].out
  BY <1>1, SelectFold
<1> HIDE DEF v, M, r
<1>6. /\ r \in Words(all) /\ Len(r) = N
      /\ \A i \in 1..N : l \in r[i] <=> IF l \in v.carry THEN l \in v.out[i] ELSE l \in Word(u, i)
  <2>1. IsSelected(f, u, v, N) /\ v.out \in Words(all) /\ Len(v.out) = N /\ v.carry \in SUBSET all /\ N \in Nat
    BY <1>1, <1>3, <1>5
  <2>2. /\ f[N].out \in Words(all) /\ Len(f[N].out) = N
        /\ \A i \in 1..N : \A m \in all : m \in f[N].out[i] <=> IF m \in v.carry THEN m \in v.out[i] ELSE m \in Word(u, i)
    BY <2>1, SelectRight
  <2> QED BY <1>5, <2>2
<1>7. \A i \in 1..N : Word(r, i) = r[i] /\ Word(v.out, i) = v.out[i]
  BY <1>1, <1>3, <1>6 DEF Word
<1>8. Value(r, l, N) = IF l \in v.carry THEN x ELSE w
  <2>1. CASE l \in v.carry
    <3>1. \A i \in 1..N : l \in Word(r, i) <=> l \in Word(v.out, i)
      BY <1>6, <1>7, <2>1
    <3> QED BY <2>1, <3>1, ValueSame
  <2>2. CASE l \notin v.carry
    <3>1. \A i \in 1..N : l \in Word(r, i) <=> l \in Word(u, i)
      BY <1>6, <1>7, <2>2
    <3> QED BY <2>2, <3>1, ValueSame
  <2> QED BY <2>1, <2>2
<1> HIDE DEF w, x
<1>9. IF l \in v.carry THEN w >= Q /\ x = w - Q ELSE ~(w >= Q)
  BY <1>1, <1>2, <1>3, <1>4
<1>10. Value(r, l, N) = IF w >= Q THEN w - Q ELSE w
  BY <1>8, <1>9
<1> QED BY <1>6, <1>10 DEF r, w

(* The repeated subtraction.                                               *)
IsReduced(f, sum, all, n) ==
    /\ f = [i \in 0..n |-> f[i]] /\ f[0] = sum
    /\ \A i \in 1..n : f[i] = CondSubtractQ(f[i - 1], Width + 3, all)

(* There is such a sequence of subtractions.                               *)
LEMMA ReducedExists ==
    ASSUME NEW sum, NEW all, NEW N \in Nat
    PROVE  \E f : IsReduced(f, sum, all, N)
<1> DEFINE S == {k \in Nat : \E f : IsReduced(f, sum, all, k)}
<1>1. 0 \in S
  <2> DEFINE f == [i \in 0..0 |-> sum]
  <2>1. IsReduced(f, sum, all, 0)
    BY DEF IsReduced
  <2> QED BY <2>1
<1>2. ASSUME NEW k \in 0..(N - 1), k \in S PROVE k + 1 \in S
  <2>1. PICK f : IsReduced(f, sum, all, k)
    BY <1>2
  <2> DEFINE g == [i \in 0..(k + 1) |-> IF i = k + 1 THEN CondSubtractQ(f[k], Width + 3, all) ELSE f[i]]
  <2>2. k \in Nat /\ k + 1 \in Nat /\ 0 \in 0..k /\ 0 # k + 1 /\ (k + 1) - 1 = k /\ k \in 0..(k + 1) /\ k # k + 1
    OBVIOUS
  <2>3. g = [i \in 0..(k + 1) |-> g[i]] /\ g[0] = sum
    BY <2>1, <2>2 DEF IsReduced
  <2>4. ASSUME NEW i \in 1..k PROVE g[i] = CondSubtractQ(g[i - 1], Width + 3, all)
    <3>1. i \in 0..(k + 1) /\ i - 1 \in 0..(k + 1) /\ i # k + 1 /\ i - 1 # k + 1
      BY <2>2
    <3>2. g[i] = f[i] /\ g[i - 1] = f[i - 1]
      BY <3>1
    <3> QED BY <2>1, <3>2 DEF IsReduced
  <2>5. g[k + 1] = CondSubtractQ(g[k], Width + 3, all)
    BY <2>2
  <2> HIDE DEF g
  <2>6. \A i \in 1..(k + 1) : i \in 1..k \/ i = k + 1
    BY <2>2
  <2>7. \A i \in 1..(k + 1) : g[i] = CondSubtractQ(g[i - 1], Width + 3, all)
    BY <2>2, <2>4, <2>5, <2>6
  <2>8. IsReduced(g, sum, all, k + 1)
    BY <2>3, <2>7 DEF IsReduced
  <2> QED BY <2>2, <2>8
<1> HIDE DEF S
<1>3. \A k \in 0..N : k \in S
  BY <1>1, <1>2, UpTo
<1>4. N \in 0..N
  OBVIOUS
<1> QED BY <1>3, <1>4 DEF S

Summed(s, s0, s1, s2) == Add(Add(Add(s, s0, Width + 1), s1, Width + 2), s2, Width + 3)

(* MaskedSum takes the low words of the last one.                          *)
LEMMA ReducedFold ==
    ASSUME NEW s, NEW s0, NEW s1, NEW s2, NEW all
    PROVE  \E f : /\ IsReduced(f, Summed(s, s0, s1, s2), all, Subtractions)
                  /\ MaskedSum(s, s0, s1, s2, all) = SubSeq(f[Subtractions], 1, Width)
<1> DEFINE N == Subtractions
           sum == Summed(s, s0, s1, s2)
           F == CHOOSE f : f = [n \in 0..N |-> IF n = 0 THEN sum ELSE CondSubtractQ(f[n - 1], Width + 3, all)]
<1>0. N \in Nat
  BY DEF Subtractions
<1> HIDE DEF N, sum
<1>1. PICK g : IsReduced(g, sum, all, N)
  BY <1>0, ReducedExists
<1>2. g = [i \in 0..N |-> IF i = 0 THEN sum ELSE CondSubtractQ(g[i - 1], Width + 3, all)]
  <2>1. ASSUME NEW i \in 0..N PROVE g[i] = IF i = 0 THEN sum ELSE CondSubtractQ(g[i - 1], Width + 3, all)
    <3>1. i = 0 \/ i \in 1..N
      BY <1>0
    <3> QED BY <1>1, <3>1 DEF IsReduced
  <2>2. g = [i \in 0..N |-> g[i]]
    BY <1>1 DEF IsReduced
  <2> QED BY <2>1, <2>2, Zenon
<1>3. F = [i \in 0..N |-> IF i = 0 THEN sum ELSE CondSubtractQ(F[i - 1], Width + 3, all)]
  BY <1>2
<1>4. MaskedSum(s, s0, s1, s2, all) = SubSeq(F[Subtractions], 1, Width)
  BY DEF F, N, sum, MaskedSum, Summed
<1> HIDE DEF F
<1>5. IsReduced(F, sum, all, N)
  <2>1. F = [i \in 0..N |-> F[i]] /\ F[0] = sum
    BY <1>0, <1>3
  <2>2. ASSUME NEW i \in 1..N PROVE F[i] = CondSubtractQ(F[i - 1], Width + 3, all)
    <3>1. i \in 0..N /\ i # 0
      BY <1>0
    <3> QED BY <1>3, <3>1
  <2> QED BY <2>1, <2>2 DEF IsReduced
<1> QED BY <1>4, <1>5 DEF N, sum

(* Words that are not there are zero.                                      *)
LEMMA ValueLong ==
    ASSUME NEW U, NEW s \in Words(U), NEW l, NEW N \in Width..(Width + 4), Len(s) = Width
    PROVE  Value(s, l, N) = Value(s, l, Width)
<1>1. Width \in Nat /\ Width \in Exponents
  BY Powers DEF Exponents
<1>2. \A i \in (Width + 1)..N : l \notin Word(s, i)
  BY <1>1 DEF Word
<1> QED BY <1>1, <1>2, ValueBeyond

(* Four numbers are added without overflow.                                *)
LEMMA SummedRight ==
    ASSUME NEW all, NEW l, NEW s \in Words(all), NEW s0 \in Words(all), NEW s1 \in Words(all),
           NEW s2 \in Words(all),
           Len(s) = Width, Len(s0) = Width, Len(s1) = Width, Len(s2) = Width
    PROVE  LET t == Summed(s, s0, s1, s2)
               n == Value(s, l, Width) + Value(s0, l, Width) + Value(s1, l, Width) + Value(s2, l, Width)
           IN /\ t \in Words(all) /\ Value(t, l, Width + 3) = n
              /\ n \in Nat /\ n < 5 * Q
<1> DEFINE a == Value(s, l, Width)
           b == Value(s0, l, Width)
           c == Value(s1, l, Width)
           d == Value(s2, l, Width)
           t1 == Add(s, s0, Width + 1)
           t2 == Add(t1, s1, Width + 2)
           t3 == Add(t2, s2, Width + 3)
<1>1. /\ Width \in Nat /\ Width + 1 \in 0..(Width + 3) /\ Width + 2 \in 0..(Width + 3) /\ Width + 3 \in 0..(Width + 3)
      /\ (Width + 1) + 1 = Width + 2 /\ (Width + 2) + 1 = Width + 3 /\ (Width + 3) + 1 = Width + 4
      /\ Width + 1 \in Width..(Width + 4) /\ Width + 2 \in Width..(Width + 4) /\ Width + 3 \in Width..(Width + 4)
      /\ Width \in Exponents /\ Width + 3 \in Exponents /\ Width + 4 \in (Width + 3)..(Width + 4)
  BY Powers DEF Exponents
<1>2. t1 \in Words(all) /\ Value(t1, l, Width + 2) = a + b
  <2>1. /\ t1 \in Words(all)
        /\ Value(t1, l, (Width + 1) + 1) = Value(s, l, Width + 1) + Value(s0, l, Width + 1)
    BY <1>1, AddRight
  <2>2. Value(s, l, Width + 1) = a /\ Value(s0, l, Width + 1) = b
    BY <1>1, ValueLong
  <2> QED BY <1>1, <2>1, <2>2
<1> HIDE DEF t1
<1>3. t2 \in Words(all) /\ Value(t2, l, Width + 3) = (a + b) + c
  <2>1. /\ t2 \in Words(all)
        /\ Value(t2, l, (Width + 2) + 1) = Value(t1, l, Width + 2) + Value(s1, l, Width + 2)
    BY <1>1, <1>2, AddRight
  <2>2. Value(s1, l, Width + 2) = c
    BY <1>1, ValueLong
  <2> QED BY <1>1, <1>2, <2>1, <2>2
<1> HIDE DEF t2
<1>4. t3 \in Words(all) /\ Value(t3, l, Width + 4) = ((a + b) + c) + d
  <2>1. /\ t3 \in Words(all)
        /\ Value(t3, l, (Width + 3) + 1) = Value(t2, l, Width + 3) + Value(s2, l, Width + 3)
    BY <1>1, <1>3, AddRight
  <2>2. Value(s2, l, Width + 3) = d
    BY <1>1, ValueLong
  <2> QED BY <1>1, <1>3, <2>1, <2>2
<1>5. t3 = Summed(s, s0, s1, s2)
  BY DEF t1, t2, Summed
<1> HIDE DEF t3
<1>6. a \in 0..(2^Width - 1) /\ b \in 0..(2^Width - 1) /\ c \in 0..(2^Width - 1) /\ d \in 0..(2^Width - 1) /\ 2^Width \in Nat
  <2>1. 2^Width \in Nat
    BY <1>1, Powers
  <2> QED BY <1>1, <2>1, ValueBound
<1>7. 2^(Width + 3) = 8 * 2^Width
  <2>1. /\ Width + 1 \in 1..(Width + 4) /\ Width + 2 \in 1..(Width + 4) /\ Width + 3 \in 1..(Width + 4)
        /\ (Width + 1) - 1 = Width /\ (Width + 2) - 1 = Width + 1 /\ (Width + 3) - 1 = Width + 2
    BY <1>1
  <2>2. 2^(Width + 1) = 2 * 2^Width /\ 2^(Width + 2) = 2 * 2^(Width + 1) /\ 2^(Width + 3) = 2 * 2^(Width + 2)
    BY <2>1, Powers
  <2> DEFINE p == 2^Width
             p1 == 2^(Width + 1)
             p2 == 2^(Width + 2)
             p3 == 2^(Width + 3)
  <2>3. p \in Nat /\ p1 = 2 * p /\ p2 = 2 * p1 /\ p3 = 2 * p2
    BY <1>6, <2>2
  <2> HIDE DEF p, p1, p2, p3
  <2>4. p3 = 8 * p
    BY <2>3
  <2> QED BY <2>4 DEF p, p3
<1>8. 4 * (2^Width - 1) < 5 * Q /\ Q \in Nat
  BY QMaskSizes
<1> HIDE DEF a, b, c, d
<1>9. ((a + b) + c) + d \in Nat /\ ((a + b) + c) + d < 5 * Q /\ ((a + b) + c) + d < 2^(Width + 3)
  <2> DEFINE M == 2^Width
             M3 == 2^(Width + 3)
  <2>1. M3 = 8 * M /\ M \in Nat /\ 4 * (M - 1) < 5 * Q
    BY <1>6, <1>7, <1>8
  <2>2. a \in 0..(M - 1) /\ b \in 0..(M - 1) /\ c \in 0..(M - 1) /\ d \in 0..(M - 1)
    BY <1>6
  <2> HIDE DEF M, M3
  <2>3. ((a + b) + c) + d \in Nat /\ ((a + b) + c) + d < 5 * Q /\ ((a + b) + c) + d < M3
    BY <1>8, <2>1, <2>2
  <2> QED BY <2>3 DEF M3
<1>10. Value(t3, l, Width + 4) = Value(t3, l, Width + 3)
  BY <1>1, <1>4, <1>9, ValueSmall
<1> QED BY <1>4, <1>5, <1>9, <1>10 DEF a, b, c, d

(* Four subtractions bring the sum below the order, whatever it was.       *)
LEMMA ReducedRight ==
    ASSUME NEW all, NEW l \in all, NEW t \in Words(all), NEW f, IsReduced(f, t, all, Subtractions),
           Value(t, l, Width + 3) < 5 * Q
    PROVE  LET r == f[Subtractions]
           IN /\ r \in Words(all) /\ Len(r) = Width + 3
              /\ Value(r, l, Width + 3) = Value(t, l, Width + 3) % Q
<1> DEFINE N == Width + 3
           w == Value(t, l, N)
           v(n) == Value(f[n], l, N)
           Fine(n) == /\ f[n] \in Words(all) /\ (n # 0 => Len(f[n]) = N)
                      /\ v(n) \in Nat /\ v(n) < (5 - n) * Q
                      /\ \E j \in Nat : w = v(n) + j * Q
<1>1. N \in 0..(Width + 3) /\ N \in Exponents /\ Q \in Nat \ {0} /\ Q < 2^N
  <2>1. Width \in Exponents /\ Width + 3 \in Exponents /\ Width < Width + 3 /\ Width \in Nat
    BY Powers DEF Exponents
  <2>2. 2^Width < 2^(Width + 3) /\ 2^Width \in Nat /\ 2^(Width + 3) \in Nat
    BY <2>1, PowersGrow, Powers
  <2> QED BY <2>1, <2>2, QMaskSizes
<1> HIDE DEF N
<1>2. Fine(0)
  <2>1. f[0] = t /\ w \in Nat /\ v(0) = w
    BY <1>1, ValueBound DEF IsReduced
  <2>2. w < 5 * Q
    BY DEF N
  <2> HIDE DEF w
  <2>3. w = w + 0 * Q /\ 5 - 0 = 5
    BY <1>1, <2>1
  <2> QED BY <2>1, <2>2, <2>3
<1>3. ASSUME NEW n \in 0..3, Fine(n) PROVE Fine(n + 1)
  <2>0. n + 1 \in 1..Subtractions /\ (n + 1) - 1 = n /\ n + 1 # 0
    BY DEF Subtractions
  <2>1. f[n + 1] = CondSubtractQ(f[n], N, all)
    BY <2>0 DEF IsReduced, N
  <2>2. /\ f[n + 1] \in Words(all) /\ Len(f[n + 1]) = N
        /\ v(n + 1) = IF v(n) >= Q THEN v(n) - Q ELSE v(n)
    BY <1>1, <1>3, <2>1, CondSubtractRight
  <2>3. v(n) \in Nat /\ v(n) < (5 - n) * Q
    BY <1>3
  <2>4. PICK j \in Nat : w = v(n) + j * Q
    BY <1>3
  <2>5. v(n + 1) \in Nat /\ v(n + 1) < (5 - (n + 1)) * Q
    <3> DEFINE x == v(n)
               y == v(n + 1)
    <3>1. x \in Nat /\ x < (5 - n) * Q /\ y = IF x >= Q THEN x - Q ELSE x
      BY <2>2, <2>3
    <3> HIDE DEF x, y, v
    <3>2. y \in Nat
      BY <1>1, <3>1
    <3> DEFINE m == 5 - n
    <3>3. m \in 2..5 /\ 5 - (n + 1) = m - 1 /\ x < m * Q
      BY <3>1
    <3> HIDE DEF m
    <3>4. (m - 1) * Q = m * Q - Q /\ m * Q \in Int /\ m * Q >= 2 * Q
      BY <1>1, <3>3, Z3
    <3>5. y < (m - 1) * Q
      BY <1>1, <3>1, <3>3, <3>4
    <3> QED BY <3>2, <3>3, <3>5 DEF y
  <2>6. \E k \in Nat : w = v(n + 1) + k * Q
    <3> DEFINE x == v(n)
               y == v(n + 1)
    <3>1. x \in Nat /\ y = (IF x >= Q THEN x - Q ELSE x) /\ w = x + j * Q
      BY <2>2, <2>3, <2>4
    <3> HIDE DEF x, y, v, w
    <3>2. CASE x >= Q
      <4>1. w = y + (j + 1) * Q /\ j + 1 \in Nat
        BY <1>1, <3>1, <3>2, Z3
      <4> QED BY <4>1 DEF y
    <3>3. CASE ~(x >= Q)
      BY <3>1, <3>3 DEF y
    <3> QED BY <3>2, <3>3
  <2> QED BY <2>0, <2>2, <2>5, <2>6
<1> HIDE DEF Fine
<1>4. Fine(4)
  <2>1. Fine(0 + 1)
    BY <1>2, <1>3
  <2>2. Fine(1 + 1)
    <3>1. Fine(1) /\ 1 \in 0..3
      BY <2>1
    <3> QED BY <1>3, <3>1
  <2>3. Fine(2 + 1)
    <3>1. Fine(2) /\ 2 \in 0..3
      BY <2>2
    <3> QED BY <1>3, <3>1
  <2>4. Fine(3 + 1)
    <3>1. Fine(3) /\ 3 \in 0..3
      BY <2>3
    <3> QED BY <1>3, <3>1
  <2> QED BY <2>4
<1>5. f[4] \in Words(all) /\ Len(f[4]) = N /\ v(4) \in Nat /\ v(4) < (5 - 4) * Q /\ \E j \in Nat : w = v(4) + j * Q
  BY <1>4 DEF Fine
<1>6. PICK j \in Nat : w = v(4) + j * Q
  BY <1>5
<1>7. v(4) = w % Q
  <2> DEFINE x == v(4)
  <2>1. x \in 0..(Q - 1) /\ w = x + j * Q
    <3>1. (5 - 4) * Q = Q
      BY <1>1
    <3> QED BY <1>1, <1>5, <1>6, <3>1
  <2>2. w \in Int /\ j \in Int
    <3>1. w \in Nat
      BY <1>1, ValueBound
    <3> QED BY <3>1
  <2> HIDE DEF x, w, v
  <2>3. w % Q = x
    BY <1>1, <2>1, <2>2, RemainderIs
  <2> QED BY <2>3 DEF x
<1> QED BY <1>5, <1>7 DEF N, Subtractions

(* The circuit masks a leaf right, lane by lane.                           *)
LEMMA MaskedSumRight ==
    ASSUME NEW all, NEW l \in all, NEW s \in Words(all), NEW s0 \in Words(all), NEW s1 \in Words(all),
           NEW s2 \in Words(all),
           Len(s) = Width, Len(s0) = Width, Len(s1) = Width, Len(s2) = Width
    PROVE  NumberIn(MaskedSum(s, s0, s1, s2, all), l)
             = (Value(s, l, Width) + Value(s0, l, Width) + Value(s1, l, Width) + Value(s2, l, Width)) % Q
<1> DEFINE t == Summed(s, s0, s1, s2)
           n == Value(s, l, Width) + Value(s0, l, Width) + Value(s1, l, Width) + Value(s2, l, Width)
           m == MaskedSum(s, s0, s1, s2, all)
<1>1. t \in Words(all) /\ Value(t, l, Width + 3) = n /\ n \in Nat /\ n < 5 * Q
  BY SummedRight
<1>2. PICK f : IsReduced(f, t, all, Subtractions) /\ m = SubSeq(f[Subtractions], 1, Width)
  BY ReducedFold
<1> DEFINE r == f[Subtractions]
<1> HIDE DEF t, n, m
<1>3. r \in Words(all) /\ Len(r) = Width + 3 /\ Value(r, l, Width + 3) = n % Q
  BY <1>1, <1>2, ReducedRight
<1>4. m = SubSeq(r, 1, Width)
  BY <1>2
<1> HIDE DEF r
<1>5. Width \in Nat /\ Width \in Exponents /\ Width + 3 \in Width..(Width + 4) /\ Q \in Nat \ {0} /\ Q < 2^Width /\ 2^Width \in Nat
  BY QMaskSizes, Powers DEF Exponents
<1>6. Value(r, l, Width + 3) < 2^Width
  <2>1. n % Q \in Nat /\ n % Q < Q
    BY <1>1, <1>5, Z3
  <2> QED BY <1>3, <1>5, <2>1
<1>7. Value(r, l, Width + 3) = Value(r, l, Width)
  BY <1>5, <1>6, ValueSmall
<1>8. Len(m) = Width /\ DOMAIN m = 1..Width /\ \A i \in 1..Width : m[i] = r[i]
  BY <1>3, <1>4, <1>5 DEF Words
<1>9. \A i \in 1..Width : Word(m, i) = r[i] /\ Word(r, i) = r[i]
  BY <1>3, <1>5, <1>8 DEF Word
<1>10. Value(m, l, Width) = Value(r, l, Width)
  BY <1>9, ValueSame
<1>11. NumberIn(m, l) = Value(m, l, Width)
  <2>1. {b \in DOMAIN m : l \in m[b]} = Ones(m, l, Width)
    BY <1>8, <1>9 DEF Ones
  <2> QED BY <2>1 DEF NumberIn, Value
<1> QED BY <1>3, <1>7, <1>10, <1>11 DEF n, m

-----------------------------------------------------------------------------
(* The words of a block of numbers, bit i of lane l in word i.             *)
WordsOf(g) == [i \in 1..Width |-> {l \in Lanes : BitAt(g[l], i)}]

(* They have the numbers' values.                                          *)
LEMMA WordsOfRight ==
    ASSUME NEW g \in [Lanes -> Numbers]
    PROVE  /\ WordsOf(g) \in Words(Lanes) /\ Len(WordsOf(g)) = Width
           /\ \A l \in Lanes : Value(WordsOf(g), l, Width) = g[l]
<1> DEFINE w == WordsOf(g)
<1>1. Width \in Nat /\ Width \in Exponents /\ 2^Width \in Nat \ {0}
  BY Powers DEF Exponents
<1>2. w = [i \in 1..Width |-> {l \in Lanes : BitAt(g[l], i)}]
  BY DEF WordsOf
<1>3. w \in Seq(SUBSET Lanes) /\ Len(w) = Width
  BY <1>1, <1>2
<1>4. \A i \in 1..Width : w[i] = {l \in Lanes : BitAt(g[l], i)}
  BY <1>2
<1> HIDE DEF w
<1>5. ASSUME NEW l \in Lanes PROVE Value(w, l, Width) = g[l]
  <2>1. g[l] \in 0..(2^Width - 1) /\ g[l] \in Nat
    BY <1>1 DEF Numbers
  <2>2. \A i \in 1..Width : l \in Word(w, i) <=> BitAt(g[l], i)
    BY <1>1, <1>3, <1>4 DEF Word
  <2>3. Value(w, l, Width) = g[l] % 2^Width
    <3>1. Width \in 0..Width
      BY <1>1
    <3> QED BY <1>1, <2>1, <2>2, <3>1, ValueIs
  <2>4. g[l] % 2^Width = g[l]
    <3> DEFINE n == g[l]
               P == 2^Width
    <3>1. n \in 0..(P - 1) /\ n \in Int /\ P \in Nat \ {0} /\ 0 \in Int /\ n = n + 0 * P
      BY <1>1, <2>1
    <3> HIDE DEF n, P
    <3>2. n % P = n
      BY <3>1, RemainderIs
    <3> QED BY <3>2 DEF n, P
  <2> QED BY <2>3, <2>4
<1> QED BY <1>3, <1>5 DEF w, Words

(* The entry of a leaf that its bit i comes from has bit i of the leaf.    *)
LEMMA EntryRight ==
    ASSUME NEW j \in 0..(Width - 1), NEW n
    PROVE  EntryOfBit(j) \in Entries /\ (InEntry(n, EntryOfBit(j)) <=> BitAt(n, j + 1))
<1> DEFINE B == ByteBits
           K == Bytes
           q == j \div B
           r == j % B
           h == K - 1 - q
           m == B * h + r
<1>1. B \in Nat \ {0} /\ B * K = Width /\ Width \in Nat \ {0} /\ j \in Nat /\ j < Width
  BY ConvertSizes, QMaskSizes
<1>2. K \in Nat
  BY <1>1, Z3 DEF Bytes
<1> HIDE DEF B, K
<1>3. q \in Int /\ r \in Int /\ j = B * q + r /\ 0 <= r /\ r < B
  BY <1>1, Z3
<1> HIDE DEF q, r
<1>4. q >= 0 /\ q <= K - 1
  <2>1. ASSUME q <= -1 PROVE FALSE
    <3>1. B * q <= -B
      BY <1>1, <1>3, <2>1, Z3
    <3> QED BY <1>1, <1>3, <3>1
  <2>2. ASSUME q >= K PROVE FALSE
    <3>1. B * q >= B * K
      BY <1>1, <1>2, <1>3, <2>2, Z3
    <3> QED BY <1>1, <1>3, <3>1
  <2> QED BY <1>2, <1>3, <2>1, <2>2
<1>5. h \in Nat /\ h <= K - 1 /\ K - 1 - h = q
  BY <1>2, <1>3, <1>4
<1> HIDE DEF h
<1>6. m \in Nat /\ m < B * K
  <2>1. B * h \in Nat /\ B * h <= B * (K - 1) /\ B * (K - 1) = B * K - B
    BY <1>1, <1>2, <1>5, Z3
  <2> QED BY <1>1, <1>2, <1>3, <2>1
<1>7. m % B = r
  <2> DEFINE x == m
  <2>1. x \in Int /\ r \in 0..(B - 1) /\ x = r + h * B /\ h \in Int
    BY <1>1, <1>3, <1>5, <1>6, Z3
  <2> HIDE DEF x
  <2>2. x % B = r
    BY <1>1, <2>1, RemainderIs
  <2> QED BY <2>2 DEF x
<1>8. m \div B = h
  <2> DEFINE x == m
             d == x \div B
  <2>1. x = B * h + r /\ x \in Nat
    BY <1>6
  <2>2. x % B = r
    BY <1>7
  <2> HIDE DEF x
  <2>3. d \in Int /\ x = B * d + (x % B)
    <3>1. x \in Nat /\ B \in Nat \ {0}
      BY <1>1, <2>1
    <3> QED BY <3>1, Z3
  <2> HIDE DEF d
  <2>4. B * d = B * h
    BY <1>1, <1>3, <1>5, <2>1, <2>2, <2>3, Z3
  <2>5. d = h
    BY <1>1, <1>5, <2>3, <2>4, Z3
  <2> QED BY <2>5 DEF d, x
<1>9. EntryOfBit(j) = m
  BY DEF EntryOfBit, m, h, q, r, B, K
<1> HIDE DEF m
<1>10. InEntry(n, m) <=> (n \div 2^(B * (K - 1 - h) + r)) % 2 = 1
  BY <1>7, <1>8 DEF InEntry, B, K
<1>11. B * (K - 1 - h) + r = j /\ (j + 1) - 1 = j
  BY <1>1, <1>3, <1>5
<1>12. InEntry(n, m) <=> BitAt(n, j + 1)
  BY <1>10, <1>11 DEF BitAt
<1>13. m \in Entries
  BY <1>1, <1>6 DEF Entries
<1> QED BY <1>9, <1>12, <1>13

(* The block's leaves as they were shared among the parties.               *)
Dealt ==
    shares = [p \in Parties |-> [m \in Entries |->
                ShareWord(LeafWord(leaf, m), Deal(m)[1], Deal(m)[2])[p]]]

(* Two neighbours hold the leaf that was shared: two components cancel.    *)
LEMMA HeldLeaf ==
    ASSUME NEW p \in Parties, Dealt
    PROVE  Held(p, 0) = WordsOf(leaf)
<1> DEFINE mine == InputOf(p, 0)
           theirs == InputOf(NextOf(p), 0)
<1>1. p \in 0..2 /\ NextOf(p) \in Parties
  BY DEF Parties, NextOf
<1>2. ASSUME NEW i \in 1..Width
      PROVE  mine[i][1] ## mine[i][2] ## theirs[i][2] = {l \in Lanes : BitAt(leaf[l], i)}
  <2> DEFINE e == EntryOfBit(i - 1)
             x == LeafWord(leaf, e)
             d == Deal(e)[1]
             f == Deal(e)[2]
             s == ShareWord(x, d, f)
  <2>1. i - 1 \in 0..(Width - 1) /\ (i - 1) + 1 = i
    BY QMaskSizes
  <2>2. e \in Entries /\ \A n : InEntry(n, e) <=> BitAt(n, i)
    BY <2>1, EntryRight
  <2>3. x = {l \in Lanes : BitAt(leaf[l], i)}
    BY <2>2 DEF LeafWord
  <2>4. mine[i] = shares[p][e] /\ theirs[i] = shares[NextOf(p)][e]
    BY DEF InputOf
  <2> HIDE DEF mine, theirs, e
  <2>5. mine[i] = s[p] /\ theirs[i] = s[NextOf(p)]
    BY <1>1, <2>2, <2>4 DEF Dealt
  <2> HIDE DEF x, d, f
  <2>6. /\ s[0] = <<d, f>> /\ s[1] = <<f, x ## d ## f>> /\ s[2] = <<x ## d ## f, d>>
    BY DEF ShareWord, Replicated, Parties, NextOf
  <2> HIDE DEF s
  <2>7. NextOf(0) = 1 /\ NextOf(1) = 2 /\ NextOf(2) = 0
    BY DEF NextOf
  <2>8. /\ (d ## f) ## (x ## d ## f) = x
        /\ (f ## (x ## d ## f)) ## d = x
        /\ ((x ## d ## f) ## d) ## f = x
    BY DEF ##, SymDiff
  <2>9. CASE p = 0
    BY <2>3, <2>5, <2>6, <2>7, <2>8, <2>9
  <2>10. CASE p = 1
    BY <2>3, <2>5, <2>6, <2>7, <2>8, <2>10
  <2>11. CASE p = 2
    BY <2>3, <2>5, <2>6, <2>7, <2>8, <2>11
  <2> QED BY <1>1, <2>9, <2>10, <2>11
<1>3. Held(p, 0) = [i \in 1..Width |-> mine[i][1] ## mine[i][2] ## theirs[i][2]]
  BY DEF Held
<1> HIDE DEF mine, theirs
<1> QED BY <1>2, <1>3 DEF WordsOf

Summands(j) == [l \in Lanes |-> Derived(PrevOf(j), root + l)]

(* And the summand: one of the three words they go by is its.              *)
LEMMA HeldSummand ==
    ASSUME NEW p \in Parties, NEW j \in Parties
    PROVE  Held(p, j + 1) = WordsOf(Summands(j))
<1> DEFINE k == j + 1
           q == NextOf(p)
           mine == InputOf(p, k)
           theirs == InputOf(q, k)
           Bits(n, i) == {l \in Lanes : BitAt(Derived(n, root + l), i)}
<1>1. k # 0 /\ k - 1 = j /\ p \in 0..2 /\ j \in 0..2
  BY DEF Parties
<1>2. ASSUME NEW i \in 1..Width, NEW r \in Parties
      PROVE  /\ InputOf(r, k)[i][1] = IF r = j THEN Bits(PrevOf(r), i) ELSE {}
             /\ InputOf(r, k)[i][2] = IF NextOf(r) = j THEN Bits(r, i) ELSE {}
  <2>1. InputOf(r, k)[i] = SummandBit(r, j, i)
    BY <1>1 DEF InputOf
  <2>2. 1 \in HeldAs(r, j) <=> r = j
    <3>1. r \in 0..2 /\ (r + 1 - 1) % 3 = r
      BY DEF Parties
    <3> QED BY <3>1 DEF HeldAs
  <2>3. 2 \in HeldAs(r, j) <=> NextOf(r) = j
    <3>1. r + 2 - 1 = r + 1
      BY DEF Parties
    <3> QED BY <3>1 DEF HeldAs, NextOf
  <2>4. \A l : SummandPair(r, root + l)[1] = Derived(PrevOf(r), root + l)
               /\ SummandPair(r, root + l)[2] = Derived(r, root + l)
    BY DEF SummandPair
  <2>5. /\ SummandBit(r, j, i)[1] = IF 1 \in HeldAs(r, j) THEN {l \in Lanes : BitAt(SummandPair(r, root + l)[1], i)} ELSE {}
        /\ SummandBit(r, j, i)[2] = IF 2 \in HeldAs(r, j) THEN {l \in Lanes : BitAt(SummandPair(r, root + l)[2], i)} ELSE {}
    BY DEF SummandBit
  <2>6. /\ {l \in Lanes : BitAt(SummandPair(r, root + l)[1], i)} = Bits(PrevOf(r), i)
        /\ {l \in Lanes : BitAt(SummandPair(r, root + l)[2], i)} = Bits(r, i)
    BY <2>4
  <2> HIDE DEF Bits
  <2> QED BY <2>1, <2>2, <2>3, <2>5, <2>6
<1>3. ASSUME NEW i \in 1..Width
      PROVE  mine[i][1] ## mine[i][2] ## theirs[i][2] = Bits(PrevOf(j), i)
  <2> DEFINE x == Bits(PrevOf(j), i)
             a == mine[i][1]
             b == mine[i][2]
             c == theirs[i][2]
  <2>1. q \in Parties /\ q \in 0..2
    BY DEF Parties, NextOf
  <2>2. /\ a = IF p = j THEN Bits(PrevOf(p), i) ELSE {}
        /\ b = IF NextOf(p) = j THEN Bits(p, i) ELSE {}
        /\ c = IF NextOf(q) = j THEN Bits(q, i) ELSE {}
    BY <1>2, <2>1
  <2>3. /\ NextOf(0) = 1 /\ NextOf(1) = 2 /\ NextOf(2) = 0
        /\ PrevOf(0) = 2 /\ PrevOf(1) = 0 /\ PrevOf(2) = 1
    BY DEF NextOf, PrevOf
  <2> HIDE DEF a, b, c, Bits, mine, theirs
  <2>4. \/ a = x /\ b = {} /\ c = {}
        \/ a = {} /\ b = x /\ c = {}
        \/ a = {} /\ b = {} /\ c = x
    <3>1. CASE j = p
      BY <1>1, <2>2, <2>3, <3>1
    <3>2. CASE j = NextOf(p)
      BY <1>1, <2>2, <2>3, <3>2
    <3>3. CASE j = NextOf(q)
      BY <1>1, <2>2, <2>3, <3>3
    <3>4. j = p \/ j = NextOf(p) \/ j = NextOf(q)
      BY <1>1, <2>3
    <3> QED BY <3>1, <3>2, <3>3, <3>4
  <2>5. (x ## {}) ## {} = x /\ ({} ## x) ## {} = x /\ ({} ## {}) ## x = x
    BY DEF ##, SymDiff
  <2>6. a ## b ## c = x
    BY <2>4, <2>5
  <2> QED BY <2>6 DEF a, b, c
<1>4. Held(p, k) = [i \in 1..Width |-> mine[i][1] ## mine[i][2] ## theirs[i][2]]
  BY DEF Held
<1>5. \A i \in 1..Width : {l \in Lanes : BitAt(Summands(j)[l], i)} = Bits(PrevOf(j), i)
  BY DEF Summands
<1> HIDE DEF mine, theirs, Bits
<1> QED BY <1>3, <1>4, <1>5 DEF WordsOf

(* What the parties open of a lane.                                        *)
LEMMA MaskedLane ==
    ASSUME NEW p \in Parties, Dealt, root \in Roots, leaf \in [Lanes -> Numbers], NEW l \in Lanes
    PROVE  NumberIn(MaskedSum(Held(p, 0), Held(p, 1), Held(p, 2), Held(p, 3), Lanes), l)
             = (leaf[l] + Derived(0, root + l) + Derived(1, root + l) + Derived(2, root + l)) % Q
<1> DEFINE s == Held(p, 0)
           s0 == Held(p, 1)
           s1 == Held(p, 2)
           s2 == Held(p, 3)
           a == leaf[l]
           b == Derived(0, root + l)
           c == Derived(1, root + l)
           d == Derived(2, root + l)
<1>1. s = WordsOf(leaf)
  BY HeldLeaf
<1>2. s0 = WordsOf(Summands(0)) /\ s1 = WordsOf(Summands(1)) /\ s2 = WordsOf(Summands(2))
  <2>1. 0 \in Parties /\ 1 \in Parties /\ 2 \in Parties /\ 0 + 1 = 1 /\ 1 + 1 = 2 /\ 2 + 1 = 3
    BY DEF Parties
  <2>2. Held(p, 0 + 1) = WordsOf(Summands(0)) /\ Held(p, 1 + 1) = WordsOf(Summands(1))
        /\ Held(p, 2 + 1) = WordsOf(Summands(2))
    BY <2>1, HeldSummand
  <2> QED BY <2>1, <2>2
<1>3. \A j \in Parties : Summands(j) \in [Lanes -> Numbers]
  <2>1. \A j \in Parties : PrevOf(j) \in Parties
    BY DEF Parties, PrevOf
  <2> QED BY <2>1, ConvertSizes DEF Summands
<1>4. Summands(0)[l] = d /\ Summands(1)[l] = b /\ Summands(2)[l] = c
  BY DEF Summands, PrevOf
<1>5. 0 \in Parties /\ 1 \in Parties /\ 2 \in Parties
  BY DEF Parties
<1> HIDE DEF s, s0, s1, s2
<1>6. s \in Words(Lanes) /\ Len(s) = Width /\ Value(s, l, Width) = a
  BY <1>1, WordsOfRight
<1>7. /\ s0 \in Words(Lanes) /\ Len(s0) = Width /\ Value(s0, l, Width) = d
      /\ s1 \in Words(Lanes) /\ Len(s1) = Width /\ Value(s1, l, Width) = b
      /\ s2 \in Words(Lanes) /\ Len(s2) = Width /\ Value(s2, l, Width) = c
  BY <1>2, <1>3, <1>4, <1>5, WordsOfRight
<1>8. NumberIn(MaskedSum(s, s0, s1, s2, Lanes), l)
        = (Value(s, l, Width) + Value(s0, l, Width) + Value(s1, l, Width) + Value(s2, l, Width)) % Q
  BY <1>6, <1>7, MaskedSumRight
<1>9. a + d + b + c = a + b + c + d
  <2>1. \A n \in Numbers : n \in Int
    BY DEF Numbers
  <2>2. b \in Numbers /\ c \in Numbers /\ d \in Numbers /\ a \in Numbers
    BY <1>5, ConvertSizes
  <2> HIDE DEF a, b, c, d
  <2> QED BY <2>1, <2>2
<1> HIDE DEF a, b, c, d
<1>10. NumberIn(MaskedSum(s, s0, s1, s2, Lanes), l) = (a + b + c + d) % Q
  BY <1>6, <1>7, <1>8, <1>9
<1> QED BY <1>10 DEF s, s0, s1, s2, a, b, c, d

-----------------------------------------------------------------------------
(* If all copies agree and at most one party's answer is not what it       *)
(* should be, every first component is what it should be: a liar's first   *)
(* component is also its previous party's second one.                      *)
LEMMA OneLiar ==
    ASSUME NEW pairs, NEW honest, Consistent(pairs), Consistent(honest),
           Cardinality(Liars(pairs, honest)) <= 1
    PROVE  \A p \in Parties : pairs[p][1] = honest[p][1]
<1> DEFINE S == Liars(pairs, honest)
<1>1. IsFiniteSet(S) /\ S \subseteq Parties
  <2>1. IsFiniteSet(Parties)
    <3>1. 0 \in Int /\ 2 \in Int
      OBVIOUS
    <3>2. IsFiniteSet(0..2)
      BY <3>1, FS_Interval
    <3> QED BY <3>2 DEF Parties
  <2>2. S \subseteq Parties
    BY DEF Liars
  <2> QED BY <2>1, <2>2, FS_Subset
<1>2. PICK liar \in Parties : S \subseteq {liar}
  <2>1. CASE S = {}
    <3>1. 0 \in Parties
      BY DEF Parties
    <3> QED BY <2>1, <3>1
  <2>2. CASE S # {}
    <3>1. PICK a \in S : TRUE
      BY <2>2
    <3>2. ASSUME NEW b \in S, b # a PROVE FALSE
      <4>1. IsFiniteSet({a}) /\ Cardinality({a}) = 1
        BY FS_Singleton
      <4>2. Cardinality({a} \cup {b}) = 2
        BY <4>1, <3>2, FS_AddElement
      <4>3. Cardinality({a} \cup {b}) <= Cardinality(S)
        BY <1>1, <3>1, <3>2, FS_Subset
      <4>4. Cardinality(S) \in Nat
        BY <1>1, FS_CardinalityType
      <4> HIDE DEF S
      <4>5. Cardinality(S) <= 1
        BY DEF S
      <4> QED BY <4>2, <4>3, <4>4, <4>5
    <3> QED BY <1>1, <3>1, <3>2
  <2> QED BY <2>1, <2>2
<1>3. \A p \in Parties : p # liar => pairs[p] = honest[p]
  BY <1>2 DEF Liars
<1>4. PrevOf(liar) \in Parties /\ PrevOf(liar) # liar /\ NextOf(PrevOf(liar)) = liar
  BY DEF Parties, PrevOf, NextOf
<1>5. pairs[liar][1] = honest[liar][1]
  <2>1. pairs[PrevOf(liar)][2] = pairs[liar][1] /\ honest[PrevOf(liar)][2] = honest[liar][1]
    BY <1>4 DEF Consistent
  <2> QED BY <2>1, <1>3, <1>4
<1> QED BY <1>3, <1>5

-----------------------------------------------------------------------------
(* What the adapter computes for a lane from honest answers.               *)
HonestPoint(l) ==
    (masked[l] - (Derived(2, root + l) % Q) - (Derived(0, root + l) % Q)
               - (Derived(1, root + l) % Q)) % Q

(* The inductive invariant: points are taken of masked lanes, with one lie *)
(* at most they are the honest ones, and what is released fits them.       *)
PInv ==
    /\ root \in Roots /\ leaf \in [Lanes -> Numbers]
    /\ DOMAIN point \subseteq DOMAIN masked
    /\ DOMAIN masked \subseteq Lanes
    /\ stage = "masked" \/ DOMAIN point = {}
    /\ stage = "masked" => DOMAIN masked = Lanes
    /\ \A l \in DOMAIN point :
          Cardinality(point[l].liars) <= 1 => point[l].value = HonestPoint(l)
    /\ \A l \in DOMAIN released : l \in DOMAIN point /\ released[l] = point[l].value

(* There are no points at the start.                                       *)
LEMMA InitPInv == Init => PInv
<1> SUFFICES ASSUME Init PROVE PInv
  OBVIOUS
<1>1. DOMAIN masked = {} /\ DOMAIN point = {} /\ DOMAIN released = {} /\ stage = "prepared"
  BY DEF Init
<1>2. root \in Roots /\ leaf \in [Lanes -> Numbers]
  BY ConvertSizes DEF Init
<1> QED BY <1>1, <1>2 DEF PInv

(* Masking and aborting happen before there are any points.                *)
LEMMA MaskBlockPInv == PInv /\ MaskBlock => PInv'
<1> SUFFICES ASSUME PInv, MaskBlock PROVE PInv'
  OBVIOUS
<1>1. stage = "prepared" /\ stage' = "masked" /\ UNCHANGED <<root, leaf, point, released>>
  BY DEF MaskBlock
<1>2. DOMAIN masked' = Lanes
  BY DEF MaskBlock
<1>3. DOMAIN point = {} /\ DOMAIN released = {}
  BY <1>1 DEF PInv
<1> QED BY <1>1, <1>2, <1>3 DEF PInv

(* An aborted block has no points.                                         *)
LEMMA BlockAbortsPInv == PInv /\ BlockAborts => PInv'
<1> SUFFICES ASSUME PInv, BlockAborts PROVE PInv'
  OBVIOUS
<1>1. stage = "prepared" /\ stage' = "aborted"
      /\ UNCHANGED <<root, leaf, masked, point, released>>
  BY DEF BlockAborts
<1>2. DOMAIN point = {} /\ DOMAIN released = {}
  BY <1>1 DEF PInv
<1> QED BY <1>1, <1>2 DEF PInv, HonestPoint

(* The parties' own summand points are consistent, and the adapter's       *)
(* result from their first components is the honest point.                 *)
LEMMA PublishPointPInv == PInv /\ PublishPoint => PInv'
<1> SUFFICES ASSUME PInv, PublishPoint PROVE PInv'
  OBVIOUS
<1> DEFINE L == LaneNow
           honest == [p \in Parties |-> PointPair(p)]
<1>1. PICK pairs \in Answers(honest, OtherPoints) :
         /\ Consistent(pairs)
         /\ point' = Recorded(point, L, [value |-> Unmasked(masked[L], pairs),
                                         liars |-> Liars(pairs, honest)])
  BY DEF PublishPoint
<1>2. L \in Lanes \ DOMAIN point /\ stage = "masked"
      /\ UNCHANGED <<root, leaf, shares, stage, masked, released>>
  BY DEF PublishPoint
<1>3. /\ DOMAIN point' = DOMAIN point \cup {L}
      /\ point'[L] = [value |-> Unmasked(masked[L], pairs), liars |-> Liars(pairs, honest)]
      /\ \A l \in DOMAIN point : point'[l] = point[l]
  BY <1>1, <1>2 DEF Recorded
<1>4. ASSUME Cardinality(Liars(pairs, honest)) <= 1
      PROVE  Unmasked(masked[L], pairs) = HonestPoint(L)
  <2>1. /\ honest[0] = <<Derived(2, root + L) % Q, Derived(0, root + L) % Q>>
        /\ honest[1] = <<Derived(0, root + L) % Q, Derived(1, root + L) % Q>>
        /\ honest[2] = <<Derived(1, root + L) % Q, Derived(2, root + L) % Q>>
    BY DEF PointPair, SummandPair, Vid, Parties, PrevOf
  <2>2. Consistent(honest)
    BY <2>1 DEF Consistent, Parties, NextOf
  <2> HIDE DEF honest
  <2>3. \A p \in Parties : pairs[p][1] = honest[p][1]
    BY <1>1, <1>4, <2>2, OneLiar
  <2> QED BY <2>1, <2>3 DEF Unmasked, HonestPoint, Parties
<1> QED BY <1>2, <1>3, <1>4 DEF PInv, HonestPoint

(* What is released fits the point of its lane.                            *)
LEMMA ReleasePInv == PInv /\ Release => PInv'
<1> SUFFICES ASSUME PInv, Release PROVE PInv'
  OBVIOUS
<1> DEFINE L == LaneNow
<1>1. PICK s : s = point[L].value /\ released' = Recorded(released, L, s)
  BY DEF Release, Matches
<1>2. L \in DOMAIN point /\ UNCHANGED <<root, leaf, shares, stage, masked, point>>
  BY DEF Release
<1>3. \A l \in DOMAIN released' :
         (l = L /\ released'[l] = s) \/ (l \in DOMAIN released /\ released'[l] = released[l])
  BY <1>1 DEF Recorded
<1> QED BY <1>1, <1>2, <1>3 DEF PInv, HonestPoint

(* The inductive invariant holds in every behaviour.                       *)
LEMMA PInvInvariant == Spec => []PInv
<1>1. PInv /\ [Next]_vars => PInv'
  <2> SUFFICES ASSUME PInv, [Next]_vars PROVE PInv'
    OBVIOUS
  <2>1. CASE UNCHANGED vars
    BY <2>1 DEF PInv, HonestPoint, vars
  <2> QED BY <2>1, MaskBlockPInv, BlockAbortsPInv, PublishPointPInv, ReleasePInv DEF Next
<1> QED BY <1>1, InitPInv, PTL DEF Spec

-----------------------------------------------------------------------------
(* The inductive invariant of masking: until a block is masked the shares  *)
(* are those that were dealt and nothing is masked; then it is right.      *)
MInv ==
    /\ root \in Roots /\ leaf \in [Lanes -> Numbers]
    /\ stage = "prepared" => Dealt
    /\ stage # "masked" => DOMAIN masked = {}
    /\ MaskedRight

(* Init deals, and masks nothing.                                          *)
LEMMA InitMInv == Init => MInv
<1> SUFFICES ASSUME Init PROVE MInv
  OBVIOUS
<1>1. root \in Roots /\ leaf \in [Lanes -> Numbers] /\ DOMAIN masked = {} /\ stage = "prepared"
  BY ConvertSizes DEF Init
<1>2. Dealt
  BY DEF Init, Dealt
<1> QED BY <1>1, <1>2 DEF MInv, MaskedRight

(* A block is masked right, whichever party's copy of the inputs is taken. *)
LEMMA MaskBlockMInv == MInv /\ MaskBlock => MInv'
<1> SUFFICES ASSUME MInv, MaskBlock PROVE MInv'
  OBVIOUS
<1>1. stage = "prepared" /\ stage' = "masked" /\ UNCHANGED <<root, leaf, shares>>
  BY DEF MaskBlock
<1>2. Dealt /\ root \in Roots /\ leaf \in [Lanes -> Numbers]
  BY <1>1 DEF MInv
<1>3. PICK p \in Parties :
         masked' = [l \in Lanes |->
            NumberIn(MaskedSum(Held(p, 0), Held(p, 1), Held(p, 2), Held(p, 3), Lanes), l)]
  BY DEF MaskBlock
<1>4. ASSUME NEW l \in Lanes
      PROVE  masked'[l] = (leaf[l] + Derived(0, root + l) + Derived(1, root + l) + Derived(2, root + l)) % Q
  BY <1>2, <1>3, MaskedLane
<1>5. DOMAIN masked' = Lanes
  BY <1>3
<1>6. MaskedRight'
  BY <1>1, <1>4, <1>5 DEF MaskedRight
<1> QED BY <1>1, <1>2, <1>6 DEF MInv

(* Nothing else touches what is masked.                                    *)
LEMMA OthersMInv == MInv /\ (BlockAborts \/ PublishPoint \/ Release \/ UNCHANGED vars) => MInv'
<1> SUFFICES ASSUME MInv, BlockAborts \/ PublishPoint \/ Release \/ UNCHANGED vars PROVE MInv'
  OBVIOUS
<1>1. UNCHANGED <<root, leaf, shares, masked>>
  BY DEF BlockAborts, PublishPoint, Release, vars
<1>2. stage' = stage \/ (stage = "prepared" /\ stage' = "aborted")
  BY DEF BlockAborts, PublishPoint, Release, vars
<1>3. MaskedRight => MaskedRight'
  BY <1>1 DEF MaskedRight
<1>4. Dealt => Dealt'
  <2>1. leaf' = leaf /\ shares' = shares
    BY <1>1
  <2> QED BY <2>1 DEF Dealt, LeafWord
<1> QED BY <1>1, <1>2, <1>3, <1>4 DEF MInv

(* That invariant holds in every behaviour.                                *)
LEMMA MInvInvariant == Spec => []MInv
<1>1. MInv /\ [Next]_vars => MInv'
  BY MaskBlockMInv, OthersMInv DEF Next
<1> QED BY <1>1, InitMInv, PTL DEF Spec

(* "three ripple additions and four conditional subtractions of q"         *)
(* (convert.rs:12) mask every leaf with its summands, modulo the order,    *)
(* for every order that fills its width, every block and every dealing.    *)
THEOREM MasksRight == Spec => []MaskedRight
<1>1. MInv => MaskedRight
  BY DEF MInv
<1> QED BY <1>1, MInvInvariant, PTL

-----------------------------------------------------------------------------
(* A point that is the honest one is the leaf's, if the lane was masked    *)
(* right.                                                                  *)
LEMMA HonestPointRight ==
    ASSUME PInv, MaskedRight, NEW l \in DOMAIN point
    PROVE  HonestPoint(l) = leaf[l] % Q
<1> DEFINE s0 == Derived(0, root + l)
           s1 == Derived(1, root + l)
           s2 == Derived(2, root + l)
<1>1. l \in Lanes /\ l \in DOMAIN masked /\ root \in Roots /\ leaf[l] \in Numbers
  BY DEF PInv
<1>2. s0 \in Numbers /\ s1 \in Numbers /\ s2 \in Numbers
  BY <1>1, ConvertSizes DEF Parties
<1>3. \A n \in Numbers : n \in Int
  BY DEF Numbers
<1>4. Q \in Nat \ {0}
  BY QMaskSizes
<1>5. masked[l] = (leaf[l] + s0 + s1 + s2) % Q
  BY <1>1 DEF MaskedRight
<1> HIDE DEF s0, s1, s2
<1>6. leaf[l] \in Int /\ s0 \in Int /\ s1 \in Int /\ s2 \in Int
  BY <1>1, <1>2, <1>3
<1>7. leaf[l] + s0 + s1 + s2 = leaf[l] + s2 + s0 + s1
  BY <1>6
<1>8. Unmasks(Q, leaf[l], s2, s0, s1)
  BY <1>4, <1>6, MaskOff
<1> QED BY <1>5, <1>7, <1>8 DEF Unmasks, HonestPoint, s0, s1, s2

(* "each s_j*G published by its two holders and cross-checked"             *)
(* (convert.rs:15): one liar cannot move a leaf's point.                   *)
THEOREM PointsRight == Spec => []PointRight
<1>1. PInv /\ MaskedRight => PointRight
  BY HonestPointRight DEF PInv, PointRight
<1> QED BY <1>1, PInvInvariant, MasksRight, PTL

(* After such a point nothing but the leaf is released (release_q,         *)
(* convert.rs:345), whoever lies about summands.                           *)
THEOREM ReleasesRight == Spec => []ReleasedRight
<1>1. PInv /\ MaskedRight => ReleasedRight
  BY HonestPointRight DEF PInv, ReleasedRight
<1> QED BY <1>1, PInvInvariant, MasksRight, PTL

-----------------------------------------------------------------------------
(* Type correctness: masked leaves and points are scalars, a point is not  *)
(* the identity, and nothing is released without one.                      *)
THEOREM ConvertTypeOK == Spec => []TypeOK
<1> DEFINE Typed == /\ root \in Roots /\ leaf \in Leaves
                    /\ stage \in {"prepared", "masked", "aborted"}
                    /\ DOMAIN masked = IF stage = "masked" THEN Lanes ELSE {}
                    /\ \A l \in DOMAIN masked : masked[l] \in Scalars
                    /\ \A l \in DOMAIN point : /\ point[l].value \in Scalars \ {0}
                                               /\ point[l].liars \subseteq Parties
                    /\ DOMAIN released \subseteq DOMAIN point
<1>0. Q \in Nat \ {0} /\ \A n \in Int : n % Q \in Scalars
  <2>1. Q \in Nat \ {0}
    BY QMaskSizes
  <2> QED BY <2>1, Z3 DEF Scalars
<1>1. Init => Typed
  BY DEF Init
<1>2. MInv /\ PInv /\ MInv' /\ PInv' /\ Typed /\ [Next]_vars => Typed'
  <2> SUFFICES ASSUME MInv, PInv, MInv', PInv', Typed, [Next]_vars PROVE Typed'
    OBVIOUS
  <2>1. CASE MaskBlock
    <3>1. /\ stage = "prepared" /\ stage' = "masked" /\ UNCHANGED <<root, leaf, shares, point, released>>
          /\ DOMAIN masked' = Lanes
      BY <2>1 DEF MaskBlock
    <3>2. ASSUME NEW l \in Lanes PROVE masked'[l] \in Scalars
      <4>1. masked'[l] = (leaf[l] + Derived(0, root + l) + Derived(1, root + l) + Derived(2, root + l)) % Q
        BY <3>1, <3>2 DEF MInv, MaskedRight
      <4>2. /\ leaf[l] \in Numbers /\ Derived(0, root + l) \in Numbers /\ Derived(1, root + l) \in Numbers
            /\ Derived(2, root + l) \in Numbers
        <5>1. root \in Roots /\ leaf \in [Lanes -> Numbers] /\ 0 \in Parties /\ 1 \in Parties /\ 2 \in Parties
          BY DEF MInv, Parties
        <5> QED BY <5>1, ConvertSizes
      <4>3. leaf[l] + Derived(0, root + l) + Derived(1, root + l) + Derived(2, root + l) \in Int
        <5>1. \A n \in Numbers : n \in Int
          BY DEF Numbers
        <5> QED BY <4>2, <5>1
      <4> QED BY <1>0, <4>1, <4>3
    <3> QED BY <3>1, <3>2
  <2>2. CASE BlockAborts
    BY <2>2 DEF BlockAborts
  <2>3. CASE PublishPoint
    <3> DEFINE L == LaneNow
               honest == [p \in Parties |-> PointPair(p)]
    <3>1. /\ stage = "masked" /\ L \in Lanes
          /\ UNCHANGED <<root, leaf, shares, stage, masked, released>>
      BY <2>3 DEF PublishPoint
    <3>2. PICK pairs \in Answers(honest, OtherPoints) :
             /\ \A p \in Parties : pairs[p][1] \in 1..(Q - 1)
             /\ Unmasked(masked[L], pairs) # 0
             /\ point' = Recorded(point, L, [value |-> Unmasked(masked[L], pairs),
                                             liars |-> Liars(pairs, honest)])
      BY <2>3 DEF PublishPoint
    <3> HIDE DEF honest, L
    <3>3. Unmasked(masked[L], pairs) \in Scalars \ {0}
      <4>1. masked[L] \in Int
        BY <3>1 DEF Scalars
      <4>2. pairs[0][1] \in Int /\ pairs[1][1] \in Int /\ pairs[2][1] \in Int
        BY <1>0, <3>2 DEF Parties
      <4>3. masked[L] - pairs[0][1] - pairs[1][1] - pairs[2][1] \in Int
        BY <4>1, <4>2
      <4> QED BY <1>0, <3>2, <4>3 DEF Unmasked
    <3>4. Liars(pairs, honest) \subseteq Parties
      BY DEF Liars
    <3>5. /\ DOMAIN point' = DOMAIN point \cup {L}
          /\ point'[L] = [value |-> Unmasked(masked[L], pairs), liars |-> Liars(pairs, honest)]
          /\ \A l \in DOMAIN point : l # L => point'[l] = point[l]
      BY <3>2 DEF Recorded
    <3> QED BY <3>1, <3>3, <3>4, <3>5
  <2>4. CASE Release
    <3>1. /\ UNCHANGED <<root, leaf, shares, stage, masked, point>>
          /\ LaneNow \in DOMAIN point /\ DOMAIN released' = DOMAIN released \cup {LaneNow}
      BY <2>4 DEF Release, Recorded
    <3> QED BY <3>1
  <2>5. CASE UNCHANGED vars
    BY <2>5 DEF vars
  <2> QED BY <2>1, <2>2, <2>3, <2>4, <2>5 DEF Next
<1>3. Typed => TypeOK
  BY DEF TypeOK
<1> HIDE DEF Typed
<1> QED BY <1>1, <1>2, <1>3, MInvInvariant, PInvInvariant, PTL DEF Spec
=============================================================================
