----------------------------- MODULE DzkpProofs -----------------------------
(***************************************************************************)
(* The zero-knowledge backend of the engine, whatever the circuit, the     *)
(* coins, the number of rounds they take and the order in which the        *)
(* parties run.  Nobody takes a message for another: all three follow one  *)
(* course of stages.  And unless an item arrives changed, nobody aborts:   *)
(* along the course there is one run of states, in which the tapes fit,    *)
(* the logs agree, what is proved is true and every round keeps it true;   *)
(* a party at a stage is where the run has it, and what it reads is what   *)
(* its neighbour owes it there.                                            *)
(***************************************************************************)
EXTENDS DzkpInv, GfProofs, SequenceTheorems

-----------------------------------------------------------------------------
(* Neighbours and sequences. *)

(* Everyone is a party's previous one, its next one, or the party.         *)
LEMMA Neighbours ==
    ASSUME NEW p \in Parties
    PROVE  /\ NextOf(p) \in Parties /\ PrevOf(p) \in Parties
           /\ NextOf(p) # p /\ PrevOf(p) # p /\ NextOf(p) # PrevOf(p)
           /\ NextOf(PrevOf(p)) = p /\ PrevOf(NextOf(p)) = p
           /\ NextOf(NextOf(p)) = PrevOf(p) /\ PrevOf(PrevOf(p)) = NextOf(p)
           /\ \A q \in Parties : q = p \/ q = NextOf(p) \/ q = PrevOf(p)
BY Z3 DEF Parties, NextOf, PrevOf

(* The empty sequence.                                                     *)
LEMMA EmptyIsSeq == IsSeq(<< >>) /\ Len(<< >>) = 0
BY DEF IsSeq

(* A sequence of one element.                                              *)
LEMMA OneIsSeq ==
    ASSUME NEW m
    PROVE  IsSeq(<<m>>) /\ Len(<<m>>) = 1 /\ <<m>>[1] = m
<1>1. <<m>> \in Seq({m})
  OBVIOUS
<1> QED BY <1>1 DEF IsSeq

(* A sequence is indexed up to its length.                                 *)
LEMMA SeqLength ==
    ASSUME NEW w, IsSeq(w)
    PROVE  Len(w) \in Nat /\ DOMAIN w = 1..Len(w) /\ (w = << >> <=> Len(w) = 0)
BY DEF IsSeq

(* Two sequences, one after the other.                                     *)
LEMMA ConcatIsSeq ==
    ASSUME NEW w, NEW v, IsSeq(w), IsSeq(v)
    PROVE  /\ IsSeq(w \o v) /\ Len(w \o v) = Len(w) + Len(v)
           /\ \A i \in 1..Len(w) : (w \o v)[i] = w[i]
           /\ \A i \in 1..Len(v) : (w \o v)[Len(w) + i] = v[i]
<1>1. PICK S : w \in Seq(S)
  BY DEF IsSeq
<1>2. PICK T : v \in Seq(T)
  BY DEF IsSeq
<1> DEFINE U == S \cup T
<1>3. w \in Seq(U) /\ v \in Seq(U)
  BY <1>1, <1>2
<1> HIDE DEF U
<1>4. w \o v \in Seq(U)
  BY <1>3
<1> QED BY <1>3, <1>4 DEF IsSeq

(* A sequence without its first element.                                   *)
LEMMA TailIsSeq ==
    ASSUME NEW w, IsSeq(w), w # << >>
    PROVE  /\ IsSeq(Tail(w)) /\ Len(Tail(w)) = Len(w) - 1 /\ Head(w) = w[1]
           /\ \A i \in 1..(Len(w) - 1) : Tail(w)[i] = w[i + 1]
<1>1. PICK S : w \in Seq(S)
  BY DEF IsSeq
<1>2. Tail(w) \in Seq(S)
  BY <1>1
<1> QED BY <1>1, <1>2 DEF IsSeq

-----------------------------------------------------------------------------
(* What a link holds. *)

(* Nothing, when no message is sent in these stages.                       *)
LEMMA HoldsNothing ==
    ASSUME NEW c, NEW coin, NEW q, NEW p, NEW a, NEW b, \A k \in a..b : ~Sends(c[k], q, p)
    PROVE  Holds(<< >>, c, coin, q, p, a, b)
<1> DEFINE f == [i \in {} |-> 0]
<1>1. f \in [1..Len(<< >>) -> Nat] /\ 1..Len(<< >>) = {}
  BY EmptyIsSeq
<1> HIDE DEF f
<1> QED BY <1>1 DEF Holds

(* A single message, when it is the only one of these stages.              *)
LEMMA HoldsOne ==
    ASSUME NEW c, NEW coin, NEW q, NEW p, NEW a \in Nat, NEW b \in Nat, NEW m, NEW k \in a..b,
           IsMessage(m, c[k], coin, q, p), \A j \in a..b : j # k => ~Sends(c[j], q, p)
    PROVE  Holds(<<m>>, c, coin, q, p, a, b)
<1> DEFINE f == [i \in {1} |-> k]
           w == <<m>>
<1>1. f \in [1..1 -> Nat] /\ f[1] = k
  OBVIOUS
<1>2. Len(w) = 1 /\ w[1] = m /\ 1..Len(w) = {1}
  BY OneIsSeq
<1> HIDE DEF f, w
<1>3. Holds(w, c, coin, q, p, a, b)
  BY <1>1, <1>2 DEF Holds
<1> QED BY <1>3 DEF w

(* The messages of stages a to b followed by those of the stages up to d,  *)
(* if the reader is not waiting for one in between.                        *)
LEMMA HoldsConcat ==
    ASSUME NEW c, NEW coin, NEW q, NEW p, NEW a \in Nat, NEW b \in Nat, NEW d \in Nat, b <= d,
           NEW w, NEW v, IsSeq(w), IsSeq(v),
           Holds(w, c, coin, q, p, a, b), Holds(v, c, coin, q, p, b + 1, d),
           \A k \in (b + 1)..(a - 1) : ~Sends(c[k], q, p)
    PROVE  Holds(w \o v, c, coin, q, p, a, d)
<1>1. PICK f \in [1..Len(w) -> Nat] :
        /\ \A i \in 1..Len(w) :
            /\ f[i] \in a..b /\ IsMessage(w[i], c[f[i]], coin, q, p)
            /\ \A j \in 1..Len(w) : i < j => f[i] < f[j]
        /\ \A k \in a..b : Sends(c[k], q, p) => \E i \in 1..Len(w) : f[i] = k
  BY DEF Holds
<1>2. PICK g \in [1..Len(v) -> Nat] :
        /\ \A i \in 1..Len(v) :
            /\ g[i] \in (b + 1)..d /\ IsMessage(v[i], c[g[i]], coin, q, p)
            /\ \A j \in 1..Len(v) : i < j => g[i] < g[j]
        /\ \A k \in (b + 1)..d : Sends(c[k], q, p) => \E i \in 1..Len(v) : g[i] = k
  BY DEF Holds
<1> DEFINE L == Len(w)
           M == Len(v)
           h == [i \in 1..(L + M) |-> IF i <= L THEN f[i] ELSE g[i - L]]
           u == w \o v
<1>3. /\ L \in Nat /\ M \in Nat /\ Len(u) = L + M
      /\ \A i \in 1..L : u[i] = w[i]
      /\ \A i \in 1..M : u[L + i] = v[i]
  BY ConcatIsSeq, SeqLength
<1>4. \A i \in 1..M : g[i] \in a..d /\ g[i] > b
  <2> SUFFICES ASSUME NEW i \in 1..M PROVE g[i] \in a..d /\ g[i] > b
    OBVIOUS
  <2>1. g[i] \in (b + 1)..d /\ Sends(c[g[i]], q, p)
    BY <1>2 DEF IsMessage
  <2>2. ~(g[i] \in (b + 1)..(a - 1))
    BY <2>1
  <2> QED BY <2>1, <2>2
<1>5. \A i \in 1..L : f[i] \in a..b
  BY <1>1
<1> HIDE DEF L, M, u
<1>6. h \in [1..(L + M) -> Nat]
  <2>1. ASSUME NEW i \in 1..(L + M) PROVE h[i] \in Nat
    BY <1>3, <1>4, <1>5
  <2> QED BY <2>1
<1>7. \A i \in 1..L : h[i] = f[i] /\ i \in 1..(L + M)
  BY <1>3
<1>8. \A i \in 1..M : h[L + i] = g[i] /\ L + i \in 1..(L + M)
  BY <1>3
<1>9. \A i \in 1..(L + M) : i \in 1..L \/ \E j \in 1..M : i = L + j
  <2> SUFFICES ASSUME NEW i \in 1..(L + M), i \notin 1..L PROVE \E j \in 1..M : i = L + j
    OBVIOUS
  <2>1. i - L \in 1..M /\ i = L + (i - L)
    BY <1>3
  <2> QED BY <2>1
<1> HIDE DEF h
<1>10. ASSUME NEW i \in 1..(L + M)
       PROVE  h[i] \in a..d /\ IsMessage(u[i], c[h[i]], coin, q, p)
  <2>1. CASE i \in 1..L
    <3>1. h[i] = f[i] /\ u[i] = w[i] /\ f[i] \in a..b
      BY <1>3, <1>5, <1>7, <2>1
    <3>2. IsMessage(w[i], c[f[i]], coin, q, p)
      BY <1>1, <2>1 DEF L
    <3> QED BY <3>1, <3>2
  <2>2. CASE \E j \in 1..M : i = L + j
    <3>1. PICK j \in 1..M : i = L + j
      BY <2>2
    <3>2. h[i] = g[j] /\ u[i] = v[j] /\ g[j] \in a..d
      BY <1>3, <1>4, <1>8, <3>1
    <3>3. IsMessage(v[j], c[g[j]], coin, q, p)
      BY <1>2, <3>1 DEF M
    <3> QED BY <3>2, <3>3
  <2> QED BY <1>9, <2>1, <2>2
<1>11. ASSUME NEW i \in 1..(L + M), NEW j \in 1..(L + M), i < j PROVE h[i] < h[j]
  <2>1. CASE j \in 1..L
    <3>1. i \in 1..L
      BY <1>3, <1>11, <2>1
    <3>2. f[i] < f[j]
      BY <1>1, <1>11, <2>1, <3>1 DEF L
    <3> QED BY <1>7, <2>1, <3>1, <3>2
  <2>2. CASE i \in 1..L /\ j \notin 1..L
    <3>1. PICK k \in 1..M : j = L + k
      BY <1>9, <2>2
    <3>2. h[i] \in a..b /\ h[j] > b /\ h[j] \in a..d
      BY <1>4, <1>5, <1>7, <1>8, <2>2, <3>1
    <3> QED BY <3>2
  <2>3. CASE i \notin 1..L /\ j \notin 1..L
    <3>1. PICK k \in 1..M : j = L + k
      BY <1>9, <2>3
    <3>2. PICK m \in 1..M : i = L + m
      BY <1>9, <2>3
    <3>3. m < k
      BY <1>3, <1>11, <3>1, <3>2
    <3>4. g[m] < g[k]
      BY <1>2, <3>3 DEF M
    <3> QED BY <1>8, <3>1, <3>2, <3>4
  <2> QED BY <2>1, <2>2, <2>3
<1>12. ASSUME NEW k \in a..d, Sends(c[k], q, p) PROVE \E i \in 1..(L + M) : h[i] = k
  <2>1. CASE k <= b
    <3>1. k \in a..b
      BY <2>1
    <3>2. PICK i \in 1..L : f[i] = k
      BY <1>1, <1>12, <3>1 DEF L
    <3> QED BY <1>7, <3>2
  <2>2. CASE ~(k <= b)
    <3>1. k \in (b + 1)..d
      BY <2>2
    <3>2. PICK i \in 1..M : g[i] = k
      BY <1>2, <1>12, <3>1 DEF M
    <3> QED BY <1>8, <3>2
  <2> QED BY <2>1, <2>2
<1>13. Holds(u, c, coin, q, p, a, d)
  <2>1. Len(u) = L + M
    BY <1>3
  <2>2. \A i \in 1..Len(u) :
            /\ h[i] \in a..d /\ IsMessage(u[i], c[h[i]], coin, q, p)
            /\ \A j \in 1..Len(u) : i < j => h[i] < h[j]
    BY <1>10, <1>11, <2>1
  <2>3. \A k \in a..d : Sends(c[k], q, p) => \E i \in 1..Len(u) : h[i] = k
    BY <1>12, <2>1
  <2>4. h \in [1..Len(u) -> Nat]
    BY <1>6, <2>1
  <2> QED BY <2>2, <2>3, <2>4, Zenon DEF Holds
<1> QED BY <1>13 DEF u

(* Whatever is on a link while its reader waits for a message of stage a   *)
(* begins with that message; without it the link has those after a.        *)
LEMMA HoldsHead ==
    ASSUME NEW c, NEW coin, NEW q, NEW p, NEW a \in Nat, NEW b \in Nat, NEW w, IsSeq(w),
           Holds(w, c, coin, q, p, a, b), w # << >>, Sends(c[a], q, p)
    PROVE  /\ IsMessage(Head(w), c[a], coin, q, p) /\ a <= b
           /\ Holds(Tail(w), c, coin, q, p, a + 1, b)
<1>1. PICK f \in [1..Len(w) -> Nat] :
        /\ \A i \in 1..Len(w) :
            /\ f[i] \in a..b /\ IsMessage(w[i], c[f[i]], coin, q, p)
            /\ \A j \in 1..Len(w) : i < j => f[i] < f[j]
        /\ \A k \in a..b : Sends(c[k], q, p) => \E i \in 1..Len(w) : f[i] = k
  BY DEF Holds
<1> DEFINE L == Len(w)
           v == Tail(w)
           g == [i \in 1..(L - 1) |-> f[i + 1]]
<1>2. /\ L \in Nat \ {0} /\ Len(v) = L - 1 /\ Head(w) = w[1]
      /\ \A i \in 1..(L - 1) : v[i] = w[i + 1]
  BY SeqLength, TailIsSeq
<1> HIDE DEF L, v
<1>3. 1 \in 1..L /\ f[1] \in a..b
  BY <1>1, <1>2 DEF L
<1>4. PICK i \in 1..L : f[i] = a
  <2>1. a \in a..b
    BY <1>3
  <2> QED BY <1>1, <2>1 DEF L
<1>5. f[1] = a
  <2>1. CASE i = 1
    BY <1>4, <2>1
  <2>2. CASE i # 1
    <3>1. 1 < i
      BY <1>2, <2>2
    <3>2. f[1] < f[i]
      BY <1>1, <1>3, <3>1 DEF L
    <3> QED BY <1>3, <1>4, <3>2
  <2> QED BY <2>1, <2>2
<1>6. IsMessage(w[1], c[a], coin, q, p)
  BY <1>1, <1>3, <1>5 DEF L
<1>7. \A j \in 1..(L - 1) : j + 1 \in 1..L /\ g[j] = f[j + 1] /\ g[j] \in (a + 1)..b
  <2> SUFFICES ASSUME NEW j \in 1..(L - 1)
               PROVE  j + 1 \in 1..L /\ g[j] = f[j + 1] /\ g[j] \in (a + 1)..b
    OBVIOUS
  <2>1. j + 1 \in 1..L /\ 1 < j + 1 /\ g[j] = f[j + 1]
    BY <1>2
  <2>2. f[1] < f[j + 1] /\ f[j + 1] \in a..b
    BY <1>1, <1>3, <2>1 DEF L
  <2> QED BY <1>5, <2>1, <2>2
<1>8. g \in [1..(L - 1) -> Nat]
  <2>1. ASSUME NEW j \in 1..(L - 1) PROVE g[j] \in Nat
    BY <1>7
  <2> QED BY <2>1
<1> HIDE DEF g
<1>9. ASSUME NEW j \in 1..(L - 1) PROVE IsMessage(v[j], c[g[j]], coin, q, p)
  <2>1. j + 1 \in 1..L /\ g[j] = f[j + 1] /\ v[j] = w[j + 1]
    BY <1>2, <1>7
  <2> QED BY <1>1, <2>1 DEF L
<1>10. ASSUME NEW j \in 1..(L - 1), NEW k \in 1..(L - 1), j < k PROVE g[j] < g[k]
  <2>1. j + 1 \in 1..L /\ k + 1 \in 1..L /\ j + 1 < k + 1
    BY <1>7, <1>10
  <2>2. f[j + 1] < f[k + 1]
    BY <1>1, <2>1 DEF L
  <2> QED BY <1>7, <2>2
<1>11. ASSUME NEW k \in (a + 1)..b, Sends(c[k], q, p) PROVE \E j \in 1..(L - 1) : g[j] = k
  <2>1. k \in a..b /\ k # a
    OBVIOUS
  <2>2. PICK j \in 1..L : f[j] = k
    BY <1>1, <1>11, <2>1 DEF L
  <2>3. j # 1
    BY <1>5, <2>1, <2>2
  <2>4. j - 1 \in 1..(L - 1) /\ (j - 1) + 1 = j
    BY <1>2, <2>3
  <2> QED BY <1>7, <2>2, <2>4
<1>12. Holds(v, c, coin, q, p, a + 1, b)
  <2>1. Len(v) = L - 1
    BY <1>2
  <2>2. \A j \in 1..Len(v) :
            /\ g[j] \in (a + 1)..b /\ IsMessage(v[j], c[g[j]], coin, q, p)
            /\ \A k \in 1..Len(v) : j < k => g[j] < g[k]
    BY <1>7, <1>9, <1>10, <2>1
  <2>3. \A k \in (a + 1)..b : Sends(c[k], q, p) => \E j \in 1..Len(v) : g[j] = k
    BY <1>11, <2>1
  <2>4. g \in [1..Len(v) -> Nat]
    BY <1>8, <2>1
  <2> QED BY <2>2, <2>3, <2>4, Zenon DEF Holds
<1> QED BY <1>2, <1>3, <1>6, <1>12 DEF v

(* Stages without a message can be left out in front.                      *)
LEMMA HoldsLater ==
    ASSUME NEW c, NEW coin, NEW q, NEW p, NEW a \in Nat, NEW b \in Nat, NEW d \in Nat, a <= d,
           NEW w, Holds(w, c, coin, q, p, a, b), \A k \in a..(d - 1) : ~Sends(c[k], q, p)
    PROVE  Holds(w, c, coin, q, p, d, b)
<1>1. PICK f \in [1..Len(w) -> Nat] :
        /\ \A i \in 1..Len(w) :
            /\ f[i] \in a..b /\ IsMessage(w[i], c[f[i]], coin, q, p)
            /\ \A j \in 1..Len(w) : i < j => f[i] < f[j]
        /\ \A k \in a..b : Sends(c[k], q, p) => \E i \in 1..Len(w) : f[i] = k
  BY DEF Holds
<1>2. ASSUME NEW i \in 1..Len(w) PROVE f[i] \in d..b
  <2>1. f[i] \in a..b /\ Sends(c[f[i]], q, p)
    BY <1>1 DEF IsMessage
  <2>2. ~(f[i] \in a..(d - 1))
    BY <2>1
  <2> QED BY <2>1, <2>2
<1>3. \A k \in d..b : k \in a..b
  OBVIOUS
<1> QED BY <1>1, <1>2, <1>3 DEF Holds

(* The first message alone is what some of the stages leave.               *)
LEMMA HoldsFirst ==
    ASSUME NEW c, NEW coin, NEW q, NEW p, NEW a \in Nat, NEW b \in Nat, NEW w, IsSeq(w),
           Holds(w, c, coin, q, p, a, b), w # << >>
    PROVE  \E k \in a..b : Holds(<<w[1]>>, c, coin, q, p, a, k)
<1>1. PICK f \in [1..Len(w) -> Nat] :
        /\ \A i \in 1..Len(w) :
            /\ f[i] \in a..b /\ IsMessage(w[i], c[f[i]], coin, q, p)
            /\ \A j \in 1..Len(w) : i < j => f[i] < f[j]
        /\ \A k \in a..b : Sends(c[k], q, p) => \E i \in 1..Len(w) : f[i] = k
  BY DEF Holds
<1> DEFINE L == Len(w)
<1>2. L \in Nat /\ 1 \in 1..L
  BY SeqLength
<1>3. f[1] \in a..b /\ IsMessage(w[1], c[f[1]], coin, q, p)
  BY <1>1, <1>2
<1>4. ASSUME NEW j \in a..f[1], j # f[1] PROVE ~Sends(c[j], q, p)
  <2> SUFFICES ASSUME Sends(c[j], q, p) PROVE FALSE
    OBVIOUS
  <2>1. j \in a..b /\ j < f[1]
    BY <1>3, <1>4
  <2>2. PICK i \in 1..L : f[i] = j
    BY <1>1, <2>1
  <2>3. i # 1 => f[1] < f[i]
    <3>1. i # 1 => 1 < i
      BY <1>2
    <3> QED BY <1>1, <1>2, <3>1
  <2> QED BY <1>3, <2>1, <2>2, <2>3
<1>5. f[1] \in Nat /\ f[1] \in a..f[1]
  BY <1>3
<1>6. Holds(<<w[1]>>, c, coin, q, p, a, f[1])
  BY <1>3, <1>4, <1>5, HoldsOne
<1> QED BY <1>3, <1>6

(* What party 1 sends may be changed in its contents.                      *)
LEMMA HoldsChanged ==
    ASSUME NEW c, NEW coin, NEW p, NEW a, NEW b, NEW w, NEW v, Len(v) = Len(w),
           Holds(w, c, coin, 1, p, a, b),
           \A i \in 1..Len(w) : DOMAIN v[i] = DOMAIN w[i] /\ v[i].tag = w[i].tag
    PROVE  Holds(v, c, coin, 1, p, a, b)
<1>1. ASSUME NEW i \in 1..Len(w), NEW g, IsMessage(w[i], g, coin, 1, p)
      PROVE  IsMessage(v[i], g, coin, 1, p)
  BY <1>1 DEF IsMessage
<1> QED BY <1>1 DEF Holds
-----------------------------------------------------------------------------
(* The course exists, however long. *)

CourseTo(c, coin, N) ==
    c[0] = FirstStage /\ \A k \in 0..(N - 1) : c[k + 1] = NextStage(coin, c[k])

(* Up to any stage: it is extended stage by stage.                         *)
LEMMA CourseUpTo ==
    ASSUME NEW coin, NEW N \in Nat
    PROVE  \E c : CourseTo(c, coin, N)
<1> DEFINE Good == {n \in 0..N : \E c : CourseTo(c, coin, n)}
<1>1. 0 \in Good
  <2> DEFINE c == [n \in {0} |-> FirstStage]
  <2>1. c[0] = FirstStage /\ 0..(0 - 1) = {} /\ 0 \in 0..N
    OBVIOUS
  <2> HIDE DEF c
  <2>2. CourseTo(c, coin, 0)
    BY <2>1 DEF CourseTo
  <2> QED BY <2>1, <2>2
<1>2. ASSUME NEW n \in 0..(N - 1), n \in Good PROVE n + 1 \in Good
  <2>1. PICK c : CourseTo(c, coin, n)
    BY <1>2
  <2> DEFINE next == NextStage(coin, c[n])
             d == [k \in 0..(n + 1) |-> IF k = n + 1 THEN next ELSE c[k]]
  <2> HIDE DEF next
  <2>2. \A k \in 0..n : d[k] = c[k]
    OBVIOUS
  <2>3. d[n + 1] = next
    OBVIOUS
  <2> HIDE DEF d
  <2>4. ASSUME NEW k \in 0..((n + 1) - 1) PROVE d[k + 1] = NextStage(coin, d[k])
    <3>1. CASE k = n
      BY <2>2, <2>3, <3>1 DEF next
    <3>2. CASE k # n
      <4>1. k \in 0..(n - 1) /\ k \in 0..n /\ k + 1 \in 0..n
        BY <3>2
      <4>2. c[k + 1] = NextStage(coin, c[k])
        BY <2>1, <4>1 DEF CourseTo
      <4> QED BY <2>2, <4>1, <4>2
    <3> QED BY <3>1, <3>2
  <2>5. d[0] = FirstStage
    BY <2>1, <2>2 DEF CourseTo
  <2>6. CourseTo(d, coin, n + 1) /\ n + 1 \in 0..N
    BY <2>4, <2>5 DEF CourseTo
  <2> QED BY <2>6
<1> HIDE DEF Good
<1>3. \A n \in 0..N : n \in Good
  BY <1>1, <1>2, UpTo
<1>4. N \in Good
  BY <1>3
<1> QED BY <1>4 DEF Good

(* Two of them agree as far as both go.                                    *)
LEMMA CoursesAgree ==
    ASSUME NEW coin, NEW N \in Nat, NEW M \in Nat, NEW c, NEW d,
           CourseTo(c, coin, N), CourseTo(d, coin, M), NEW n \in Nat, n <= N, n <= M
    PROVE  c[n] = d[n]
<1> DEFINE S == {k \in 0..n : c[k] = d[k]}
<1>1. 0 \in S
  BY DEF CourseTo
<1>2. ASSUME NEW k \in 0..(n - 1), k \in S PROVE k + 1 \in S
  <2>1. k \in 0..(N - 1) /\ k \in 0..(M - 1) /\ k + 1 \in 0..n
    OBVIOUS
  <2>2. c[k + 1] = NextStage(coin, c[k]) /\ d[k + 1] = NextStage(coin, d[k])
    BY <2>1 DEF CourseTo
  <2> QED BY <1>2, <2>1, <2>2
<1> HIDE DEF S
<1>3. \A k \in 0..n : k \in S
  BY <1>1, <1>2, UpTo
<1>4. n \in S
  BY <1>3
<1> QED BY <1>4 DEF S

(* So there is one without an end.                                         *)
LEMMA CourseExists ==
    ASSUME NEW coin
    PROVE  \E c : Course(c, coin)
<1> DEFINE Upto(n) == CHOOSE d : CourseTo(d, coin, n)
           c == [n \in Nat |-> Upto(n)[n]]
<1>1. \A n \in Nat : CourseTo(Upto(n), coin, n)
  BY CourseUpTo
<1> HIDE DEF Upto
<1>2. \A n \in Nat : c[n] = Upto(n)[n]
  OBVIOUS
<1> HIDE DEF c
<1>3. c[0] = FirstStage
  BY <1>1, <1>2 DEF CourseTo
<1>4. ASSUME NEW k \in Nat PROVE c[k + 1] = NextStage(coin, c[k])
  <2>1. Upto(k)[k] = Upto(k + 1)[k]
    BY <1>1, CoursesAgree
  <2>2. k \in 0..((k + 1) - 1) /\ k + 1 \in Nat
    OBVIOUS
  <2>3. Upto(k + 1)[k + 1] = NextStage(coin, Upto(k + 1)[k])
    BY <1>1, <2>2 DEF CourseTo
  <2> QED BY <1>2, <2>1, <2>2, <2>3
<1> QED BY <1>3, <1>4 DEF Course

-----------------------------------------------------------------------------
(* What a party says. *)

(* A message has a tag and a body.                                         *)
LEMMA MessageIs ==
    ASSUME NEW kind, NEW s, NEW body
    PROVE  /\ DOMAIN Message(kind, s, body) = {"tag", "body"}
           /\ Message(kind, s, body).tag = Tag(kind, s) /\ Message(kind, s, body).body = body
BY DEF Message

(* A message to one party.                                                 *)
LEMMA SayIs ==
    ASSUME NEW q \in Parties, NEW m
    PROVE  /\ DOMAIN Say(q, m) = Parties /\ Say(q, m)[q] = <<m>>
           /\ \A r \in Parties : r # q => Say(q, m)[r] = << >>
BY DEF Say, Silence

(* What is said in two parts.                                              *)
LEMMA AlsoIs ==
    ASSUME NEW first, NEW then
    PROVE  /\ DOMAIN Also(first, then) = Parties
           /\ \A r \in Parties : Also(first, then)[r] = first[r] \o then[r]
BY DEF Also

(* The empty sequence adds nothing.                                        *)
LEMMA ConcatEmpty ==
    ASSUME NEW w, IsSeq(w)
    PROVE  w \o << >> = w /\ << >> \o w = w
<1>1. PICK S : w \in Seq(S)
  BY DEF IsSeq
<1> QED BY <1>1

(* The first or second components of pairs.                                *)
Parts(pairs, i) == [k \in DOMAIN pairs |-> pairs[k][i]]

(* open_double sends one message to each neighbour.                        *)
LEMMA DoubleIs ==
    ASSUME NEW p \in Parties, NEW kind, NEW s, NEW pairs
    PROVE  /\ DOMAIN Double(p, kind, s, pairs) = Parties /\ Double(p, kind, s, pairs)[p] = << >>
           /\ Double(p, kind, s, pairs)[PrevOf(p)] =
                <<Message(kind, s, Parts(pairs, 2))>>
           /\ Double(p, kind, s, pairs)[NextOf(p)] =
                <<Message(kind, s, Parts(pairs, 1))>>
<1> DEFINE m2 == Message(kind, s, Parts(pairs, 2))
           m1 == Message(kind, s, Parts(pairs, 1))
           x == Say(PrevOf(p), m2)
           y == Say(NextOf(p), m1)
<1>1. Double(p, kind, s, pairs) = Also(x, y)
  BY DEF Double, Parts
<1> HIDE DEF m1, m2
<1>2. /\ x[p] = << >> /\ x[PrevOf(p)] = <<m2>> /\ x[NextOf(p)] = << >>
      /\ y[p] = << >> /\ y[PrevOf(p)] = << >> /\ y[NextOf(p)] = <<m1>>
  BY Neighbours, SayIs
<1> HIDE DEF x, y
<1>3. /\ DOMAIN Also(x, y) = Parties
      /\ Also(x, y)[p] = << >> \o << >>
      /\ Also(x, y)[PrevOf(p)] = <<m2>> \o << >>
      /\ Also(x, y)[NextOf(p)] = << >> \o <<m1>>
  <2>1. p \in Parties /\ PrevOf(p) \in Parties /\ NextOf(p) \in Parties
    BY Neighbours
  <2>2. /\ DOMAIN Also(x, y) = Parties
        /\ Also(x, y)[p] = x[p] \o y[p]
        /\ Also(x, y)[PrevOf(p)] = x[PrevOf(p)] \o y[PrevOf(p)]
        /\ Also(x, y)[NextOf(p)] = x[NextOf(p)] \o y[NextOf(p)]
    BY <2>1, AlsoIs, Zenon
  <2> QED BY <1>2, <2>2, Zenon
<1>4. << >> \o << >> = << >> /\ <<m2>> \o << >> = <<m2>> /\ << >> \o <<m1>> = <<m1>>
  BY ConcatEmpty, EmptyIsSeq, OneIsSeq
<1> QED BY <1>1, <1>3, <1>4 DEF m1, m2

(* The shares of a coin: each neighbour is told the component it misses.   *)
LEMMA CoinSharesAre ==
    ASSUME NEW p \in Parties, NEW kind, NEW s
    PROVE  LET d == CoinShares(p, kind, s)
           IN /\ DOMAIN d = Parties /\ d[p] = << >>
              /\ \A r \in Parties : r # p =>
                    d[r] = <<Message(kind, s, <<random.coin[NextOf(r)][s.coins]>>)>>
<1> DEFINE h == Halves(random.coin, p, s.coins)
           pairs == <<h>>
<1>1. h[1] = random.coin[PrevOf(p)][s.coins] /\ h[2] = random.coin[p][s.coins]
  BY DEF Halves
<1>2. CoinShares(p, kind, s) = Double(p, kind, s, pairs)
  BY DEF CoinShares, CoinPairs
<1> HIDE DEF h
<1>3. DOMAIN pairs = {1} /\ pairs[1] = h
  OBVIOUS
<1>4. Parts(pairs, 2) = <<h[2]>> /\ Parts(pairs, 1) = <<h[1]>>
  BY <1>3 DEF Parts
<1> HIDE DEF pairs
<1>5. LET d == CoinShares(p, kind, s)
      IN /\ DOMAIN d = Parties /\ d[p] = << >>
         /\ d[PrevOf(p)] = <<Message(kind, s, <<random.coin[p][s.coins]>>)>>
         /\ d[NextOf(p)] = <<Message(kind, s, <<random.coin[PrevOf(p)][s.coins]>>)>>
  <2>1. /\ DOMAIN Double(p, kind, s, pairs) = Parties /\ Double(p, kind, s, pairs)[p] = << >>
        /\ Double(p, kind, s, pairs)[PrevOf(p)] = <<Message(kind, s, Parts(pairs, 2))>>
        /\ Double(p, kind, s, pairs)[NextOf(p)] = <<Message(kind, s, Parts(pairs, 1))>>
    BY DoubleIs
  <2> QED BY <1>1, <1>2, <1>4, <2>1, Zenon
<1> QED BY <1>5, Neighbours

(* The verifiers of an instance other than p, seen from p.                 *)
LEMMA Verifiers ==
    ASSUME NEW p \in Parties, NEW k \in Parties, p # k
    PROVE  /\ OtherVerifier(p, k) \in Parties /\ ProofFrom(p, k) = k
           /\ OtherVerifier(p, k) # p /\ OtherVerifier(p, k) # k
           /\ \A q \in Parties : q # p /\ q # k => q = OtherVerifier(p, k)
BY Neighbours DEF OtherVerifier, ProofFrom, IsLeft

-----------------------------------------------------------------------------
(* Going along the course. *)

(* A party at stage k that goes on as next says does so along the course:  *)
(* it says what is to be said in the stages up to its new one, and has     *)
(* nothing to read in those between.                                       *)
Advances(p, next, c, coin, k) ==
    /\ IsState(next.s) /\ DOMAIN next.said = Parties /\ next.said[p] = << >>
    /\ \A q \in Parties : IsSeq(next.said[q])
    /\ \E d \in Nat :
        /\ k < d /\ ControlOf(next.s) = c[d] /\ TakesPart(c[d], p)
        /\ next.s.at \notin {"done", "aborted"}
        /\ \A j \in (k + 1)..(d - 1) : \A q \in Parties : ~Sends(c[j], q, p)
        /\ \A q \in Parties : q # p => Holds(next.said[q], c, coin, p, q, k + 1, d)

(* To the next stage, with a message to those that are sent one in it.     *)
LEMMA NextAdvances ==
    ASSUME NEW p \in Parties, NEW s, NEW said, NEW c, NEW coin, NEW k \in Nat,
           IsState(s), DOMAIN said = Parties, said[p] = << >>,
           ControlOf(s) = c[k + 1], TakesPart(c[k + 1], p), s.at \notin {"done", "aborted"},
           \A q \in Parties : q # p =>
               \/ ~Sends(c[k + 1], p, q) /\ said[q] = << >>
               \/ \E m : said[q] = <<m>> /\ IsMessage(m, c[k + 1], coin, p, q)
    PROVE  Advances(p, Then(s, said), c, coin, k)
<1>1. Then(s, said).s = s /\ Then(s, said).said = said
  BY DEF Then
<1>2. ASSUME NEW q \in Parties PROVE IsSeq(said[q])
  <2>1. said[q] = << >> \/ \E m : said[q] = <<m>>
    OBVIOUS
  <2> QED BY <2>1, EmptyIsSeq, OneIsSeq
<1>3. k + 1 \in Nat /\ k < k + 1 /\ (k + 1)..((k + 1) - 1) = {} /\ (k + 1)..(k + 1) = {k + 1}
  OBVIOUS
<1>4. ASSUME NEW q \in Parties, q # p PROVE Holds(said[q], c, coin, p, q, k + 1, k + 1)
  <2>1. CASE ~Sends(c[k + 1], p, q) /\ said[q] = << >>
    <3>1. \A j \in (k + 1)..(k + 1) : ~Sends(c[j], p, q)
      BY <1>3, <2>1
    <3>2. Holds(<< >>, c, coin, p, q, k + 1, k + 1)
      BY <3>1, HoldsNothing
    <3> QED BY <2>1, <3>2
  <2>2. CASE \E m : said[q] = <<m>> /\ IsMessage(m, c[k + 1], coin, p, q)
    <3>1. PICK m : said[q] = <<m>> /\ IsMessage(m, c[k + 1], coin, p, q)
      BY <2>2
    <3>2. k + 1 \in (k + 1)..(k + 1) /\ \A j \in (k + 1)..(k + 1) : j # k + 1 => ~Sends(c[j], p, q)
      BY <1>3
    <3>3. Holds(<<m>>, c, coin, p, q, k + 1, k + 1)
      BY <1>3, <3>1, <3>2, HoldsOne
    <3> QED BY <3>1, <3>3
  <2> QED BY <1>4, <2>1, <2>2
<1>5. \A j \in (k + 1)..((k + 1) - 1) : \A q \in Parties : ~Sends(c[j], q, p)
  BY <1>3
<1>6. \E d \in Nat :
        /\ k < d /\ ControlOf(s) = c[d] /\ TakesPart(c[d], p)
        /\ s.at \notin {"done", "aborted"}
        /\ \A j \in (k + 1)..(d - 1) : \A q \in Parties : ~Sends(c[j], q, p)
        /\ \A q \in Parties : q # p => Holds(said[q], c, coin, p, q, k + 1, d)
  BY <1>3, <1>4, <1>5
<1> QED BY <1>1, <1>2, <1>6 DEF Advances

(* The stage of a party in state s that is about to enter one of a kind.   *)
StageOf(s, kind) == [ControlOf(s) EXCEPT !.at = kind]

(* The tag of a message is that of its stage.                              *)
LEMMA TagIs ==
    ASSUME NEW s, NEW kind, NEW g, g = StageOf(s, kind)
    PROVE  Tag(kind, s) = Tag(g.at, g) /\ g.at = kind /\ g.coins = s.coins /\ g.prover = s.prover
<1>1. /\ g.at = kind /\ g.coins = s.coins /\ g.prover = s.prover
      /\ g.phase = s.phase /\ g.round = s.round
  BY DEF ControlOf, StageOf
<1> QED BY <1>1, Zenon DEF Tag

(* A coin's shares are the messages of its stage.                          *)
LEMMA CoinMessage ==
    ASSUME NEW p \in Parties, NEW q \in Parties, q # p, NEW kind \in {"seed", "coin"}, NEW s, NEW g,
           g = StageOf(s, kind)
    PROVE  \E m : CoinShares(p, kind, s)[q] = <<m>> /\ IsMessage(m, g, random.coin, p, q)
<1> DEFINE m == Message(kind, s, <<random.coin[NextOf(q)][s.coins]>>)
<1>1. CoinShares(p, kind, s)[q] = <<m>>
  BY CoinSharesAre
<1>2. Sends(g, p, q)
  BY TagIs DEF Sends
<1>3. IsMessage(m, g, random.coin, p, q)
  <2>1. m.tag = Tag(g.at, g) /\ DOMAIN m = {"tag", "body"}
    BY TagIs, MessageIs
  <2>2. m.body = <<random.coin[NextOf(q)][s.coins]>>
    BY MessageIs
  <2>3. s.coins = g.coins
    BY TagIs
  <2> HIDE DEF m
  <2> QED BY <1>2, <2>1, <2>2, <2>3 DEF IsMessage
<1> QED BY <1>1, <1>3

(* A party that is in a stage of its kind.                                 *)
LEMMA SameControl ==
    ASSUME NEW s, NEW kind, s.at = kind
    PROVE  StageOf(s, kind) = ControlOf(s)
BY DEF ControlOf, StageOf

(* Into a stage in which everybody tells its share of a coin.              *)
LEMMA CoinAdvances ==
    ASSUME NEW p \in Parties, NEW kind \in {"seed", "coin"}, NEW s, NEW c, NEW k \in Nat,
           IsState(s), s.at = kind, ControlOf(s) = c[k + 1]
    PROVE  Advances(p, Then(s, CoinShares(p, kind, s)), c, random.coin, k)
<1> DEFINE said == CoinShares(p, kind, s)
<1>1. c[k + 1] = StageOf(s, kind)
  BY SameControl
<1>2. DOMAIN said = Parties /\ said[p] = << >>
  BY CoinSharesAre
<1>3. \A q \in Parties : q # p => \E m : said[q] = <<m>> /\ IsMessage(m, c[k + 1], random.coin, p, q)
  BY <1>1, CoinMessage
<1>4. TakesPart(c[k + 1], p) /\ s.at \notin {"done", "aborted"}
  BY <1>1, TagIs DEF TakesPart
<1> HIDE DEF said
<1>5. Advances(p, Then(s, said), c, random.coin, k)
  BY <1>2, <1>3, <1>4, NextAdvances
<1> QED BY <1>5 DEF said

(* Into a stage in which a verifier tells the other one.                   *)
LEMMA VerifierAdvances ==
    ASSUME NEW p \in Parties, NEW kind \in {"residual", "evals"}, NEW s, NEW body, NEW c, NEW coin,
           NEW k \in Nat, IsState(s), s.at = kind, ControlOf(s) = c[k + 1], s.prover # p
    PROVE  Advances(p, Then(s, Say(OtherVerifier(p, s.prover), Message(kind, s, body))), c, coin, k)
<1> DEFINE o == OtherVerifier(p, s.prover)
           m == Message(kind, s, body)
           said == Say(o, m)
           g == c[k + 1]
<1>1. g = StageOf(s, kind)
  BY SameControl
<1>2. g.at = kind /\ g.prover = s.prover /\ m.tag = Tag(g.at, g) /\ DOMAIN m = {"tag", "body"}
  <2>1. m.tag = Tag(kind, s) /\ DOMAIN m = {"tag", "body"}
    BY MessageIs
  <2> HIDE DEF g, m
  <2>2. Tag(kind, s) = Tag(g.at, g) /\ g.at = kind /\ g.prover = s.prover
    BY <1>1, TagIs
  <2> QED BY <2>1, <2>2
<1>3. s.prover \in Parties
  BY DEF IsState
<1>4. o \in Parties /\ o # p /\ o # s.prover /\ \A q \in Parties : q # p /\ q # s.prover => q = o
  BY <1>3, Verifiers
<1> HIDE DEF o, m, g
<1>5. IsMessage(m, g, coin, p, o)
  BY <1>2, <1>4 DEF IsMessage, Sends
<1>6. \A q \in Parties : q # o /\ q # p => ~Sends(g, p, q)
  BY <1>2, <1>4 DEF Sends
<1>7. DOMAIN said = Parties /\ said[p] = << >> /\ said[o] = <<m>>
      /\ \A q \in Parties : q # o => said[q] = << >>
  BY <1>4, SayIs
<1>8. TakesPart(g, p) /\ s.at \notin {"done", "aborted"}
  BY <1>2 DEF TakesPart
<1> HIDE DEF said
<1>9. \A q \in Parties : q # p =>
               \/ ~Sends(g, p, q) /\ said[q] = << >>
               \/ \E n : said[q] = <<n>> /\ IsMessage(n, g, coin, p, q)
  BY <1>5, <1>6, <1>7
<1>10. Advances(p, Then(s, said), c, coin, k)
  BY <1>7, <1>8, <1>9, NextAdvances DEF g
<1> QED BY <1>10 DEF said, o, m

-----------------------------------------------------------------------------
(* The stages that follow. *)

(* From the start to the first round of the circuit.                       *)
LEMMA AfterStart ==
    ASSUME NEW c, NEW coin, Course(c, coin), NEW k \in Nat, c[k].at = "start"
    PROVE  c[k + 1] = LevelStage(c[k], 0)
BY Zenon DEF Course, NextStage

(* From a round to the next.                                               *)
LEMMA AfterLevel ==
    ASSUME NEW c, NEW coin, Course(c, coin), NEW k \in Nat, c[k].at = "level", c[k].phase + 1 < Sched.depth
    PROVE  c[k + 1] = LevelStage(c[k], c[k].phase + 1)
BY Zenon DEF Course, NextStage

(* From the last round to the seed.                                        *)
LEMMA AfterLastLevel ==
    ASSUME NEW c, NEW coin, Course(c, coin), NEW k \in Nat, c[k].at = "level", ~(c[k].phase + 1 < Sched.depth)
    PROVE  c[k + 1] = [c[k] EXCEPT !.at = "seed", !.phase = @ + 1]
BY Zenon DEF Course, NextStage

(* From the seed to the first instance.                                    *)
LEMMA AfterSeed ==
    ASSUME NEW c, NEW coin, Course(c, coin), NEW k \in Nat, c[k].at = "seed"
    PROVE  c[k + 1] = InstanceStage([c[k] EXCEPT !.coins = @ + 1], 0)
BY Zenon DEF Course, NextStage

(* From a proof to what the verifiers tell each other.                     *)
LEMMA AfterProof ==
    ASSUME NEW c, NEW coin, Course(c, coin), NEW k \in Nat, c[k].at = "proof"
    PROVE  c[k + 1] = [c[k] EXCEPT !.at = "residual"]
BY Zenon DEF Course, NextStage

(* From there to the coin.                                                 *)
LEMMA AfterResidual ==
    ASSUME NEW c, NEW coin, Course(c, coin), NEW k \in Nat, c[k].at = "residual"
    PROVE  c[k + 1] = [c[k] EXCEPT !.at = "coin"]
BY Zenon DEF Course, NextStage

(* From a coin to the next one, the next proof or the evaluations.         *)
LEMMA AfterCoin ==
    ASSUME NEW c, NEW coin, Course(c, coin), NEW k \in Nat, c[k].at = "coin"
    PROVE  c[k + 1] = CoinStage(c[k], TrueCoin(coin, c[k].coins))
BY Zenon DEF Course, NextStage

(* From an instance to the next.                                           *)
LEMMA AfterEvals ==
    ASSUME NEW c, NEW coin, Course(c, coin), NEW k \in Nat, c[k].at = "evals", c[k].prover < LastProver
    PROVE  c[k + 1] = InstanceStage(c[k], c[k].prover + 1)
BY Zenon DEF Course, NextStage

(* From the last instance to the opening.                                  *)
LEMMA AfterLastEvals ==
    ASSUME NEW c, NEW coin, Course(c, coin), NEW k \in Nat, c[k].at = "evals", ~(c[k].prover < LastProver)
    PROVE  c[k + 1] = [c[k] EXCEPT !.at = "open", !.len = 0, !.logs = 0]
BY Zenon DEF Course, NextStage

(* From the opening to the end.                                            *)
LEMMA AfterOpen ==
    ASSUME NEW c, NEW coin, Course(c, coin), NEW k \in Nat, c[k].at = "open"
    PROVE  c[k + 1] = [c[k] EXCEPT !.at = "done"]
BY Zenon DEF Course, NextStage

(* Into an instance or a further round of it: the prover sends its proof   *)
(* and goes on to the coin, a verifier waits for the proof.                *)
LEMMA RoundAdvances ==
    ASSUME NEW p \in Parties, NEW s, IsState(s), NEW c, Course(c, random.coin), NEW k \in Nat,
           NEW m \in Nat, k < m, c[m] = StageOf(s, "proof"),
           \A j \in (k + 1)..(m - 1) : \A q \in Parties : ~Sends(c[j], p, q) /\ ~Sends(c[j], q, p)
    PROVE  Advances(p, StartRound(p, s), c, random.coin, k)
<1>1. c[m].at = "proof" /\ c[m].prover = s.prover /\ s.prover \in Parties
  BY TagIs DEF IsState
<1>2. Tag("proof", s) = Tag(c[m].at, c[m])
  BY TagIs
<1>3. CASE s.prover = p
  <2> DEFINE proof == IF IsBase(s) THEN BaseProof(p, s) ELSE Proof(p, s)
             new == [s EXCEPT !.at = "coin", !.prng = @ + proof.drawn]
             m1 == Message("proof", s, proof.left)
             m2 == Message("proof", s, proof.right)
             x == Say(PrevOf(p), m1)
             y == Say(NextOf(p), m2)
             z == CoinShares(p, "coin", s)
             said == Also(Also(x, y), z)
  <2>1. StartRound(p, s) = Then(new, said)
    BY <1>3 DEF StartRound, IsProver
  <2> HIDE DEF proof
  <2>2. c[m + 1] = StageOf(s, "residual")
    <3>1. c[m + 1] = [c[m] EXCEPT !.at = "residual"]
      BY <1>1, AfterProof, Zenon
    <3> QED BY <3>1 DEF StageOf, ControlOf
  <2>3. c[m + 2] = StageOf(s, "coin")
    <3>1. m + 1 \in Nat /\ (m + 1) + 1 = m + 2 /\ c[m + 1].at = "residual"
      BY <2>2, TagIs
    <3>2. c[(m + 1) + 1] = [c[m + 1] EXCEPT !.at = "coin"]
      <4> DEFINE j == m + 1
      <4>1. j \in Nat /\ c[j].at = "residual"
        BY <3>1
      <4> HIDE DEF j
      <4>2. c[j + 1] = [c[j] EXCEPT !.at = "coin"]
        BY <4>1, AfterResidual, Zenon
      <4> QED BY <4>2 DEF j
    <3>3. c[m + 2] = [StageOf(s, "residual") EXCEPT !.at = "coin"]
      BY <2>2, <3>1, <3>2
    <3> QED BY <3>3 DEF StageOf, ControlOf
  <2>4. IsState(new) /\ ControlOf(new) = c[m + 2] /\ new.at = "coin"
    <3>1. new.at = "coin" /\ DOMAIN new = Fields /\ new.phase = s.phase /\ new.prover = s.prover
          /\ new.log = s.log /\ new.round = s.round /\ new.coins = s.coins /\ new.len = s.len
      BY DEF IsState, Fields
    <3> HIDE DEF new
    <3>2. IsState(new)
      BY <3>1 DEF IsState
    <3> QED BY <2>3, <3>1, <3>2 DEF StageOf, ControlOf
  <2> HIDE DEF new
  <2>5. /\ DOMAIN m1 = {"tag", "body"} /\ m1.tag = Tag("proof", s)
        /\ DOMAIN m2 = {"tag", "body"} /\ m2.tag = Tag("proof", s)
    BY MessageIs
  <2>6. \A q \in Parties : q # p => IsMessage(m1, c[m], random.coin, p, q)
                                 /\ IsMessage(m2, c[m], random.coin, p, q)
    <3> HIDE DEF m1, m2
    <3> QED BY <1>1, <1>2, <1>3, <2>5 DEF IsMessage, Sends
  <2> HIDE DEF m1, m2
  <2>7. /\ x[p] = << >> /\ x[PrevOf(p)] = <<m1>> /\ x[NextOf(p)] = << >>
        /\ y[p] = << >> /\ y[PrevOf(p)] = << >> /\ y[NextOf(p)] = <<m2>>
    BY Neighbours, SayIs
  <2>8. DOMAIN said = Parties /\ \A q \in Parties : said[q] = (x[q] \o y[q]) \o z[q]
    <3> HIDE DEF x, y, z
    <3>1. \A q \in Parties : Also(x, y)[q] = x[q] \o y[q]
      BY AlsoIs
    <3> DEFINE v == Also(x, y)
    <3> HIDE DEF v
    <3>2. DOMAIN Also(v, z) = Parties /\ \A q \in Parties : Also(v, z)[q] = v[q] \o z[q]
      BY AlsoIs
    <3> QED BY <3>1, <3>2, Zenon DEF v
  <2>9. z[p] = << >>
    BY CoinSharesAre
  <2>10. \A q \in Parties : q # p =>
            \E n : z[q] = <<n>> /\ IsMessage(n, c[m + 2], random.coin, p, q)
    BY <2>3, CoinMessage
  <2> HIDE DEF x, y, z, said
  <2>11. said[p] = << >>
    <3>1. (<< >> \o << >>) \o << >> = << >>
      BY ConcatEmpty, EmptyIsSeq
    <3> QED BY <2>7, <2>8, <2>9, <3>1
  <2>12. ASSUME NEW q \in Parties, q # p
         PROVE  IsSeq(said[q]) /\ Holds(said[q], c, random.coin, p, q, k + 1, m + 2)
    <3>1. PICK n : z[q] = <<n>> /\ IsMessage(n, c[m + 2], random.coin, p, q)
      BY <2>10, <2>12
    <3>2. PICK u : x[q] \o y[q] = <<u>> /\ IsMessage(u, c[m], random.coin, p, q)
      <4>1. CASE q = PrevOf(p)
        <5>1. x[q] \o y[q] = <<m1>>
          BY <2>7, <4>1, ConcatEmpty, OneIsSeq
        <5> QED BY <2>6, <2>12, <5>1
      <4>2. CASE q = NextOf(p)
        <5>1. x[q] \o y[q] = <<m2>>
          BY <2>7, <4>2, ConcatEmpty, OneIsSeq
        <5> QED BY <2>6, <2>12, <5>1
      <4> QED BY <2>12, <4>1, <4>2, Neighbours
    <3>3. said[q] = <<u>> \o <<n>>
      BY <2>8, <3>1, <3>2
    <3>4. Holds(<<u>>, c, random.coin, p, q, k + 1, m)
      <4>1. m \in (k + 1)..m /\ \A j \in (k + 1)..m : j # m => j \in (k + 1)..(m - 1)
        OBVIOUS
      <4>2. \A j \in (k + 1)..m : j # m => ~Sends(c[j], p, q)
        BY <4>1
      <4>3. k + 1 \in Nat
        OBVIOUS
      <4> QED BY <3>2, <4>1, <4>2, <4>3, HoldsOne
    <3>5. Holds(<<n>>, c, random.coin, p, q, m + 1, m + 2)
      <4>1. m + 2 \in (m + 1)..(m + 2) /\ \A j \in (m + 1)..(m + 2) : j # m + 2 => j = m + 1
        OBVIOUS
      <4>2. ~Sends(c[m + 1], p, q)
        <5>1. c[m + 1].at = "residual" /\ c[m + 1].prover = p
          BY <1>3, <2>2, TagIs
        <5> QED BY <5>1 DEF Sends
      <4>3. \A j \in (m + 1)..(m + 2) : j # m + 2 => ~Sends(c[j], p, q)
        BY <4>1, <4>2
      <4> QED BY <3>1, <4>1, <4>3, HoldsOne
    <3>6. IsSeq(<<u>>) /\ IsSeq(<<n>>)
      BY OneIsSeq
    <3>7. k + 1 \in Nat /\ m + 2 \in Nat /\ m <= m + 2 /\ (m + 1)..((k + 1) - 1) = {}
      OBVIOUS
    <3>8. \A j \in (m + 1)..((k + 1) - 1) : ~Sends(c[j], p, q)
      BY <3>7
    <3>9. Holds(<<u>> \o <<n>>, c, random.coin, p, q, k + 1, m + 2)
      BY <3>4, <3>5, <3>6, <3>7, <3>8, HoldsConcat
    <3> QED BY <3>3, <3>6, <3>9, ConcatIsSeq
  <2>13. \A q \in Parties : IsSeq(said[q])
    BY <2>11, <2>12, EmptyIsSeq
  <2>14. ASSUME NEW j \in (k + 1)..((m + 2) - 1), NEW q \in Parties PROVE ~Sends(c[j], q, p)
    <3>1. j \in (k + 1)..(m - 1) \/ j = m \/ j = m + 1
      BY <2>14
    <3>2. CASE j = m
      BY <1>1, <1>3, <3>2 DEF Sends
    <3>3. CASE j = m + 1
      <4>1. c[j].at = "residual" /\ c[j].prover = p
        BY <1>3, <2>2, <3>3, TagIs
      <4> QED BY <4>1 DEF Sends
    <3> QED BY <3>1, <3>2, <3>3
  <2>15. TakesPart(c[m + 2], p)
    <3>1. c[m + 2].at = "coin"
      BY <2>3, TagIs
    <3> QED BY <3>1 DEF TakesPart
  <2>16. Then(new, said).s = new /\ Then(new, said).said = said
    BY DEF Then
  <2>17. m + 2 \in Nat /\ k < m + 2
    OBVIOUS
  <2>18. \E d \in Nat :
        /\ k < d /\ ControlOf(new) = c[d] /\ TakesPart(c[d], p)
        /\ new.at \notin {"done", "aborted"}
        /\ \A j \in (k + 1)..(d - 1) : \A q \in Parties : ~Sends(c[j], q, p)
        /\ \A q \in Parties : q # p => Holds(said[q], c, random.coin, p, q, k + 1, d)
    BY <2>4, <2>12, <2>14, <2>15, <2>17
  <2> QED BY <2>1, <2>4, <2>8, <2>11, <2>13, <2>16, <2>18 DEF Advances
<1>4. CASE s.prover # p
  <2> DEFINE new == [s EXCEPT !.at = "proof"]
  <2>1. StartRound(p, s) = Then(new, Silence)
    BY <1>4 DEF StartRound, IsProver
  <2>2. IsState(new) /\ ControlOf(new) = c[m] /\ new.at = "proof"
    <3>1. new.at = "proof" /\ DOMAIN new = Fields /\ new.phase = s.phase /\ new.prover = s.prover
          /\ new.log = s.log /\ new.round = s.round /\ new.coins = s.coins /\ new.len = s.len
      BY DEF IsState, Fields
    <3> HIDE DEF new
    <3>2. IsState(new)
      BY <3>1 DEF IsState
    <3> QED BY <3>1, <3>2 DEF StageOf, ControlOf
  <2>3. DOMAIN Silence = Parties /\ \A q \in Parties : Silence[q] = << >>
    BY DEF Silence
  <2>4. ASSUME NEW q \in Parties PROVE Holds(<< >>, c, random.coin, p, q, k + 1, m)
    <3>1. \A j \in (k + 1)..m : j # m => j \in (k + 1)..(m - 1)
      OBVIOUS
    <3>2. ~Sends(c[m], p, q)
      BY <1>1, <1>4 DEF Sends
    <3>3. \A j \in (k + 1)..m : ~Sends(c[j], p, q)
      BY <3>1, <3>2
    <3> QED BY <3>3, HoldsNothing
  <2>5. TakesPart(c[m], p)
    BY <1>1, <1>4 DEF TakesPart
  <2> HIDE DEF new
  <2>6. Then(new, Silence).s = new /\ Then(new, Silence).said = Silence
    BY DEF Then
  <2>7. \E d \in Nat :
        /\ k < d /\ ControlOf(new) = c[d] /\ TakesPart(c[d], p)
        /\ new.at \notin {"done", "aborted"}
        /\ \A j \in (k + 1)..(d - 1) : \A q \in Parties : ~Sends(c[j], q, p)
        /\ \A q \in Parties : q # p => Holds(Silence[q], c, random.coin, p, q, k + 1, d)
    BY <2>2, <2>3, <2>4, <2>5
  <2> QED BY <2>1, <2>2, <2>3, <2>6, <2>7, EmptyIsSeq DEF Advances
<1> QED BY <1>3, <1>4

(* Into the instance that i proves.                                        *)
LEMMA InstanceAdvances ==
    ASSUME NEW p \in Parties, NEW s, IsState(s), NEW i \in Parties, NEW c, Course(c, random.coin),
           NEW k \in Nat, NEW m \in Nat, k < m, c[m] = InstanceStage(ControlOf(s), i),
           \A j \in (k + 1)..(m - 1) : \A q \in Parties : ~Sends(c[j], p, q) /\ ~Sends(c[j], q, p)
    PROVE  Advances(p, StartInstance(p, s, i), c, random.coin, k)
<1> DEFINE lambda == [g \in 1..Bits(s.log) |-> Gf64(Lambda(s.seed, i, g))]
           u == IF IsRight(p, i) THEN << >> ELSE VectorU(s.log, lambda, IF IsProver(p, i) THEN 1 ELSE 2)
           v == IF IsLeft(p, i) THEN << >> ELSE VectorV(s.log, IF IsProver(p, i) THEN 2 ELSE 1)
           t == IF IsLeft(p, i) THEN TargetLeft(s.log, lambda)
                ELSE IF IsRight(p, i) THEN TargetRight(s.log, lambda) ELSE Zero
           new == [s EXCEPT !.prover = i, !.round = 1, !.len = 2 * Bits(s.log),
                            !.u = u, !.v = v, !.tau = t]
<1>1. StartInstance(p, s, i) = StartRound(p, new)
  BY DEF StartInstance
<1> HIDE DEF u, v, t
<1>2. DOMAIN new = Fields /\ new.at = s.at /\ new.phase = s.phase /\ new.prover = i /\ new.round = 1
      /\ new.len = 2 * Bits(s.log) /\ new.log = s.log /\ new.coins = s.coins
  BY DEF IsState, Fields
<1>3. Bits(s.log) = LaneWidth * Len(s.log)
  BY DEF Bits
<1> HIDE DEF new
<1>4. IsState(new)
  BY <1>2 DEF IsState
<1>5. c[m] = StageOf(new, "proof")
  <2>1. c[m] = [at |-> "proof", phase |-> s.phase, prover |-> i, round |-> 1, coins |-> s.coins,
                len |-> 2 * (LaneWidth * Len(s.log)), logs |-> Len(s.log)]
    BY DEF ControlOf, InstanceStage
  <2>2. StageOf(new, "proof") =
            [at |-> "proof", phase |-> new.phase, prover |-> new.prover, round |-> new.round,
             coins |-> new.coins, len |-> new.len, logs |-> Len(new.log)]
    BY DEF ControlOf, StageOf
  <2> QED BY <1>2, <1>3, <2>1, <2>2
<1> QED BY <1>1, <1>4, <1>5, RoundAdvances

(* After the last stage of an instance: into the next one, or to the       *)
(* opening of the outputs.                                                 *)
LEMMA NextInstanceAdvances ==
    ASSUME NEW p \in Parties, NEW s, IsState(s), NEW c, Course(c, random.coin),
           NEW k \in Nat, NEW m \in Nat, k <= m, c[m] = StageOf(s, "evals"),
           \A j \in (k + 1)..m : \A q \in Parties : ~Sends(c[j], p, q) /\ ~Sends(c[j], q, p)
    PROVE  Advances(p, NextInstance(p, s), c, random.coin, k)
<1>1. c[m].at = "evals" /\ c[m].prover = s.prover /\ s.prover \in Parties
  BY TagIs DEF IsState
<1>2. /\ c[m].prover < LastProver => c[m + 1] = InstanceStage(c[m], c[m].prover + 1)
      /\ ~(c[m].prover < LastProver) =>
            c[m + 1] = [c[m] EXCEPT !.at = "open", !.len = 0, !.logs = 0]
  BY <1>1, AfterEvals, AfterLastEvals, Zenon
<1>3. CASE s.prover < LastProver
  <2>1. NextInstance(p, s) = StartInstance(p, s, s.prover + 1)
    BY <1>3 DEF NextInstance
  <2>2. s.prover + 1 \in Parties
    BY <1>1, <1>3 DEF Parties, LastProver
  <2>3. c[m + 1] = InstanceStage(ControlOf(s), s.prover + 1)
    <3>1. c[m + 1] = InstanceStage(StageOf(s, "evals"), s.prover + 1)
      BY <1>1, <1>2, <1>3
    <3> QED BY <3>1 DEF InstanceStage, StageOf, ControlOf
  <2>4. m + 1 \in Nat /\ k < m + 1 /\ (m + 1) - 1 = m
    OBVIOUS
  <2>5. \A j \in (k + 1)..((m + 1) - 1) : \A q \in Parties : ~Sends(c[j], p, q) /\ ~Sends(c[j], q, p)
    BY <2>4
  <2> DEFINE h == m + 1
             i == s.prover + 1
  <2> HIDE DEF h, i
  <2>6. Advances(p, StartInstance(p, s, i), c, random.coin, k)
    <3>1. h \in Nat /\ k < h /\ i \in Parties /\ c[h] = InstanceStage(ControlOf(s), i)
      BY <2>2, <2>3, <2>4 DEF h, i
    <3>2. \A j \in (k + 1)..(h - 1) : \A q \in Parties : ~Sends(c[j], p, q) /\ ~Sends(c[j], q, p)
      BY <2>5 DEF h
    <3> QED BY <3>1, <3>2, InstanceAdvances
  <2> QED BY <2>1, <2>6 DEF i
<1>4. CASE ~(s.prover < LastProver)
  <2> DEFINE pairs == [i \in DOMAIN Outputs |-> s.tape[Outputs[i]]]
             new == [s EXCEPT !.at = "open", !.log = Cleared(@), !.u = << >>, !.v = << >>,
                              !.pi = << >>, !.tau = Zero, !.mine = << >>, !.len = 0]
             said == Double(p, "open", new, pairs)
             d == m + 1
  <2>1. NextInstance(p, s) = Then(new, said)
    BY <1>4 DEF NextInstance
  <2> HIDE DEF pairs
  <2>2. DOMAIN new = Fields /\ new.at = "open" /\ new.phase = s.phase /\ new.prover = s.prover
        /\ new.log = << >> /\ new.len = 0 /\ new.round = s.round /\ new.coins = s.coins
    BY DEF IsState, Fields, Cleared
  <2> HIDE DEF new
  <2>3. IsState(new)
    BY <2>2, EmptyIsSeq DEF IsState
  <2>4. c[d] = ControlOf(new)
    <3>1. c[d] = [StageOf(s, "evals") EXCEPT !.at = "open", !.len = 0, !.logs = 0]
      BY <1>1, <1>2, <1>4
    <3> QED BY <2>2, <3>1, EmptyIsSeq DEF StageOf, ControlOf
  <2>5. Tag("open", new) = Tag(c[d].at, c[d]) /\ c[d].at = "open"
    BY <2>2, <2>4, SameControl, TagIs
  <2>6. DOMAIN said = Parties /\ said[p] = << >>
    BY DoubleIs
  <2>7. ASSUME NEW q \in Parties, q # p
        PROVE  \E n : said[q] = <<n>> /\ IsMessage(n, c[d], random.coin, p, q)
    <3> DEFINE n2 == Message("open", new, Parts(pairs, 2))
               n1 == Message("open", new, Parts(pairs, 1))
    <3>1. said[q] = <<n2>> \/ said[q] = <<n1>>
      BY <2>7, Neighbours, DoubleIs
    <3>2. /\ DOMAIN n1 = {"tag", "body"} /\ n1.tag = Tag("open", new)
          /\ DOMAIN n2 = {"tag", "body"} /\ n2.tag = Tag("open", new)
      BY MessageIs
    <3> HIDE DEF n1, n2, said, d
    <3>3. Sends(c[d], p, q)
      BY <2>5, <2>7 DEF Sends
    <3>4. IsMessage(n1, c[d], random.coin, p, q) /\ IsMessage(n2, c[d], random.coin, p, q)
      BY <2>5, <3>2, <3>3 DEF IsMessage
    <3> QED BY <3>1, <3>4
  <2>8. ASSUME NEW q \in Parties PROVE IsSeq(said[q])
    <3>1. said[q] = << >> \/ \E n : said[q] = <<n>>
      BY <2>6, <2>7
    <3> HIDE DEF said
    <3> QED BY <3>1, EmptyIsSeq, OneIsSeq
  <2>9. d \in Nat /\ k < d /\ k + 1 \in Nat /\ d - 1 = m
    OBVIOUS
  <2> HIDE DEF said, d
  <2>10. ASSUME NEW q \in Parties, q # p PROVE Holds(said[q], c, random.coin, p, q, k + 1, d)
    <3>1. PICK n : said[q] = <<n>> /\ IsMessage(n, c[d], random.coin, p, q)
      BY <2>7, <2>10
    <3>2. d \in (k + 1)..d /\ \A j \in (k + 1)..d : j # d => j \in (k + 1)..m
      BY <2>9
    <3>3. \A j \in (k + 1)..d : j # d => ~Sends(c[j], p, q)
      BY <3>2
    <3> QED BY <2>9, <3>1, <3>2, <3>3, HoldsOne
  <2>11. TakesPart(c[d], p) /\ new.at \notin {"done", "aborted"}
    BY <2>2, <2>5 DEF TakesPart
  <2>12. \A j \in (k + 1)..(d - 1) : \A q \in Parties : ~Sends(c[j], q, p)
    BY <2>9
  <2>13. Then(new, said).s = new /\ Then(new, said).said = said
    BY DEF Then
  <2>14. \E e \in Nat :
        /\ k < e /\ ControlOf(new) = c[e] /\ TakesPart(c[e], p)
        /\ new.at \notin {"done", "aborted"}
        /\ \A j \in (k + 1)..(e - 1) : \A q \in Parties : ~Sends(c[j], q, p)
        /\ \A q \in Parties : q # p => Holds(said[q], c, random.coin, p, q, k + 1, e)
    BY <2>4, <2>9, <2>10, <2>11, <2>12
  <2> QED BY <2>1, <2>3, <2>6, <2>8, <2>13, <2>14 DEF Advances
<1> QED BY <1>3, <1>4

-----------------------------------------------------------------------------
(* Reading. *)

(* Whom a party waits for sends it a message of the stage it is at.        *)
LEMMA AwaitedSend ==
    ASSUME NEW p \in Parties, IsState(me[p]), NEW g, ControlOf(me[p]) = g, TakesPart(g, p)
    PROVE  /\ DOMAIN Awaited(p) = 1..Len(Awaited(p)) /\ Len(Awaited(p)) \in Nat
           /\ \A i \in DOMAIN Awaited(p) :
                Awaited(p)[i] \in Parties /\ Awaited(p)[i] # p /\ Sends(g, Awaited(p)[i], p)
           /\ \A q \in Parties : Sends(g, q, p) => \E i \in DOMAIN Awaited(p) : Awaited(p)[i] = q
<1> DEFINE a == Awaited(p)
           s == me[p]
<1>1. g.at = s.at /\ g.prover = s.prover /\ s.prover \in Parties
  BY DEF ControlOf, IsState
<1>2. CASE s.at = "level"
  <2>1. a = <<NextOf(p)>>
    BY <1>2 DEF Awaited
  <2> HIDE DEF a
  <2>2. DOMAIN a = {1} /\ Len(a) = 1 /\ a[1] = NextOf(p) /\ 1..1 = {1}
    BY <2>1
  <2>3. \A q : Sends(g, q, p) <=> q = NextOf(p)
    BY <1>1, <1>2 DEF Sends
  <2> QED BY <2>2, <2>3, Neighbours DEF a
<1>3. CASE s.at \in {"seed", "coin", "open"}
  <2>1. a = <<NextOf(p), PrevOf(p)>>
    BY <1>3 DEF Awaited
  <2> HIDE DEF a
  <2>2. DOMAIN a = {1, 2} /\ Len(a) = 2 /\ a[1] = NextOf(p) /\ a[2] = PrevOf(p) /\ 1..2 = {1, 2}
    BY <2>1
  <2>3. \A q : Sends(g, q, p) <=> q # p
    BY <1>1, <1>3 DEF Sends
  <2> QED BY <2>2, <2>3, Neighbours DEF a
<1>4. CASE s.at = "proof"
  <2>1. a = <<ProofFrom(p, s.prover)>>
    BY <1>4 DEF Awaited
  <2>2. p # s.prover /\ ProofFrom(p, s.prover) = s.prover
    BY <1>1, <1>4, Verifiers DEF TakesPart
  <2> HIDE DEF a
  <2>3. DOMAIN a = {1} /\ Len(a) = 1 /\ a[1] = s.prover /\ 1..1 = {1}
    BY <2>1, <2>2
  <2>4. \A q : Sends(g, q, p) <=> q = s.prover
    BY <1>1, <1>4, <2>2 DEF Sends
  <2> QED BY <1>1, <2>2, <2>3, <2>4 DEF a
<1>5. CASE s.at \in {"residual", "evals"}
  <2> DEFINE o == OtherVerifier(p, s.prover)
  <2>1. a = <<o>>
    BY <1>5 DEF Awaited
  <2>2. p # s.prover
    BY <1>1, <1>5 DEF TakesPart
  <2>3. o \in Parties /\ o # p /\ o # s.prover /\ \A q \in Parties : q # p /\ q # s.prover => q = o
    BY <1>1, <2>2, Verifiers
  <2> HIDE DEF a, o
  <2>4. DOMAIN a = {1} /\ Len(a) = 1 /\ a[1] = o /\ 1..1 = {1}
    BY <2>1
  <2>5. \A q \in Parties : Sends(g, q, p) <=> q = o
    BY <1>1, <1>5, <2>2, <2>3 DEF Sends
  <2> QED BY <2>3, <2>4, <2>5 DEF a
<1>6. CASE s.at \notin {"level", "seed", "coin", "open", "proof", "residual", "evals"}
  <2>1. a = << >>
    BY <1>6 DEF Awaited
  <2> HIDE DEF a
  <2>2. DOMAIN a = {} /\ Len(a) = 0 /\ 1..0 = {}
    BY <2>1
  <2>3. \A q : ~Sends(g, q, p)
    BY <1>1, <1>6 DEF Sends
  <2> QED BY <2>2, <2>3 DEF a
<1> QED BY <1>2, <1>3, <1>4, <1>5, <1>6

(* A party that has not ended is on the course.                            *)
LEMMA PlaceOf ==
    ASSUME FormInv, NEW c, NEW n, Follows(c, n), NEW p \in Parties, ~Ended(p)
    PROVE  /\ IsState(me[p]) /\ ControlOf(me[p]) = c[n[p]] /\ TakesPart(c[n[p]], p) /\ n[p] \in Nat
           /\ c[n[p]].at = me[p].at /\ c[n[p]].prover = me[p].prover
           /\ c[n[p]].coins = me[p].coins /\ c[n[p]].phase = me[p].phase
<1>1. IsState(me[p]) /\ ControlOf(me[p]) = c[n[p]] /\ TakesPart(c[n[p]], p) /\ n[p] \in Nat
  BY DEF FormInv, Follows, OnCourse, Ended
<1> QED BY <1>1 DEF ControlOf

(* What a party finds on a link it reads is the message of its stage.      *)
LEMMA FoundMessage ==
    ASSUME FormInv, NEW c, NEW n, Follows(c, n), NEW p \in Parties, ~Ended(p),
           NEW q \in Parties, q # p, Sends(c[n[p]], q, p), Readable(q, p)
    PROVE  IsMessage(Incoming(q, p), c[n[p]], random.coin, q, p)
<1>1. n[p] \in Nat
  BY PlaceOf
<1>2. PICK b \in Nat : Holds(wire[<<q, p>>], c, random.coin, q, p, n[p], b)
  BY DEF Follows, Link
<1>3. IsSeq(wire[<<q, p>>]) /\ wire[<<q, p>>] # << >>
  BY DEF FormInv, Links, Readable
<1> QED BY <1>1, <1>2, <1>3, HoldsHead DEF Incoming

(* No message is taken for another.                                        *)
LEMMA InvInStep == IInv => InStep
<1> SUFFICES ASSUME IInv PROVE InStep
  OBVIOUS
<1>1. PICK c, n : Follows(c, n)
  BY DEF IInv
<1>2. ASSUME NEW p \in Parties, ~Ended(p), NEW i \in DOMAIN Awaited(p), Arrived(p, i)
      PROVE  Incoming(Awaited(p)[i], p).tag = Tag(me[p].at, me[p])
  <2> DEFINE q == Awaited(p)[i]
             g == c[n[p]]
  <2>1. IsState(me[p]) /\ ControlOf(me[p]) = g /\ TakesPart(g, p)
    BY <1>1, <1>2, PlaceOf DEF IInv
  <2>2. q \in Parties /\ q # p /\ Sends(g, q, p) /\ i \in 1..i
    BY <1>2, <2>1, AwaitedSend
  <2>3. Readable(q, p)
    BY <1>2, <2>2 DEF Arrived
  <2>4. IsMessage(Incoming(q, p), g, random.coin, q, p)
    BY <1>1, <1>2, <2>2, <2>3, FoundMessage DEF IInv
  <2>5. Tag(g.at, g) = Tag(me[p].at, me[p])
    BY <2>1 DEF Tag, ControlOf
  <2> QED BY <2>4, <2>5 DEF IsMessage
<1> QED BY <1>2 DEF InStep

(* A party that can read finds something from everyone it waits for.       *)
LEMMA CanReadAll ==
    ASSUME FormInv, NEW c, NEW n, Follows(c, n), NEW p \in Parties, ~Ended(p), CanRead(p)
    PROVE  \A q \in Parties : Sends(c[n[p]], q, p) => Readable(q, p)
<1>1. IsState(me[p]) /\ ControlOf(me[p]) = c[n[p]] /\ TakesPart(c[n[p]], p)
  BY PlaceOf
<1>2. \A j \in DOMAIN Awaited(p) : Readable(Awaited(p)[j], p)
  BY <1>1, AwaitedSend DEF CanRead, Arrived
<1> QED BY <1>1, <1>2, AwaitedSend

(* XOR is commutative and associative.                                     *)
LEMMA XorLaws ==
    ASSUME NEW x, NEW y, NEW z
    PROVE  x ## y = y ## x /\ (x ## y) ## z = x ## (y ## z)
BY DEF ##, SymDiff

(* A coin that both neighbours confirm is the one that was dealt: at most  *)
(* one of them is party 1.                                                 *)
LEMMA CoinIsTrue ==
    ASSUME FormInv, NEW c, NEW n, Follows(c, n), NEW p \in Parties, NEW kind \in {"seed", "coin"},
           Agreed(p, kind)
    PROVE  Coin(p) = TrueCoin(random.coin, c[n[p]].coins)
<1> DEFINE k == me[p].coins
           nx == NextOf(p)
           pv == PrevOf(p)
           x(q) == random.coin[q][k]
<1>1. me[p].at = kind /\ CanRead(p) /\ Confirmed(Body(p, 1), Body(p, 2)) /\ ~Ended(p)
  BY DEF Agreed, Waits, Ended
<1>2. c[n[p]].at = kind /\ c[n[p]].coins = k
  BY <1>1, PlaceOf
<1>3. nx \in Parties /\ pv \in Parties /\ nx # p /\ pv # p /\ NextOf(p) = nx /\ ~(nx = 1 /\ pv = 1)
  BY Neighbours
<1>4. Awaited(p) = <<nx, pv>>
  BY <1>1 DEF Awaited
<1>5. Body(p, 1) = Incoming(nx, p).body /\ Body(p, 2) = Incoming(pv, p).body
  BY <1>4 DEF Body
<1>6. Sends(c[n[p]], nx, p) /\ Sends(c[n[p]], pv, p)
  BY <1>2, <1>3 DEF Sends
<1>7. /\ IsMessage(Incoming(nx, p), c[n[p]], random.coin, nx, p)
      /\ IsMessage(Incoming(pv, p), c[n[p]], random.coin, pv, p)
  BY <1>1, <1>3, <1>6, CanReadAll, FoundMessage
<1>8. Body(p, 1) = <<x(nx)>>
  <2>1. nx # 1 => Body(p, 1) = <<x(nx)>>
    BY <1>2, <1>5, <1>7 DEF IsMessage
  <2>2. pv # 1 => Body(p, 2) = <<x(nx)>>
    BY <1>2, <1>5, <1>7 DEF IsMessage
  <2> QED BY <1>1, <1>3, <2>1, <2>2 DEF Confirmed
<1>9. Coin(p) = Gf64((x(pv) ## x(p)) ## x(nx))
  <2> DEFINE pairs == CoinPairs(p, me[p])
  <2>1. pairs = <<Halves(random.coin, p, k)>>
    BY DEF CoinPairs
  <2> HIDE DEF pairs
  <2>2. DOMAIN pairs = {1} /\ pairs[1][1] = x(pv) /\ pairs[1][2] = x(p)
    BY <2>1 DEF Halves
  <2>3. OpenedValue(p, pairs)[1] = pairs[1][1] ## pairs[1][2] ## Body(p, 1)[1]
    BY <2>2 DEF OpenedValue
  <2> QED BY <1>8, <2>2, <2>3 DEF Coin, pairs
<1>10. TrueCoin(random.coin, k) = Gf64((x(0) ## x(1)) ## x(2))
  BY DEF TrueCoin
<1>11. (x(pv) ## x(p)) ## x(nx) = (x(0) ## x(1)) ## x(2)
  <2>1. CASE p = 0
    <3>1. pv = 2 /\ nx = 1
      BY <2>1 DEF NextOf, PrevOf
    <3> HIDE DEF x
    <3>2. (x(2) ## x(0)) ## x(1) = (x(0) ## x(1)) ## x(2)
      BY XorLaws
    <3> QED BY <2>1, <3>1, <3>2
  <2>2. CASE p = 1
    <3>1. pv = 0 /\ nx = 2
      BY <2>2 DEF NextOf, PrevOf
    <3> QED BY <2>2, <3>1
  <2>3. CASE p = 2
    <3>1. pv = 1 /\ nx = 0
      BY <2>3 DEF NextOf, PrevOf
    <3> HIDE DEF x
    <3>2. (x(1) ## x(2)) ## x(0) = (x(0) ## x(1)) ## x(2)
      BY XorLaws
    <3> QED BY <2>3, <3>1, <3>2
  <2> QED BY <2>1, <2>2, <2>3 DEF Parties
<1> QED BY <1>2, <1>9, <1>10, <1>11

-----------------------------------------------------------------------------
(* What a step does to the links. *)

(* The reader of a link goes from stage a to stage d, and has read what it *)
(* waited for.                                                             *)
LEMMA LinkRead ==
    ASSUME NEW c, NEW coin, NEW q, NEW p, NEW a \in Nat, NEW b \in Nat, NEW d \in Nat, a < d,
           NEW w, IsSeq(w), Holds(w, c, coin, q, p, a, b),
           \A k \in 0..(a - 1) : Sends(c[k], q, p) => k <= b,
           Sends(c[a], q, p) => w # << >>, \A j \in (a + 1)..(d - 1) : ~Sends(c[j], q, p),
           NEW v, Sends(c[a], q, p) => v = Tail(w), ~Sends(c[a], q, p) => v = w
    PROVE  /\ IsSeq(v) /\ Holds(v, c, coin, q, p, d, b)
           /\ \A k \in 0..(d - 1) : Sends(c[k], q, p) => k <= b
<1>1. CASE Sends(c[a], q, p)
  <2>1. v = Tail(w) /\ w # << >>
    BY <1>1
  <2>2. IsSeq(v) /\ a <= b /\ Holds(v, c, coin, q, p, a + 1, b)
    BY <1>1, <2>1, HoldsHead, TailIsSeq
  <2>3. a + 1 \in Nat /\ a + 1 <= d
    OBVIOUS
  <2>4. Holds(v, c, coin, q, p, d, b)
    BY <2>2, <2>3, HoldsLater
  <2>5. ASSUME NEW k \in 0..(d - 1), Sends(c[k], q, p) PROVE k <= b
    <3>1. k \in 0..(a - 1) \/ k = a \/ k \in (a + 1)..(d - 1)
      OBVIOUS
    <3> QED BY <2>2, <2>5, <3>1
  <2> QED BY <2>2, <2>4, <2>5
<1>2. CASE ~Sends(c[a], q, p)
  <2>1. v = w
    BY <1>2
  <2>2. ASSUME NEW j \in a..(d - 1) PROVE ~Sends(c[j], q, p)
    <3>1. j = a \/ j \in (a + 1)..(d - 1)
      OBVIOUS
    <3> QED BY <1>2, <3>1
  <2>3. Holds(w, c, coin, q, p, d, b)
    BY <2>2, HoldsLater
  <2>4. ASSUME NEW k \in 0..(d - 1), Sends(c[k], q, p) PROVE k <= b
    <3>1. k \in 0..(a - 1) \/ k \in a..(d - 1)
      OBVIOUS
    <3> QED BY <2>2, <2>4, <3>1
  <2> QED BY <2>1, <2>3, <2>4
<1> QED BY <1>1, <1>2

(* The writer of a link goes from stage b to stage d.                      *)
LEMMA LinkWritten ==
    ASSUME NEW c, NEW coin, NEW q, NEW p, NEW a \in Nat, NEW b \in Nat, NEW d \in Nat, b <= d,
           NEW w, IsSeq(w), Holds(w, c, coin, q, p, a, b),
           \A k \in 0..(a - 1) : Sends(c[k], q, p) => k <= b,
           NEW v, IsSeq(v), Holds(v, c, coin, q, p, b + 1, d)
    PROVE  /\ IsSeq(w \o v) /\ Holds(w \o v, c, coin, q, p, a, d)
           /\ \A k \in 0..(a - 1) : Sends(c[k], q, p) => k <= d
<1>1. \A k \in (b + 1)..(a - 1) : k \in 0..(a - 1) /\ ~(k <= b)
  OBVIOUS
<1>2. \A k \in (b + 1)..(a - 1) : ~Sends(c[k], q, p)
  BY <1>1
<1>3. Holds(w \o v, c, coin, q, p, a, d)
  BY <1>2, HoldsConcat
<1> QED BY <1>3, ConcatIsSeq

(* What goes out is what is said, but for the contents of a message of     *)
(* party 1.                                                                *)
LEMMA OutgoingHolds ==
    ASSUME NEW p \in Parties, NEW said, DOMAIN said = Parties, \A q \in Parties : IsSeq(said[q]),
           NEW c, NEW coin, NEW a, NEW b, said[p] = << >>,
           \A q \in Parties : q # p => Holds(said[q], c, coin, p, q, a, b),
           NEW o \in Outgoing(p, said)
    PROVE  \A q \in Parties : q # p => IsSeq(o.said[q]) /\ Holds(o.said[q], c, coin, p, q, a, b)
<1>1. CASE o = [said |-> said, flips |-> flips]
  BY <1>1
<1>2. CASE o # [said |-> said, flips |-> flips]
  <2>1. p = 1 /\ \E i \in Items(said) :
            o = [said |-> [said EXCEPT ![i[1]][i[2]].body[i[3]] = @ ## {0}], flips |-> flips + 1]
    BY <1>2 DEF Outgoing
  <2>2. PICK i \in Items(said) :
            o = [said |-> [said EXCEPT ![i[1]][i[2]].body[i[3]] = @ ## {0}], flips |-> flips + 1]
    BY <2>1
  <2>3. i[1] \in Parties /\ i[2] \in DOMAIN said[i[1]]
    BY DEF Items
  <2> DEFINE r == i[1]
             t == i[2]
             m == said[r][t]
             body == [m.body EXCEPT ![i[3]] = @ ## {0}]
             new == [m EXCEPT !.body = body]
             v == [said[r] EXCEPT ![t] = new]
  <2>4. o.said = [said EXCEPT ![r] = v]
    BY <2>2
  <2> HIDE DEF r, t, body
  <2>5. \A q \in Parties : o.said[q] = IF q = r THEN v ELSE said[q]
    BY <2>3, <2>4 DEF r
  <2>6. IsSeq(v) /\ Len(v) = Len(said[r])
    <3>1. PICK S : said[r] \in Seq(S)
      BY <2>3 DEF IsSeq, r
    <3>2. said[r] \in Seq(S \cup {new})
      BY <3>1
    <3> HIDE DEF new
    <3>3. t \in 1..Len(said[r])
      BY <2>3, SeqLength DEF r, t
    <3>4. v \in Seq(S \cup {new}) /\ Len(v) = Len(said[r])
      BY <3>2, <3>3, ExceptSeq
    <3> QED BY <3>4 DEF IsSeq
  <2>7. \A j \in 1..Len(said[r]) : DOMAIN v[j] = DOMAIN said[r][j] /\ v[j].tag = said[r][j].tag
    <3> SUFFICES ASSUME NEW j \in 1..Len(said[r])
                 PROVE  DOMAIN v[j] = DOMAIN said[r][j] /\ v[j].tag = said[r][j].tag
      OBVIOUS
    <3>1. j \in DOMAIN said[r]
      BY <2>3, SeqLength DEF r
    <3>2. CASE j = t
      <4>1. v[j] = new /\ said[r][j] = m
        BY <3>1, <3>2
      <4>2. "tag" \in DOMAIN m
        <5>1. r # p
          BY <3>1, <2>1
        <5>2. Holds(said[r], c, coin, p, r, a, b)
          BY <2>3, <5>1 DEF r
        <5>3. PICK f : IsMessage(said[r][j], c[f[j]], coin, p, r)
          BY <5>2 DEF Holds
        <5> QED BY <4>1, <5>3 DEF IsMessage
      <4> HIDE DEF m
      <4>3. DOMAIN new = DOMAIN m /\ new.tag = m.tag
        BY <4>2
      <4> QED BY <4>1, <4>3
    <3>3. CASE j # t
      BY <3>1, <3>3
    <3> QED BY <3>2, <3>3
  <2> HIDE DEF v, new, m
  <2>8. ASSUME NEW q \in Parties, q # p PROVE IsSeq(o.said[q]) /\ Holds(o.said[q], c, coin, p, q, a, b)
    <3>1. CASE q = r
      <4>1. o.said[q] = v
        BY <2>5, <3>1
      <4>2. Holds(said[r], c, coin, 1, q, a, b)
        BY <2>1, <2>8, <3>1
      <4>3. Holds(v, c, coin, 1, q, a, b)
        BY <2>6, <2>7, <4>2, HoldsChanged
      <4> QED BY <2>1, <2>6, <4>1, <4>3
    <3>2. CASE q # r
      BY <2>5, <2>8, <3>2
    <3> QED BY <3>1, <3>2
  <2> QED BY <2>8
<1> QED BY <1>1, <1>2

(* A party at stage k ends as s says: at stage e when it has returned, and *)
(* after some of what it has to say when it has failed.                    *)
EndsAt(p, said, s, c, coin, k, e) ==
    /\ IsState(s) /\ (s.at = "aborted" \/ (s.at = "done" /\ ControlOf(s) = c[e]))
    /\ \A q \in Parties : q # p =>
            /\ IsSeq(said[q])
            /\ \E d \in Nat : /\ k <= d /\ (s.at = "done" => d = e)
                              /\ Holds(said[q], c, coin, p, q, k + 1, d)

(* A party returns, or fails.                                              *)
LEMMA LeavesFollow ==
    ASSUME FormInv, NEW c, NEW n, Follows(c, n), NEW p \in Parties, ~Ended(p), NEW said, NEW s,
           NEW e \in Nat, n[p] <= e, EndsAt(p, said, s, c, random.coin, n[p], e),
           Leaves(p, said), me' = [me EXCEPT ![p] = s], random' = random
    PROVE  IInv'
<1> DEFINE coin == random.coin
           n2 == [n EXCEPT ![p] = e]
<1>0. /\ IsState(s) /\ (s.at = "aborted" \/ (s.at = "done" /\ ControlOf(s) = c[e]))
      /\ \A q \in Parties : q # p =>
            /\ IsSeq(said[q])
            /\ \E d \in Nat : /\ n[p] <= d /\ (s.at = "done" => d = e)
                              /\ Holds(said[q], c, random.coin, p, q, n[p] + 1, d)
  BY DEF EndsAt
<1>1. /\ transport = "channel" /\ gone = {q \in Parties : Ended(q)}
      /\ DOMAIN wire = Links /\ \A l \in Links : IsSeq(wire[l])
      /\ DOMAIN me = Parties /\ \A q \in Parties : IsState(me[q])
  BY DEF FormInv
<1>2. /\ gone' = gone \cup {p} /\ transport' = transport
      /\ wire' = [l \in Links |-> IF l[2] = p THEN << >>
                                  ELSE IF l[1] = p THEN wire[l] \o said[l[2]] ELSE wire[l]]
  BY DEF Leaves
<1>3. Course(c, coin) /\ n \in [Parties -> Nat] /\ me[p].at # "aborted"
  BY DEF Follows, Ended
<1>4. me'[p] = s /\ \A q \in Parties : q # p => me'[q] = me[q]
  BY <1>1
<1>5. n2 \in [Parties -> Nat] /\ n2[p] = e /\ \A q \in Parties : q # p => n2[q] = n[q]
  BY <1>3
<1> HIDE DEF n2, coin
<1>6. ASSUME NEW q \in Parties, q # p
      PROVE  /\ <<p, q>> \in Links /\ wire'[<<p, q>>] = wire[<<p, q>>] \o said[q]
             /\ <<q, p>> \in Links /\ wire'[<<q, p>>] = << >>
             /\ \A r \in Parties : r # p /\ r # q =>
                    <<r, q>> \in Links /\ wire'[<<r, q>>] = wire[<<r, q>>]
  <2>1. <<p, q>> \in Links /\ <<q, p>> \in Links /\ \A r \in Parties : r # q => <<r, q>> \in Links
    BY <1>6 DEF Links
  <2> QED BY <1>2, <1>6, <2>1
<1>7. FormInv'
  <2>1. gone' = {q \in Parties : Ended(q)}'
    BY <1>0, <1>1, <1>2, <1>4 DEF Ended
  <2>2. DOMAIN wire' = Links
    BY <1>2
  <2>3. ASSUME NEW l \in Links PROVE IsSeq(wire'[l])
    <3>1. l[1] \in Parties /\ l[2] \in Parties /\ l[1] # l[2] /\ IsSeq(wire[l])
      BY <1>1 DEF Links
    <3>2. CASE l[2] = p
      BY <1>2, <3>2, EmptyIsSeq
    <3>3. CASE l[2] # p /\ l[1] = p
      <4>1. wire'[l] = wire[l] \o said[l[2]] /\ IsSeq(said[l[2]])
        BY <1>0, <1>2, <3>1, <3>3
      <4> QED BY <3>1, <4>1, ConcatIsSeq
    <3>4. CASE l[2] # p /\ l[1] # p
      <4>1. wire'[l] = wire[l]
        BY <1>2, <3>4
      <4> QED BY <3>1, <4>1
    <3> QED BY <3>2, <3>3, <3>4
  <2>4. DOMAIN me' = Parties /\ \A q \in Parties : IsState(me'[q])
    BY <1>0, <1>1, <1>4
  <2> QED BY <1>1, <1>2, <2>1, <2>2, <2>3, <2>4 DEF FormInv
<1>8. ASSUME NEW q \in Parties PROVE OnCourse(c, n2, q)'
  <2>1. CASE q = p
    <3>1. CASE s.at = "done" /\ ControlOf(s) = c[e]
      <4>1. c[e].at = "done"
        BY <3>1 DEF ControlOf
      <4> QED BY <1>4, <1>5, <2>1, <3>1, <4>1 DEF OnCourse, TakesPart
    <3>2. CASE s.at = "aborted"
      BY <1>4, <2>1, <3>2 DEF OnCourse
    <3> QED BY <1>0, <3>1, <3>2
  <2>2. CASE q # p
    <3>1. OnCourse(c, n, q) /\ me'[q] = me[q] /\ n2[q] = n[q]
      BY <1>4, <1>5, <2>2 DEF Follows
    <3> QED BY <3>1 DEF OnCourse
  <2> QED BY <2>1, <2>2
<1>9. ASSUME NEW q \in Parties, NEW r \in Parties, q # r, ~Ended(r)' PROVE Link(c, n2, q, r)'
  <2>1. r # p /\ ~Ended(r)
    <3>1. r # p
      BY <1>0, <1>4, <1>9 DEF Ended
    <3> QED BY <1>4, <1>9, <3>1 DEF Ended
  <2>2. PICK b \in Nat :
            /\ Holds(wire[<<q, r>>], c, coin, q, r, n[r], b)
            /\ \A k \in 0..(n[r] - 1) : Sends(c[k], q, r) => k <= b
            /\ me[q].at # "aborted" => b = n[q]
    BY <1>9, <2>1 DEF Follows, Link, coin
  <2>3. n2[r] = n[r] /\ n[r] \in Nat /\ n[p] \in Nat
    BY <1>3, <1>5, <2>1
  <2>4. CASE q = p
    <3>1. b = n[p]
      BY <1>3, <2>2, <2>4
    <3>2. PICK d \in Nat : /\ n[p] <= d /\ (s.at = "done" => d = e)
                           /\ Holds(said[r], c, coin, p, r, n[p] + 1, d)
      BY <1>0, <2>1 DEF coin
    <3>3. IsSeq(said[r]) /\ IsSeq(wire[<<p, r>>])
      BY <1>0, <1>1, <1>6, <2>1
    <3> DEFINE w == wire[<<p, r>>]
               v == said[r]
    <3>4. wire'[<<p, r>>] = w \o v
      BY <1>6, <2>1
    <3>5. IsSeq(w) /\ IsSeq(v) /\ Holds(w, c, coin, p, r, n[r], n[p])
          /\ Holds(v, c, coin, p, r, n[p] + 1, d)
          /\ \A k \in 0..(n[r] - 1) : Sends(c[k], p, r) => k <= n[p]
      BY <2>2, <2>4, <3>1, <3>2, <3>3
    <3> HIDE DEF w, v
    <3>6. Holds(w \o v, c, coin, p, r, n[r], d) /\ \A k \in 0..(n[r] - 1) : Sends(c[k], p, r) => k <= d
      BY <2>3, <3>2, <3>5, LinkWritten
    <3>7. me'[p].at # "aborted" => d = n2[p]
      BY <1>0, <1>4, <1>5, <3>2
    <3> QED BY <2>3, <2>4, <3>4, <3>6, <3>7 DEF Link, coin
  <2>5. CASE q # p
    <3>1. wire'[<<q, r>>] = wire[<<q, r>>] /\ me'[q] = me[q] /\ n2[q] = n[q]
      BY <1>4, <1>5, <1>6, <1>9, <2>1, <2>5
    <3> QED BY <2>2, <2>3, <3>1 DEF Link, coin
  <2> QED BY <2>4, <2>5
<1>10. Course(c, random'.coin)
  BY <1>3 DEF coin
<1>11. Follows(c, n2)'
  BY <1>5, <1>8, <1>9, <1>10 DEF Follows
<1> QED BY <1>7, <1>11 DEF IInv

(* A party goes on along the course, or fails half way.                    *)
LEMMA GoesFollow ==
    ASSUME FormInv, NEW c, NEW n, Follows(c, n), NEW p \in Parties, ~Ended(p), CanRead(p),
           NEW next, Advances(p, next, c, random.coin, n[p]), Goes(p, next)
    PROVE  IInv'
<1> DEFINE coin == random.coin
           s == next.s
           said == next.said
           k == n[p]
<1>1. /\ transport = "channel" /\ gone = {q \in Parties : Ended(q)}
      /\ DOMAIN wire = Links /\ \A l \in Links : IsSeq(wire[l])
      /\ DOMAIN me = Parties /\ \A q \in Parties : IsState(me[q])
  BY DEF FormInv
<1>2. Course(c, coin) /\ n \in [Parties -> Nat] /\ me[p].at # "aborted"
  BY DEF Follows, Ended
<1>3. /\ IsState(s) /\ DOMAIN said = Parties /\ said[p] = << >>
      /\ \A q \in Parties : IsSeq(said[q])
  BY DEF Advances
<1>4. PICK e \in Nat :
        /\ k < e /\ ControlOf(s) = c[e] /\ TakesPart(c[e], p) /\ s.at \notin {"done", "aborted"}
        /\ \A j \in (k + 1)..(e - 1) : \A q \in Parties : ~Sends(c[j], q, p)
        /\ \A q \in Parties : q # p => Holds(said[q], c, coin, p, q, k + 1, e)
  BY DEF Advances
<1>5. k \in Nat
  BY <1>2
<1>6. CASE \E q \in gone : said[q] # << >>
  <2> DEFINE partial == IF PrevOf(p) \in gone \/ said[PrevOf(p)] = << >> THEN Silence
                        ELSE Say(PrevOf(p), said[PrevOf(p)][1])
             t == [me[p] EXCEPT !.at = "aborted"]
  <2>1. Aborts(p, partial)
    BY <1>6 DEF Goes
  <2>2. Leaves(p, partial) /\ me' = [me EXCEPT ![p] = t] /\ random' = random
    BY <2>1 DEF Aborts
  <2>3. IsState(t) /\ t.at = "aborted"
    BY <1>1 DEF IsState, Fields
  <2> HIDE DEF t
  <2>4. ASSUME NEW q \in Parties, q # p
        PROVE  IsSeq(partial[q]) /\ \E d \in Nat : k <= d /\ Holds(partial[q], c, coin, p, q, k + 1, d)
    <3>1. CASE partial[q] = << >>
      <4>1. (k + 1)..k = {}
        BY <1>5
      <4>2. Holds(<< >>, c, coin, p, q, k + 1, k)
        BY <4>1, HoldsNothing
      <4> QED BY <1>5, <3>1, <4>2, EmptyIsSeq
    <3>2. CASE partial[q] # << >>
      <4>1. partial # Silence
        BY <3>2 DEF Silence
      <4>2. partial = Say(PrevOf(p), said[PrevOf(p)][1]) /\ said[PrevOf(p)] # << >>
        BY <4>1
      <4>3. q = PrevOf(p)
        BY <2>4, <3>2, <4>2, SayIs, Neighbours
      <4>4. partial[q] = <<said[q][1]>>
        BY <4>2, <4>3, SayIs
      <4> DEFINE w == said[q]
      <4>5. IsSeq(w) /\ w # << >> /\ Holds(w, c, coin, p, q, k + 1, e) /\ k + 1 \in Nat
        BY <1>3, <1>4, <1>5, <2>4, <4>2, <4>3
      <4> HIDE DEF w
      <4>6. PICK d \in (k + 1)..e : Holds(<<w[1]>>, c, coin, p, q, k + 1, d)
        BY <1>4, <4>5, HoldsFirst
      <4>7. d \in Nat /\ k <= d
        BY <1>5
      <4>8. partial[q] = <<w[1]>>
        BY <4>4 DEF w
      <4> QED BY <4>6, <4>7, <4>8, OneIsSeq
    <3> QED BY <3>1, <3>2
  <2> HIDE DEF partial
  <2>5. EndsAt(p, partial, t, c, random.coin, n[p], n[p])
    BY <2>3, <2>4 DEF EndsAt
  <2>6. n[p] \in Nat /\ n[p] <= n[p]
    BY <1>5
  <2> HIDE DEF k, coin, said, s
  <2> QED BY <2>2, <2>5, <2>6, LeavesFollow, Zenon
<1>7. CASE ~\E q \in gone : said[q] # << >>
  <2>1. PICK o \in Outgoing(p, said) :
            wire' = [l \in Links |->
                         IF l[1] = p THEN wire[l] \o o.said[l[2]]
                         ELSE IF l[2] = p /\ \E i \in DOMAIN Awaited(p) : Awaited(p)[i] = l[1]
                                THEN Tail(wire[l]) ELSE wire[l]]
    BY <1>7 DEF Goes
  <2>2. me' = [me EXCEPT ![p] = s] /\ UNCHANGED <<transport, gone, random>>
    BY <1>7 DEF Goes
  <2>3. \A q \in Parties : q # p => IsSeq(o.said[q]) /\ Holds(o.said[q], c, coin, p, q, k + 1, e)
    <3> HIDE DEF said, coin, k
    <3> QED BY <1>3, <1>4, OutgoingHolds
  <2> DEFINE n2 == [n EXCEPT ![p] = e]
             out == o.said
  <2>4. me'[p] = s /\ \A q \in Parties : q # p => me'[q] = me[q]
    BY <1>1, <2>2
  <2>5. n2 \in [Parties -> Nat] /\ n2[p] = e /\ \A q \in Parties : q # p => n2[q] = n[q]
    BY <1>2, <1>4
  <2>6. IsState(me[p]) /\ ControlOf(me[p]) = c[k] /\ TakesPart(c[k], p)
    BY PlaceOf
  <2>7. \A q \in Parties : Sends(c[k], q, p) <=> \E i \in DOMAIN Awaited(p) : Awaited(p)[i] = q
    BY <2>6, AwaitedSend
  <2>8. \A q \in Parties : Sends(c[k], q, p) => wire[<<q, p>>] # << >>
    BY CanReadAll DEF Readable
  <2> HIDE DEF n2, out, s, said, coin, k
  <2>9. ASSUME NEW q \in Parties, q # p
        PROVE  /\ <<p, q>> \in Links /\ wire'[<<p, q>>] = wire[<<p, q>>] \o out[q]
               /\ <<q, p>> \in Links
               /\ wire'[<<q, p>>] = IF Sends(c[k], q, p) THEN Tail(wire[<<q, p>>]) ELSE wire[<<q, p>>]
               /\ \A r \in Parties : r # p /\ r # q =>
                    <<r, q>> \in Links /\ wire'[<<r, q>>] = wire[<<r, q>>]
    <3>1. <<p, q>> \in Links /\ <<q, p>> \in Links /\ \A r \in Parties : r # q => <<r, q>> \in Links
      BY <2>9 DEF Links
    <3>2. wire'[<<q, p>>] = IF \E i \in DOMAIN Awaited(p) : Awaited(p)[i] = q
                              THEN Tail(wire[<<q, p>>]) ELSE wire[<<q, p>>]
      BY <2>1, <2>9, <3>1
    <3>3. wire'[<<p, q>>] = wire[<<p, q>>] \o out[q]
      BY <2>1, <3>1 DEF out
    <3>4. \A r \in Parties : r # p /\ r # q => wire'[<<r, q>>] = wire[<<r, q>>]
      BY <2>1, <2>9, <3>1
    <3> QED BY <2>7, <3>1, <3>2, <3>3, <3>4
  <2>10. ASSUME NEW q \in Parties, q # p
         PROVE  \E b \in Nat :
                    /\ IsSeq(wire'[<<q, p>>]) /\ Holds(wire'[<<q, p>>], c, coin, q, p, e, b)
                    /\ \A j \in 0..(e - 1) : Sends(c[j], q, p) => j <= b
                    /\ me[q].at # "aborted" => b = n[q]
    <3>1. PICK b \in Nat :
            /\ Holds(wire[<<q, p>>], c, coin, q, p, k, b)
            /\ \A j \in 0..(k - 1) : Sends(c[j], q, p) => j <= b
            /\ me[q].at # "aborted" => b = n[q]
      BY <2>10 DEF Follows, Link, coin, k
    <3> DEFINE w == wire[<<q, p>>]
               v == wire'[<<q, p>>]
    <3>2. IsSeq(w) /\ (Sends(c[k], q, p) => w # << >>)
          /\ (Sends(c[k], q, p) => v = Tail(w)) /\ (~Sends(c[k], q, p) => v = w)
      BY <1>1, <2>8, <2>9, <2>10
    <3>3. \A j \in (k + 1)..(e - 1) : ~Sends(c[j], q, p)
      BY <1>4, <2>10
    <3>4. Holds(w, c, coin, q, p, k, b)
      BY <3>1
    <3> HIDE DEF w, v
    <3>5. IsSeq(v) /\ Holds(v, c, coin, q, p, e, b)
          /\ \A j \in 0..(e - 1) : Sends(c[j], q, p) => j <= b
      <4>1. k < e /\ \A j \in 0..(k - 1) : Sends(c[j], q, p) => j <= b
        BY <1>4, <3>1
      <4> QED BY <1>5, <3>2, <3>3, <3>4, <4>1, LinkRead, Zenon
    <3> QED BY <3>1, <3>5 DEF v
  <2>11. ASSUME NEW r \in Parties, r # p, ~Ended(r)
         PROVE  /\ Holds(wire'[<<p, r>>], c, coin, p, r, n[r], e)
                /\ \A j \in 0..(n[r] - 1) : Sends(c[j], p, r) => j <= e
    <3>1. PICK b \in Nat :
            /\ Holds(wire[<<p, r>>], c, coin, p, r, n[r], b)
            /\ \A j \in 0..(n[r] - 1) : Sends(c[j], p, r) => j <= b
            /\ me[p].at # "aborted" => b = n[p]
      BY <2>11 DEF Follows, Link, coin
    <3>2. b = k
      BY <1>2, <3>1 DEF k
    <3> DEFINE w == wire[<<p, r>>]
               v == out[r]
    <3>3. IsSeq(w) /\ IsSeq(v) /\ wire'[<<p, r>>] = w \o v
      BY <1>1, <2>3, <2>9, <2>11 DEF out
    <3>4. Holds(w, c, coin, p, r, n[r], k) /\ Holds(v, c, coin, p, r, k + 1, e)
      BY <2>3, <2>11, <3>1, <3>2 DEF out
    <3>5. n[r] \in Nat
      BY <1>2
    <3> HIDE DEF w, v
    <3>6. Holds(w \o v, c, coin, p, r, n[r], e) /\ \A j \in 0..(n[r] - 1) : Sends(c[j], p, r) => j <= e
      <4>1. k <= e /\ \A j \in 0..(n[r] - 1) : Sends(c[j], p, r) => j <= k
        BY <1>4, <1>5, <3>1, <3>2
      <4> QED BY <1>5, <3>3, <3>4, <3>5, <4>1, LinkWritten, Zenon
    <3> QED BY <3>3, <3>6
  <2>12. FormInv'
    <3>1. gone' = {q \in Parties : Ended(q)}'
      <4>1. ~Ended(p)'
        BY <1>4, <2>4 DEF Ended
      <4>2. \A q \in Parties : Ended(q)' <=> Ended(q)
        BY <2>4, <4>1 DEF Ended
      <4> QED BY <1>1, <2>2, <4>2
    <3>2. DOMAIN wire' = Links
      BY <2>1
    <3>3. ASSUME NEW l \in Links PROVE IsSeq(wire'[l])
      <4>1. PICK q, r \in Parties : l = <<q, r>> /\ q # r
        BY DEF Links
      <4>2. CASE r = p
        BY <2>10, <4>1, <4>2
      <4>3. CASE q = p
        <5>1. r # p /\ IsSeq(wire[l]) /\ IsSeq(out[r])
          BY <1>1, <2>3, <4>1, <4>3 DEF out
        <5>2. wire'[l] = wire[l] \o out[r]
          BY <2>9, <4>1, <4>3, <5>1
        <5> QED BY <5>1, <5>2, ConcatIsSeq
      <4>4. CASE q # p /\ r # p
        BY <1>1, <2>9, <4>1, <4>4
      <4> QED BY <4>2, <4>3, <4>4
    <3>4. DOMAIN me' = Parties /\ \A q \in Parties : IsState(me'[q])
      BY <1>1, <1>3, <2>2, <2>4
    <3> QED BY <1>1, <2>2, <3>1, <3>2, <3>3, <3>4 DEF FormInv
  <2>13. ASSUME NEW q \in Parties PROVE OnCourse(c, n2, q)'
    <3>1. CASE q = p
      BY <1>4, <2>4, <2>5, <3>1 DEF OnCourse
    <3>2. CASE q # p
      <4>1. OnCourse(c, n, q) /\ me'[q] = me[q] /\ n2[q] = n[q]
        BY <2>4, <2>5, <3>2 DEF Follows
      <4> QED BY <4>1 DEF OnCourse
    <3> QED BY <3>1, <3>2
  <2>14. ASSUME NEW q \in Parties, NEW r \in Parties, q # r, ~Ended(r)' PROVE Link(c, n2, q, r)'
    <3>1. random'.coin = coin
      BY <2>2 DEF coin
    <3>2. CASE r = p
      <4>1. me'[q] = me[q] /\ n2[q] = n[q] /\ n2[r] = e
        BY <2>4, <2>5, <2>14, <3>2
      <4> QED BY <2>10, <2>14, <3>1, <3>2, <4>1 DEF Link
    <3>3. CASE r # p
      <4>1. ~Ended(r) /\ n2[r] = n[r]
        BY <2>4, <2>5, <2>14, <3>3 DEF Ended
      <4>2. CASE q = p
        <5>1. n2[q] = e
          BY <2>5, <4>2
        <5> QED BY <1>4, <2>11, <3>1, <3>3, <4>1, <4>2, <5>1 DEF Link
      <4>3. CASE q # p
        <5>1. wire'[<<q, r>>] = wire[<<q, r>>] /\ me'[q] = me[q] /\ n2[q] = n[q]
          BY <2>4, <2>5, <2>9, <2>14, <3>3, <4>3
        <5>2. Link(c, n, q, r)
          BY <2>14, <4>1 DEF Follows
        <5> QED BY <3>1, <4>1, <5>1, <5>2 DEF Link, coin
      <4> QED BY <4>2, <4>3
    <3> QED BY <3>2, <3>3
  <2>15. Course(c, random'.coin)
    BY <1>2, <2>2 DEF coin
  <2>16. Follows(c, n2)'
    BY <2>5, <2>13, <2>14, <2>15 DEF Follows
  <2> QED BY <2>12, <2>16 DEF IInv
<1> QED BY <1>6, <1>7

-----------------------------------------------------------------------------
(* Every step leads along the course. *)

(* The schedule has rounds, each with a list of ANDs.                      *)
LEMMA ScheduleFacts ==
    Sched.depth \in Nat \ {0} /\ \A f \in 0..Sched.depth : IsSeq(Sched.ands[f])
<1>1. Formed(Multiplier) /\ \E i \in DOMAIN Multiplier.gates : Multiplier.gates[i].op = "and"
  BY MultiplierFormed
<1>2. PICK k \in Nat : DOMAIN Multiplier.gates = 1..k
  <2>1. Multiplier.gates \in Seq(Gates(Multiplier))
    BY <1>1 DEF Formed
  <2> QED BY <2>1
<1>3. k # 0
  BY <1>1, <1>2
<1>4. /\ IsSchedule(Schedule(Multiplier), Multiplier, Available(Multiplier), k)
      /\ Schedule(Multiplier).depth # 0
  BY <1>1, <1>2, <1>3, ScheduleIs
<1>5. IsSchedule(Sched, Multiplier, Available(Multiplier), k) /\ Sched.depth # 0
  BY <1>4 DEF Sched
<1>6. \A f \in 0..Sched.depth :
        Sched.ands[f] \in Seq({Multiplier.gates[i] : i \in 1..k})
  BY <1>5 DEF IsSchedule, InOrder
<1> QED BY <1>5, <1>6 DEF IsSchedule, IsSeq

(* A function on the first numbers is a sequence.                          *)
LEMMA TableIsSeq ==
    ASSUME NEW k \in Nat, NEW f, f = [i \in 1..k |-> f[i]]
    PROVE  IsSeq(f) /\ Len(f) = k
<1> DEFINE S == {f[i] : i \in 1..k}
<1>1. f \in [1..k -> S]
  OBVIOUS
<1> HIDE DEF S
<1>2. f \in Seq(S) /\ Len(f) = k
  BY <1>1
<1> QED BY <1>2 DEF IsSeq

(* Into a round: the products are logged and sent to the previous party.   *)
LEMMA MultipliedAdvances ==
    ASSUME NEW p \in Parties, NEW s, IsState(s), s.phase \in 0..Sched.depth, NEW c, NEW coin,
           NEW k \in Nat, c[k + 1] = LevelStage(ControlOf(s), s.phase)
    PROVE  Advances(p, Multiplied(p, s), c, coin, k)
<1> DEFINE t == LocalGates(p, Sched.locals[s.phase], s.tape, AllLanes)
           ands == Sched.ands[s.phase]
           halves(j) == Halves(random.zero, p, s.draws + j)
           products == [j \in DOMAIN ands |-> Product(ands[j], t, halves(j)[1] ## halves(j)[2])]
           entries == [j \in DOMAIN ands |->
                       [x |-> t[ands[j].left], y |-> t[ands[j].right], f |-> halves(j), in |-> {}]]
           tp == WithComponent(t, ands, 1, products)
           new == [s EXCEPT !.at = "level", !.tape = tp, !.log = @ \o entries, !.draws = @ + Len(ands)]
           m == Message("level", new, products)
           said == Say(PrevOf(p), m)
<1>1. Multiplied(p, s) = Then(new, said)
  BY DEF Multiplied
<1>2. IsSeq(ands) /\ Len(ands) \in Nat /\ DOMAIN ands = 1..Len(ands)
  BY ScheduleFacts, SeqLength
<1> HIDE DEF t, halves, tp, products, ands
<1>3. IsSeq(entries) /\ Len(entries) = Len(ands)
  <2>1. entries = [j \in 1..Len(ands) |-> entries[j]]
    BY <1>2
  <2> HIDE DEF entries
  <2> QED BY <1>2, <2>1, TableIsSeq
<1> HIDE DEF entries
<1>4. DOMAIN new = Fields /\ new.at = "level" /\ new.phase = s.phase /\ new.prover = s.prover
      /\ new.log = s.log \o entries /\ new.round = s.round /\ new.coins = s.coins /\ new.len = s.len
  BY DEF IsState, Fields
<1> HIDE DEF new
<1>5. IsSeq(s.log)
  BY DEF IsState
<1>6. IsSeq(new.log) /\ Len(new.log) = Len(s.log) + Len(ands)
  <2>1. IsSeq(s.log \o entries) /\ Len(s.log \o entries) = Len(s.log) + Len(entries)
    BY <1>3, <1>5, ConcatIsSeq, Zenon
  <2> QED BY <1>3, <1>4, <2>1
<1>7. IsState(new)
  BY <1>4, <1>6 DEF IsState
<1>8. ControlOf(new) = c[k + 1]
  <2>1. LevelStage(ControlOf(s), s.phase) =
            [at |-> "level", phase |-> s.phase, prover |-> s.prover, round |-> s.round,
             coins |-> s.coins, len |-> s.len, logs |-> Len(s.log) + Len(ands)]
    BY DEF LevelStage, ControlOf, ands
  <2> QED BY <1>4, <1>6, <2>1 DEF ControlOf
<1> DEFINE g == c[k + 1]
<1>9. g.at = "level" /\ Tag("level", new) = Tag(g.at, g)
  BY <1>4, <1>8, SameControl, TagIs
<1>10. DOMAIN m = {"tag", "body"} /\ m.tag = Tag("level", new)
  BY MessageIs
<1>11. /\ DOMAIN said = Parties /\ said[p] = << >> /\ said[PrevOf(p)] = <<m>>
       /\ \A q \in Parties : q # PrevOf(p) => said[q] = << >>
  BY SayIs, Neighbours
<1> HIDE DEF m, g, said
<1>12. IsMessage(m, g, coin, p, PrevOf(p))
  BY <1>9, <1>10, Neighbours DEF IsMessage, Sends
<1>13. ~Sends(g, p, NextOf(p))
  BY <1>9, Neighbours DEF Sends
<1>14. TakesPart(g, p) /\ new.at \notin {"done", "aborted"}
  BY <1>4, <1>9 DEF TakesPart
<1>15. \A q \in Parties : q # p =>
               \/ ~Sends(g, p, q) /\ said[q] = << >>
               \/ \E n : said[q] = <<n>> /\ IsMessage(n, g, coin, p, q)
  BY <1>11, <1>12, <1>13, Neighbours
<1>16. Advances(p, Then(new, said), c, coin, k)
  BY <1>7, <1>8, <1>11, <1>14, <1>15, NextAdvances DEF g
<1> QED BY <1>1, <1>16

(* A round of the circuit, or the coin for the seed.                       *)
LEMMA LevelAdvances ==
    ASSUME NEW p \in Parties, NEW s, IsState(s), s.at = "level", NEW c, Course(c, random.coin),
           NEW k \in Nat, ControlOf(s) = c[k], NEW body
    PROVE  Advances(p, LevelTaken(p, s, body), c, random.coin, k)
<1> DEFINE ands == Sched.ands[s.phase]
           first == Len(s.log) - Len(ands)
           logged == [i \in DOMAIN s.log |->
                      IF i > first THEN [s.log[i] EXCEPT !.in = body[i - first]] ELSE s.log[i]]
           t == WithComponent(s.tape, ands, 2, body)
           up == [s EXCEPT !.phase = @ + 1, !.log = logged, !.tape = t]
           tt == LocalGates(p, Sched.locals[Sched.depth], t, AllLanes)
           end == [up EXCEPT !.at = "seed", !.tape = tt]
<1>1. LevelTaken(p, s, body) = IF up.phase < Sched.depth THEN Multiplied(p, up)
                               ELSE Then(end, CoinShares(p, "seed", end))
  BY DEF LevelTaken
<1>3. c[k].at = "level" /\ c[k].phase = s.phase
  BY DEF ControlOf
<1>4. s.phase \in Nat
  BY DEF IsState
<1>5. IsSeq(logged) /\ Len(logged) = Len(s.log)
  <2>1. IsSeq(s.log)
    BY DEF IsState
  <2>2. Len(s.log) \in Nat /\ DOMAIN s.log = 1..Len(s.log)
    BY <2>1, SeqLength
  <2> HIDE DEF first
  <2>3. logged = [i \in 1..Len(s.log) |-> logged[i]]
    BY <2>2
  <2> HIDE DEF logged
  <2> QED BY <2>2, <2>3, TableIsSeq
<1> HIDE DEF logged, t, tt, ands
<1>6. DOMAIN up = Fields /\ up.at = "level" /\ up.phase = s.phase + 1 /\ up.prover = s.prover
      /\ up.log = logged /\ up.round = s.round /\ up.coins = s.coins /\ up.len = s.len
  BY DEF IsState, Fields
<1>7. IsState(up)
  BY <1>4, <1>5, <1>6 DEF IsState
<1> DEFINE g == c[k]
<1>8. g = [at |-> "level", phase |-> s.phase, prover |-> s.prover, round |-> s.round,
           coins |-> s.coins, len |-> s.len, logs |-> Len(s.log)]
  BY DEF ControlOf
<1>9. CASE up.phase < Sched.depth
  <2>1. c[k + 1] = LevelStage(c[k], s.phase + 1)
    <3>1. c[k].phase + 1 < Sched.depth
      BY <1>3, <1>6, <1>9
    <3>2. c[k + 1] = LevelStage(c[k], c[k].phase + 1)
      BY <1>3, <3>1, AfterLevel, Zenon
    <3> QED BY <1>3, <3>2
  <2>2. ControlOf(up) = [g EXCEPT !.phase = s.phase + 1]
    <3> HIDE DEF g, up
    <3> QED BY <1>5, <1>6, <1>8 DEF ControlOf
  <2>3. c[k + 1] = LevelStage(ControlOf(up), up.phase)
    <3> HIDE DEF g, up
    <3>1. LevelStage(ControlOf(up), s.phase + 1) = LevelStage(g, s.phase + 1)
      BY <1>8, <2>2 DEF LevelStage
    <3> QED BY <1>6, <2>1, <3>1 DEF g
  <2>4. up.phase \in 0..Sched.depth
    BY <1>4, <1>6, <1>9, ScheduleFacts
  <2> HIDE DEF up
  <2>5. Advances(p, Multiplied(p, up), c, random.coin, k)
    BY <1>7, <2>3, <2>4, MultipliedAdvances
  <2> QED BY <1>1, <1>9, <2>5
<1>10. CASE ~(up.phase < Sched.depth)
  <2>1. c[k + 1] = [c[k] EXCEPT !.at = "seed", !.phase = @ + 1]
    <3>1. ~(c[k].phase + 1 < Sched.depth)
      BY <1>3, <1>6, <1>10
    <3> QED BY <1>3, <3>1, AfterLastLevel, Zenon
  <2>2. LevelTaken(p, s, body) = Then(end, CoinShares(p, "seed", end))
    BY <1>1, <1>10
  <2> HIDE DEF up
  <2>3. DOMAIN end = Fields /\ end.at = "seed" /\ end.phase = s.phase + 1 /\ end.prover = s.prover
        /\ end.log = logged /\ end.round = s.round /\ end.coins = s.coins /\ end.len = s.len
    BY <1>6 DEF Fields
  <2> HIDE DEF end
  <2>4. IsState(end)
    BY <1>4, <1>5, <2>3 DEF IsState
  <2>5. ControlOf(end) = c[k + 1]
    <3>1. c[k + 1] = [g EXCEPT !.at = "seed", !.phase = @ + 1]
      BY <2>1
    <3> HIDE DEF g
    <3> QED BY <1>5, <1>8, <2>3, <3>1 DEF ControlOf
  <2>6. Advances(p, Then(end, CoinShares(p, "seed", end)), c, random.coin, k)
    BY <2>3, <2>4, <2>5, CoinAdvances
  <2> QED BY <2>2, <2>6
<1> QED BY <1>9, <1>10

(* The seed: the first instance begins.                                    *)
LEMMA SeedAdvances ==
    ASSUME NEW p \in Parties, NEW s, IsState(s), s.at = "seed", NEW c, Course(c, random.coin),
           NEW k \in Nat, ControlOf(s) = c[k], NEW coin
    PROVE  Advances(p, SeedTaken(p, s, coin), c, random.coin, k)
<1> DEFINE new == [s EXCEPT !.seed = coin, !.coins = @ + 1]
<1>1. SeedTaken(p, s, coin) = StartInstance(p, new, 0)
  BY DEF SeedTaken
<1>3. c[k].at = "seed"
  BY DEF ControlOf
<1>5. DOMAIN new = Fields /\ new.at = "seed" /\ new.phase = s.phase /\ new.prover = s.prover
      /\ new.log = s.log /\ new.round = s.round /\ new.coins = s.coins + 1 /\ new.len = s.len
  BY DEF IsState, Fields
<1> HIDE DEF new
<1>6. IsState(new)
  BY <1>5 DEF IsState
<1>7. c[k + 1] = InstanceStage([c[k] EXCEPT !.coins = @ + 1], 0)
  BY <1>3, AfterSeed, Zenon
<1>8. c[k + 1] = InstanceStage(ControlOf(new), 0)
  <2>1. [c[k] EXCEPT !.coins = @ + 1] = ControlOf(new)
    <3>1. [ControlOf(s) EXCEPT !.coins = @ + 1] = ControlOf(new)
      BY <1>5 DEF ControlOf
    <3> QED BY <3>1
  <2> QED BY <1>7, <2>1, Zenon
<1>9. k + 1 \in Nat /\ k < k + 1 /\ (k + 1)..((k + 1) - 1) = {} /\ 0 \in Parties
  BY DEF Parties
<1>10. Advances(p, StartInstance(p, new, 0), c, random.coin, k)
  <2> DEFINE m == k + 1
  <2>1. m \in Nat /\ k < m /\ c[m] = InstanceStage(ControlOf(new), 0)
    BY <1>8, <1>9
  <2>2. \A j \in (k + 1)..(m - 1) : \A q \in Parties : ~Sends(c[j], p, q) /\ ~Sends(c[j], q, p)
    BY <1>9
  <2> HIDE DEF m
  <2> QED BY <1>6, <1>9, <2>1, <2>2, InstanceAdvances
<1> QED BY <1>1, <1>10

(* A verifier tells the other one what is left of the target.              *)
LEMMA ProofAdvances ==
    ASSUME NEW p \in Parties, NEW s, IsState(s), s.at = "proof", s.prover # p,
           NEW c, Course(c, random.coin), NEW k \in Nat, ControlOf(s) = c[k], NEW body
    PROVE  Advances(p, ProofTaken(p, s, body), c, random.coin, k)
<1> DEFINE base == IsBase(s)
           pi == IF base THEN SubSeq(body, 3, Len(body)) ELSE body
           more(vec) == IF base /\ vec # << >> THEN Append(vec, body[1]) ELSE vec
           delta == s.tau ## XorOver([j \in 1..(IF base THEN BasePoints(s.len) ELSE B) |-> pi[j]])
                       ## (IF base THEN body[2] ELSE Zero)
           uu == more(s.u)
           vv == more(s.v)
           new == [s EXCEPT !.at = "residual", !.pi = pi, !.mine = <<delta>>, !.u = uu, !.v = vv]
           next == Then(new, Say(OtherVerifier(p, s.prover), Message("residual", new, <<delta>>)))
<1>1. ProofTaken(p, s, body) = next
  BY DEF ProofTaken
<1>3. c[k].at = "proof"
  BY DEF ControlOf
<1> HIDE DEF delta, pi, uu, vv
<1>5. DOMAIN new = Fields /\ new.at = "residual" /\ new.phase = s.phase /\ new.prover = s.prover
      /\ new.log = s.log /\ new.round = s.round /\ new.coins = s.coins /\ new.len = s.len
  BY DEF IsState, Fields
<1> HIDE DEF new
<1>6. IsState(new)
  BY <1>5 DEF IsState
<1>7. c[k + 1] = [c[k] EXCEPT !.at = "residual"]
  BY <1>3, AfterProof, Zenon
<1>8. ControlOf(new) = c[k + 1]
  <2>1. [ControlOf(s) EXCEPT !.at = "residual"] = ControlOf(new)
    BY <1>5 DEF ControlOf
  <2> QED BY <1>7, <2>1
<1>9. Advances(p, next, c, random.coin, k)
  <2> DEFINE said == <<delta>>
  <2> HIDE DEF said
  <2>1. Advances(p, Then(new, Say(OtherVerifier(p, new.prover), Message("residual", new, said))),
                 c, random.coin, k)
    BY <1>5, <1>6, <1>8, VerifierAdvances
  <2> QED BY <1>5, <2>1 DEF said
<1> QED BY <1>1, <1>9

(* The verifiers go on to the coin, which the prover has reached.          *)
LEMMA ResidualAdvances ==
    ASSUME NEW p \in Parties, NEW s, IsState(s), s.at = "residual", NEW c, Course(c, random.coin),
           NEW k \in Nat, ControlOf(s) = c[k]
    PROVE  Advances(p, ResidualTaken(p, s), c, random.coin, k)
<1> DEFINE new == [s EXCEPT !.at = "coin", !.mine = << >>]
<1>1. ResidualTaken(p, s) = Then(new, CoinShares(p, "coin", new))
  BY DEF ResidualTaken
<1>3. c[k].at = "residual"
  BY DEF ControlOf
<1>5. DOMAIN new = Fields /\ new.at = "coin" /\ new.phase = s.phase /\ new.prover = s.prover
      /\ new.log = s.log /\ new.round = s.round /\ new.coins = s.coins /\ new.len = s.len
  BY DEF IsState, Fields
<1> HIDE DEF new
<1>6. IsState(new)
  BY <1>5 DEF IsState
<1>7. c[k + 1] = [c[k] EXCEPT !.at = "coin"]
  BY <1>3, AfterResidual, Zenon
<1>8. ControlOf(new) = c[k + 1]
  <2>1. [ControlOf(s) EXCEPT !.at = "coin"] = ControlOf(new)
    BY <1>5 DEF ControlOf
  <2> QED BY <1>7, <2>1
<1> QED BY <1>1, <1>5, <1>6, <1>8, CoinAdvances

(* What a party does with a coin.                                          *)
CoinTaken(p, s, coin) ==
    IF MustRedraw(p, s, coin) THEN CoinAgain(p, s)
    ELSE IF IsBase(s) THEN BaseCoinTaken(p, s, coin) ELSE FoldCoinTaken(p, s, coin)

(* The stage after a coin is the one that the coin leads to.               *)
LEMMA CoinPlace ==
    ASSUME NEW p \in Parties, NEW s, s.at = "coin", NEW c, Course(c, random.coin),
           NEW k \in Nat, ControlOf(s) = c[k], NEW coin, coin = TrueCoin(random.coin, s.coins)
    PROVE  /\ c[k + 1] = CoinStage(ControlOf(s), coin)
           /\ MustRedraw(0, ControlOf(s), coin) <=> MustRedraw(p, s, coin)
           /\ IsBase(ControlOf(s)) <=> IsBase(s)
<1>2. c[k].at = "coin" /\ c[k].coins = s.coins
  BY DEF ControlOf
<1>5. c[k + 1] = CoinStage(c[k], TrueCoin(random.coin, c[k].coins))
  BY <1>2, AfterCoin, Zenon
<1>6. c[k + 1] = CoinStage(ControlOf(s), coin)
  BY <1>2, <1>5
<1>7. ControlOf(s).len = s.len
  BY DEF ControlOf
<1>8. IsBase(ControlOf(s)) <=> IsBase(s)
  BY <1>7 DEF IsBase
<1>9. MustRedraw(0, ControlOf(s), coin) <=> MustRedraw(p, s, coin)
  BY <1>7, <1>8 DEF MustRedraw
<1> QED BY <1>6, <1>8, <1>9

(* A coin that must be drawn again.                                        *)
LEMMA AgainAdvances ==
    ASSUME NEW p \in Parties, NEW s, IsState(s), s.at = "coin", NEW c, Course(c, random.coin),
           NEW k \in Nat, ControlOf(s) = c[k], NEW coin, coin = TrueCoin(random.coin, s.coins),
           MustRedraw(p, s, coin)
    PROVE  Advances(p, CoinAgain(p, s), c, random.coin, k)
<1> DEFINE new == [s EXCEPT !.coins = @ + 1]
<1>1. CoinAgain(p, s) = Then(new, CoinShares(p, "coin", new))
  BY DEF CoinAgain
<1>3. c[k + 1] = CoinStage(ControlOf(s), coin) /\ MustRedraw(0, ControlOf(s), coin)
  BY CoinPlace
<1>4. DOMAIN new = Fields /\ new.at = "coin" /\ new.phase = s.phase /\ new.prover = s.prover
      /\ new.log = s.log /\ new.round = s.round /\ new.coins = s.coins + 1 /\ new.len = s.len
  BY DEF IsState, Fields
<1> HIDE DEF new
<1>5. IsState(new)
  BY <1>4 DEF IsState
<1>6. ControlOf(new) = c[k + 1]
  <2>1. c[k + 1] = [ControlOf(s) EXCEPT !.coins = @ + 1]
    BY <1>3, Zenon DEF CoinStage
  <2> QED BY <1>4, <2>1 DEF ControlOf
<1> QED BY <1>1, <1>4, <1>5, <1>6, CoinAdvances

(* A coin that leads to the next proof.                                    *)
LEMMA FoldAdvances ==
    ASSUME NEW p \in Parties, NEW s, IsState(s), s.at = "coin", NEW c, Course(c, random.coin),
           NEW k \in Nat, ControlOf(s) = c[k], NEW coin, coin = TrueCoin(random.coin, s.coins),
           ~MustRedraw(p, s, coin), ~IsBase(s)
    PROVE  Advances(p, FoldCoinTaken(p, s, coin), c, random.coin, k)
<1> DEFINE u == Folded(s.u, B, coin)
           v == Folded(s.v, B, coin)
           t == IF IsProver(p, s.prover) THEN Zero ELSE At(s.pi, coin)
           new == [s EXCEPT !.coins = @ + 1, !.round = @ + 1, !.len = Blocks(@, B), !.pi = << >>,
                            !.u = u, !.v = v, !.tau = t]
<1>1. FoldCoinTaken(p, s, coin) = StartRound(p, new)
  BY DEF FoldCoinTaken
<1>3. /\ c[k + 1] = CoinStage(ControlOf(s), coin)
      /\ ~MustRedraw(0, ControlOf(s), coin) /\ ~IsBase(ControlOf(s))
  BY CoinPlace
<1> HIDE DEF u, v, t
<1>5. DOMAIN new = Fields /\ new.phase = s.phase /\ new.prover = s.prover /\ new.at = "coin"
      /\ new.log = s.log /\ new.round = s.round + 1 /\ new.coins = s.coins + 1
      /\ new.len = Blocks(s.len, B)
  BY DEF IsState, Fields
<1> HIDE DEF new
<1>6. IsState(new)
  BY <1>5 DEF IsState
<1>7. c[k + 1] = StageOf(new, "proof")
  <2>1. c[k + 1] = [ControlOf(s) EXCEPT !.at = "proof", !.coins = @ + 1, !.round = @ + 1,
                                        !.len = Blocks(@, B)]
    BY <1>3, Zenon DEF CoinStage
  <2>2. c[k + 1] = [at |-> "proof", phase |-> s.phase, prover |-> s.prover, round |-> s.round + 1,
                    coins |-> s.coins + 1, len |-> Blocks(s.len, B), logs |-> Len(s.log)]
    BY <2>1 DEF ControlOf
  <2>3. StageOf(new, "proof") =
            [at |-> "proof", phase |-> new.phase, prover |-> new.prover, round |-> new.round,
             coins |-> new.coins, len |-> new.len, logs |-> Len(new.log)]
    BY DEF ControlOf, StageOf
  <2> QED BY <1>5, <2>2, <2>3
<1>8. k + 1 \in Nat /\ k < k + 1 /\ (k + 1)..((k + 1) - 1) = {}
  OBVIOUS
<1>9. Advances(p, StartRound(p, new), c, random.coin, k)
  <2> DEFINE m == k + 1
  <2>1. m \in Nat /\ k < m /\ c[m] = StageOf(new, "proof")
    BY <1>7, <1>8
  <2>2. \A j \in (k + 1)..(m - 1) : \A q \in Parties : ~Sends(c[j], p, q) /\ ~Sends(c[j], q, p)
    BY <1>8
  <2> HIDE DEF m
  <2> QED BY <1>6, <1>8, <2>1, <2>2, RoundAdvances
<1> QED BY <1>1, <1>9

(* A verifier goes on to the next instance.                                *)
LEMMA EvalsAdvances ==
    ASSUME NEW p \in Parties, NEW s, IsState(s), s.at = "evals", NEW c, Course(c, random.coin),
           NEW k \in Nat, ControlOf(s) = c[k]
    PROVE  Advances(p, EvalsTaken(p, s), c, random.coin, k)
<1> DEFINE new == [s EXCEPT !.mine = << >>]
<1>1. EvalsTaken(p, s) = NextInstance(p, new)
  BY DEF EvalsTaken
<1>4. DOMAIN new = Fields /\ new.at = "evals" /\ new.phase = s.phase /\ new.prover = s.prover
      /\ new.log = s.log /\ new.round = s.round /\ new.coins = s.coins /\ new.len = s.len
  BY DEF IsState, Fields
<1> HIDE DEF new
<1>5. IsState(new)
  BY <1>4 DEF IsState
<1>6. c[k] = StageOf(new, "evals")
  BY <1>4 DEF ControlOf, StageOf
<1>7. k <= k /\ (k + 1)..k = {}
  OBVIOUS
<1>8. Advances(p, NextInstance(p, new), c, random.coin, k)
  <2>1. \A j \in (k + 1)..k : \A q \in Parties : ~Sends(c[j], p, q) /\ ~Sends(c[j], q, p)
    BY <1>7
  <2> QED BY <1>5, <1>6, <1>7, <2>1, NextInstanceAdvances
<1> QED BY <1>1, <1>8

(* The last coin: the prover passes over the evaluations.                  *)
LEMMA BaseAdvances ==
    ASSUME NEW p \in Parties, NEW s, IsState(s), s.at = "coin", NEW c, Course(c, random.coin),
           NEW k \in Nat, ControlOf(s) = c[k], NEW coin, coin = TrueCoin(random.coin, s.coins),
           ~MustRedraw(p, s, coin), IsBase(s)
    PROVE  Advances(p, BaseCoinTaken(p, s, coin), c, random.coin, k)
<1> DEFINE drawn == Drawn(s)
           mine == <<At(IF IsLeft(p, s.prover) THEN s.u ELSE s.v, coin), At(s.pi, coin)>>
           new == [drawn EXCEPT !.at = "evals", !.mine = mine]
           next == IF IsProver(p, s.prover) THEN NextInstance(p, drawn)
                   ELSE Then(new, Say(OtherVerifier(p, s.prover), Message("evals", new, mine)))
<1>1. BaseCoinTaken(p, s, coin) = next
  BY DEF BaseCoinTaken
<1>3. /\ c[k + 1] = CoinStage(ControlOf(s), coin)
      /\ ~MustRedraw(0, ControlOf(s), coin) /\ IsBase(ControlOf(s))
  BY CoinPlace
<1> HIDE DEF mine
<1>5. DOMAIN drawn = Fields /\ drawn.phase = s.phase /\ drawn.prover = s.prover /\ drawn.at = "coin"
      /\ drawn.log = s.log /\ drawn.round = s.round /\ drawn.coins = s.coins + 1
      /\ drawn.len = s.len
  BY DEF IsState, Fields, Drawn
<1> HIDE DEF drawn
<1>6. DOMAIN new = Fields /\ new.phase = s.phase /\ new.prover = s.prover /\ new.at = "evals"
      /\ new.log = s.log /\ new.round = s.round /\ new.coins = s.coins + 1 /\ new.len = s.len
  BY <1>5 DEF Fields
<1> HIDE DEF new
<1>7. IsState(drawn) /\ IsState(new) /\ s.prover \in Parties
  BY <1>5, <1>6 DEF IsState
<1>8. c[k + 1] = [ControlOf(s) EXCEPT !.at = "evals", !.coins = @ + 1]
  BY <1>3, Zenon DEF CoinStage
<1>9. c[k + 1] = StageOf(drawn, "evals") /\ c[k + 1] = ControlOf(new)
  <2> DEFINE g == [at |-> "evals", phase |-> s.phase, prover |-> s.prover, round |-> s.round,
                   coins |-> s.coins + 1, len |-> s.len, logs |-> Len(s.log)]
  <2>1. c[k + 1] = g
    BY <1>8 DEF ControlOf
  <2>2. StageOf(drawn, "evals") =
            [at |-> "evals", phase |-> drawn.phase, prover |-> drawn.prover, round |-> drawn.round,
             coins |-> drawn.coins, len |-> drawn.len, logs |-> Len(drawn.log)]
    BY DEF ControlOf, StageOf
  <2>3. StageOf(drawn, "evals") = g
    BY <1>5, <2>2
  <2>4. ControlOf(new) = g
    BY <1>6 DEF ControlOf
  <2> QED BY <2>1, <2>3, <2>4
<1>10. k + 1 \in Nat /\ k <= k + 1 /\ (k + 1)..(k + 1) = {k + 1}
  OBVIOUS
<1>11. CASE p = s.prover
  <2> DEFINE m == k + 1
  <2>1. m \in Nat /\ k <= m /\ c[m] = StageOf(drawn, "evals")
    BY <1>9, <1>10
  <2>2. \A j \in (k + 1)..m : \A q \in Parties : ~Sends(c[j], p, q) /\ ~Sends(c[j], q, p)
    <3>1. c[m].at = "evals" /\ c[m].prover = p
      BY <1>5, <1>9, <1>11, TagIs
    <3>2. \A q \in Parties : ~Sends(c[m], p, q) /\ ~Sends(c[m], q, p)
      BY <3>1 DEF Sends
    <3>3. (k + 1)..m = {m}
      BY <1>10
    <3> HIDE DEF m
    <3> QED BY <3>2, <3>3, Zenon
  <2> HIDE DEF m
  <2>3. Advances(p, NextInstance(p, drawn), c, random.coin, k)
    BY <1>7, <1>10, <2>1, <2>2, NextInstanceAdvances
  <2>4. next = NextInstance(p, drawn)
    BY <1>11 DEF IsProver
  <2> QED BY <1>1, <2>3, <2>4
<1>12. CASE p # s.prover
  <2>1. Advances(p, Then(new, Say(OtherVerifier(p, new.prover), Message("evals", new, mine))),
                 c, random.coin, k)
    BY <1>6, <1>7, <1>9, <1>12, VerifierAdvances
  <2>2. next = Then(new, Say(OtherVerifier(p, new.prover), Message("evals", new, mine)))
    BY <1>6, <1>12 DEF IsProver
  <2> QED BY <1>1, <2>1, <2>2
<1> QED BY <1>11, <1>12

-----------------------------------------------------------------------------
(* The steps. *)

(* How a party that has read goes on; the last two arguments are what it   *)
(* has from the first it waits for, and the coin.                          *)
Kinds == {"start", "level", "seed", "proof", "residual", "coin", "evals"}
Went(p, s, body, coin) ==
    CASE s.at = "start" -> Multiplied(p, s)
      [] s.at = "level" -> LevelTaken(p, s, body)
      [] s.at = "seed" -> SeedTaken(p, s, coin)
      [] s.at = "proof" -> ProofTaken(p, s, body)
      [] s.at = "residual" -> ResidualTaken(p, s)
      [] s.at = "coin" -> CoinTaken(p, s, coin)
      [] s.at = "evals" -> EvalsTaken(p, s)
GoesOn(p) == Goes(p, Went(p, me[p], Body(p, 1), TrueCoin(random.coin, me[p].coins)))

(* What a party does by the stage it is at.                                *)
LEMMA WentIs ==
    ASSUME NEW p, NEW s, NEW body, NEW coin
    PROVE  /\ s.at = "start" => Went(p, s, body, coin) = Multiplied(p, s)
           /\ s.at = "level" => Went(p, s, body, coin) = LevelTaken(p, s, body)
           /\ s.at = "seed" => Went(p, s, body, coin) = SeedTaken(p, s, coin)
           /\ s.at = "proof" => Went(p, s, body, coin) = ProofTaken(p, s, body)
           /\ s.at = "residual" => Went(p, s, body, coin) = ResidualTaken(p, s)
           /\ s.at = "coin" => Went(p, s, body, coin) = CoinTaken(p, s, coin)
           /\ s.at = "evals" => Went(p, s, body, coin) = EvalsTaken(p, s)
BY DEF Went

(* It goes along the course, whatever it has read, if the coin is true.    *)
LEMMA WentAdvances ==
    ASSUME NEW p \in Parties, NEW s, IsState(s), s.at \in Kinds, NEW c, Course(c, random.coin),
           NEW k \in Nat, ControlOf(s) = c[k], TakesPart(c[k], p), NEW body
    PROVE  Advances(p, Went(p, s, body, TrueCoin(random.coin, s.coins)), c, random.coin, k)
<1> DEFINE coin == TrueCoin(random.coin, s.coins)
<1> HIDE DEF coin
<1>1. c[k].at = s.at /\ c[k].phase = s.phase /\ c[k].prover = s.prover
  BY DEF ControlOf
<1>2. CASE s.at = "start"
  <2>1. c[k + 1] = LevelStage(c[k], 0)
    BY <1>1, <1>2, AfterStart, Zenon
  <2>2. s.phase = 0 /\ 0 \in 0..Sched.depth
    BY <1>2, ScheduleFacts DEF IsState
  <2>3. c[k + 1] = LevelStage(ControlOf(s), s.phase) /\ s.phase \in 0..Sched.depth
    BY <2>1, <2>2
  <2>4. Advances(p, Multiplied(p, s), c, random.coin, k)
    BY <2>3, MultipliedAdvances
  <2> QED BY <1>2, <2>4, WentIs
<1>3. CASE s.at = "level"
  BY <1>3, LevelAdvances, WentIs
<1>4. CASE s.at = "seed"
  BY <1>4, SeedAdvances, WentIs
<1>5. CASE s.at = "proof"
  <2>1. s.prover # p
    BY <1>1, <1>5 DEF TakesPart
  <2> QED BY <1>5, <2>1, ProofAdvances, WentIs
<1>6. CASE s.at = "residual"
  BY <1>6, ResidualAdvances, WentIs
<1>7. CASE s.at = "coin"
  <2>1. Advances(p, CoinTaken(p, s, coin), c, random.coin, k)
    <3>1. CASE MustRedraw(p, s, coin)
      <4>1. Advances(p, CoinAgain(p, s), c, random.coin, k)
        BY <1>7, <3>1, AgainAdvances DEF coin
      <4> QED BY <3>1, <4>1 DEF CoinTaken
    <3>2. CASE ~MustRedraw(p, s, coin) /\ IsBase(s)
      <4>1. Advances(p, BaseCoinTaken(p, s, coin), c, random.coin, k)
        BY <1>7, <3>2, BaseAdvances DEF coin
      <4> QED BY <3>2, <4>1 DEF CoinTaken
    <3>3. CASE ~MustRedraw(p, s, coin) /\ ~IsBase(s)
      <4>1. Advances(p, FoldCoinTaken(p, s, coin), c, random.coin, k)
        BY <1>7, <3>3, FoldAdvances DEF coin
      <4> QED BY <3>3, <4>1 DEF CoinTaken
    <3> QED BY <3>1, <3>2, <3>3
  <2> QED BY <1>7, <2>1, WentIs DEF coin
<1>8. CASE s.at = "evals"
  BY <1>8, EvalsAdvances, WentIs
<1> QED BY <1>2, <1>3, <1>4, <1>5, <1>6, <1>7, <1>8 DEF Kinds

(* A step is one of these, the opening, or an abort.                       *)
LEMMA StepGoes ==
    ASSUME FormInv, NEW c, NEW n, Follows(c, n), NEW p \in Parties, Step(p)
    PROVE  \/ CanRead(p) /\ me[p].at \in Kinds /\ GoesOn(p)
           \/ CheckFails(p) \/ Cascade(p) \/ TakeOpen(p)
<1> DEFINE s == me[p]
           body == Body(p, 1)
           coin == TrueCoin(random.coin, s.coins)
<1>1. ASSUME s.at = "seed" \/ s.at = "coin", Agreed(p, s.at) PROVE Coin(p) = coin
  <2>1. ~Ended(p)
    BY <1>1 DEF Ended
  <2>2. Coin(p) = TrueCoin(random.coin, c[n[p]].coins)
    BY <1>1, CoinIsTrue
  <2>3. c[n[p]].coins = s.coins
    BY <2>1, PlaceOf
  <2> QED BY <2>2, <2>3
<1> HIDE DEF coin, body
<1>2. CASE Begin(p)
  <2>1. s.at = "start" /\ CanRead(p) /\ Goes(p, Multiplied(p, s))
    BY <1>2 DEF Begin, Waits
  <2> QED BY <2>1, WentIs DEF GoesOn, Kinds
<1>3. CASE TakeLevel(p)
  <2>1. s.at = "level" /\ CanRead(p) /\ Goes(p, LevelTaken(p, s, body))
    BY <1>3 DEF TakeLevel, Waits, body
  <2> QED BY <2>1, WentIs DEF GoesOn, Kinds, body
<1>4. CASE TakeSeed(p)
  <2>1. s.at = "seed" /\ CanRead(p) /\ Goes(p, SeedTaken(p, s, Coin(p))) /\ Agreed(p, s.at)
    BY <1>4 DEF TakeSeed, Agreed, Waits
  <2>2. Coin(p) = coin
    BY <1>1, <2>1
  <2> QED BY <2>1, <2>2, WentIs DEF GoesOn, Kinds, coin
<1>5. CASE TakeProof(p)
  <2>1. s.at = "proof" /\ CanRead(p) /\ Goes(p, ProofTaken(p, s, body))
    BY <1>5 DEF TakeProof, Waits, body
  <2> QED BY <2>1, WentIs DEF GoesOn, Kinds, body
<1>6. CASE TakeResidual(p)
  <2>1. s.at = "residual" /\ CanRead(p) /\ Goes(p, ResidualTaken(p, s))
    BY <1>6 DEF TakeResidual, Waits
  <2> QED BY <2>1, WentIs DEF GoesOn, Kinds
<1>7. CASE Redraw(p) \/ TakeFoldCoin(p) \/ TakeBaseCoin(p)
  <2>1. s.at = "coin" /\ CanRead(p) /\ Agreed(p, s.at) /\ Goes(p, CoinTaken(p, s, Coin(p)))
    <3>1. CASE Redraw(p)
      BY <3>1 DEF Redraw, Agreed, Waits, CoinTaken
    <3>2. CASE TakeFoldCoin(p)
      BY <3>2 DEF TakeFoldCoin, Usable, Agreed, Waits, CoinTaken
    <3>3. CASE TakeBaseCoin(p)
      BY <3>3 DEF TakeBaseCoin, Usable, Agreed, Waits, CoinTaken
    <3> QED BY <1>7, <3>1, <3>2, <3>3
  <2>2. Coin(p) = coin
    BY <1>1, <2>1
  <2> QED BY <2>1, <2>2, WentIs DEF GoesOn, Kinds, coin
<1>8. CASE TakeEvals(p)
  <2>1. s.at = "evals" /\ CanRead(p) /\ Goes(p, EvalsTaken(p, s))
    BY <1>8 DEF TakeEvals, Waits
  <2> QED BY <2>1, WentIs DEF GoesOn, Kinds
<1> QED BY <1>2, <1>3, <1>4, <1>5, <1>6, <1>7, <1>8 DEF Step

(* What a party says and where it goes keeps everybody on the course.      *)
LEMMA GoesStep ==
    ASSUME IInv, NEW p \in Parties, CanRead(p), me[p].at \in Kinds, GoesOn(p)
    PROVE  IInv'
<1>1. PICK c, n : Follows(c, n)
  BY DEF IInv
<1>2. ~Ended(p) /\ FormInv
  BY DEF Ended, Kinds, IInv
<1>3. /\ IsState(me[p]) /\ ControlOf(me[p]) = c[n[p]] /\ n[p] \in Nat /\ TakesPart(c[n[p]], p)
      /\ Course(c, random.coin)
  BY <1>1, <1>2, PlaceOf DEF Follows
<1>4. Advances(p, Went(p, me[p], Body(p, 1), TrueCoin(random.coin, me[p].coins)),
               c, random.coin, n[p])
  BY <1>3, WentAdvances
<1> QED BY <1>1, <1>2, <1>4, GoesFollow DEF GoesOn

(* A party that aborts keeps its place: it has said nothing more.          *)
LEMMA AbortsStep ==
    ASSUME IInv, NEW p \in Parties, ~Ended(p), Aborts(p, Silence)
    PROVE  IInv'
<1>1. PICK c, n : Follows(c, n)
  BY DEF IInv
<1> DEFINE k == n[p]
           s == [me[p] EXCEPT !.at = "aborted"]
           said == Silence
<1>2. Leaves(p, said) /\ me' = [me EXCEPT ![p] = s] /\ random' = random /\ FormInv
  BY DEF Aborts, IInv
<1>3. IsState(me[p]) /\ k \in Nat
  BY <1>1, <1>2, PlaceOf
<1>4. IsState(s) /\ s.at = "aborted"
  BY <1>3 DEF IsState, Fields
<1>5. (k + 1)..k = {} /\ k <= k
  BY <1>3
<1> HIDE DEF s
<1>6. ASSUME NEW q \in Parties PROVE IsSeq(said[q]) /\ Holds(said[q], c, random.coin, p, q, k + 1, k)
  <2>1. said[q] = << >>
    BY DEF Silence
  <2>2. Holds(<< >>, c, random.coin, p, q, k + 1, k)
    BY <1>5, HoldsNothing
  <2> QED BY <2>1, <2>2, EmptyIsSeq
<1> HIDE DEF said
<1>7. EndsAt(p, said, s, c, random.coin, k, k)
  BY <1>3, <1>4, <1>5, <1>6 DEF EndsAt
<1> QED BY <1>1, <1>2, <1>3, <1>5, <1>7, LeavesFollow, Zenon

(* A check or a read that fails.                                           *)
LEMMA FailStep ==
    ASSUME IInv, NEW p \in Parties, CheckFails(p) \/ Cascade(p)
    PROVE  IInv'
<1>1. ~Ended(p) /\ Aborts(p, Silence)
  BY DEF CheckFails, Cascade, DoubleFails, Waits, Ended
<1> QED BY <1>1, AbortsStep

(* A party that has opened the outputs returns.                            *)
LEMMA TakeOpenStep ==
    ASSUME IInv, NEW p \in Parties, TakeOpen(p)
    PROVE  IInv'
<1>1. PICK c, n : Follows(c, n)
  BY DEF IInv
<1> DEFINE k == n[p]
           e == k + 1
           s == [me[p] EXCEPT !.at = "done"]
           said == Silence
<1>2. /\ me[p].at = "open" /\ ~Ended(p) /\ FormInv
      /\ Leaves(p, said) /\ me' = [me EXCEPT ![p].at = "done"] /\ random' = random
  BY DEF TakeOpen, Agreed, Waits, Ended, IInv
<1>3. /\ IsState(me[p]) /\ ControlOf(me[p]) = c[k] /\ k \in Nat /\ c[k].at = "open"
      /\ Course(c, random.coin)
  BY <1>1, <1>2, PlaceOf DEF Follows
<1>4. me' = [me EXCEPT ![p] = s]
  BY <1>2
<1>5. IsState(s) /\ s.at = "done"
  BY <1>3 DEF IsState, Fields
<1>6. ControlOf(s) = c[e]
  <2>1. c[e] = [c[k] EXCEPT !.at = "done"]
    BY <1>3, AfterOpen, Zenon
  <2>2. ControlOf(s) = [ControlOf(me[p]) EXCEPT !.at = "done"]
    BY <1>3 DEF ControlOf, IsState, Fields
  <2> QED BY <1>3, <2>1, <2>2
<1>7. e \in Nat /\ k <= e /\ (k + 1)..e = {e}
  BY <1>3
<1>8. c[e].at = "done"
  BY <1>5, <1>6 DEF ControlOf
<1> HIDE DEF s, e
<1>9. ASSUME NEW q \in Parties PROVE IsSeq(said[q]) /\ Holds(said[q], c, random.coin, p, q, k + 1, e)
  <2>1. said[q] = << >>
    BY DEF Silence
  <2>2. ~Sends(c[e], p, q)
    BY <1>8 DEF Sends
  <2>3. \A j \in (k + 1)..e : ~Sends(c[j], p, q)
    BY <1>7, <2>2, Zenon
  <2>4. Holds(<< >>, c, random.coin, p, q, k + 1, e)
    BY <2>3, HoldsNothing
  <2> QED BY <2>1, <2>4, EmptyIsSeq
<1> HIDE DEF said
<1>10. EndsAt(p, said, s, c, random.coin, k, e)
  BY <1>5, <1>6, <1>7, <1>9 DEF EndsAt
<1>11. Leaves(p, said) /\ random' = random /\ FormInv /\ ~Ended(p)
  BY <1>2
<1> QED BY <1>1, <1>4, <1>7, <1>10, <1>11, LeavesFollow, Zenon

-----------------------------------------------------------------------------
(* The theorems. *)

(* At the start all are at the first stage, and nothing is on a link.      *)
LEMMA InitIInv == Init => IInv
<1> SUFFICES ASSUME Init PROVE IInv
  OBVIOUS
<1>1. /\ transport = "channel" /\ gone = {} /\ wire = [l \in Links |-> << >>]
  BY DEF Init, NetInit
<1>2. PICK inputs : me = [p \in Parties |->
                    [at |-> "start", phase |-> 0, prover |-> 0, round |-> 0, coins |-> 1, draws |-> 0,
                     prng |-> 0, tape |-> InputTape(p, FlattenSeq(inputs)), log |-> << >>,
                     seed |-> Zero, u |-> << >>, v |-> << >>, len |-> 0, tau |-> Zero,
                     pi |-> << >>, mine |-> << >>]]
  BY DEF Init
<1>3. DOMAIN me = Parties /\ \A p \in Parties :
        /\ DOMAIN me[p] = Fields /\ me[p].at = "start" /\ me[p].phase = 0 /\ me[p].prover = 0
        /\ me[p].round = 0 /\ me[p].coins = 1 /\ me[p].len = 0 /\ me[p].log = << >>
  BY <1>2 DEF Fields
<1>4. ASSUME NEW p \in Parties PROVE IsState(me[p]) /\ ~Ended(p) /\ ControlOf(me[p]) = FirstStage
  <2>1. IsState(me[p]) /\ ~Ended(p)
    BY <1>3, EmptyIsSeq DEF IsState, Ended, Parties
  <2>2. Len(me[p].log) = 0
    BY <1>3
  <2> QED BY <1>3, <2>1, <2>2 DEF ControlOf, FirstStage
<1>5. FormInv
  <2>1. {p \in Parties : Ended(p)} = {}
    BY <1>4
  <2>2. DOMAIN wire = Links /\ \A l \in Links : IsSeq(wire[l])
    BY <1>1, EmptyIsSeq
  <2> QED BY <1>1, <1>3, <1>4, <2>1, <2>2 DEF FormInv
<1>6. PICK c : Course(c, random.coin)
  BY CourseExists
<1> DEFINE n == [p \in Parties |-> 0]
<1>7. n \in [Parties -> Nat] /\ \A p \in Parties : n[p] = 0
  OBVIOUS
<1> HIDE DEF n
<1>8. c[0] = FirstStage /\ c[0].at = "start"
  BY <1>6 DEF Course, FirstStage
<1>9. ASSUME NEW p \in Parties PROVE OnCourse(c, n, p)
  BY <1>4, <1>7, <1>8 DEF OnCourse, TakesPart
<1>10. ASSUME NEW q \in Parties, NEW p \in Parties, q # p PROVE Link(c, n, q, p)
  <2>1. wire[<<q, p>>] = << >>
    BY <1>1, <1>10 DEF Links
  <2>2. ~Sends(c[0], q, p)
    BY <1>8 DEF Sends
  <2>3. 0..0 = {0} /\ 0..(0 - 1) = {} /\ 0 \in Nat
    OBVIOUS
  <2>4. \A j \in 0..0 : ~Sends(c[j], q, p)
    BY <2>2, <2>3, Zenon
  <2>5. Holds(<< >>, c, random.coin, q, p, 0, 0)
    BY <2>4, HoldsNothing
  <2>6. /\ Holds(wire[<<q, p>>], c, random.coin, q, p, n[p], 0)
        /\ \A k \in 0..(n[p] - 1) : Sends(c[k], q, p) => k <= 0
        /\ me[q].at # "aborted" => 0 = n[q]
    BY <1>7, <2>1, <2>3, <2>5
  <2> QED BY <2>3, <2>6 DEF Link
<1> QED BY <1>5, <1>6, <1>7, <1>9, <1>10 DEF IInv, Follows

(* The invariant speaks of the links, the parties and the coins only.      *)
LEMMA IdleStep == IInv /\ UNCHANGED vars => IInv'
<1> SUFFICES ASSUME IInv, UNCHANGED vars PROVE IInv'
  OBVIOUS
<1>1. transport' = transport /\ gone' = gone /\ wire' = wire /\ me' = me /\ random' = random
  BY DEF vars, netVars
<1>2. FormInv'
  BY <1>1 DEF IInv, FormInv, Ended
<1>3. PICK c, n : Follows(c, n)
  BY DEF IInv
<1>4. Follows(c, n)'
  BY <1>1, <1>3 DEF Follows, OnCourse, Link, Ended
<1> QED BY <1>2, <1>4 DEF IInv

(* Whatever a party does leaves everybody on the course.                   *)
LEMMA StepIInv == IInv /\ [Next]_vars => IInv'
<1> SUFFICES ASSUME IInv, [Next]_vars PROVE IInv'
  OBVIOUS
<1>1. CASE UNCHANGED vars
  BY <1>1, IdleStep
<1>2. ASSUME NEW p \in Parties, Step(p) PROVE IInv'
  <2>1. PICK c, n : Follows(c, n)
    BY DEF IInv
  <2>2. CASE CanRead(p) /\ me[p].at \in Kinds /\ GoesOn(p)
    BY <2>2, GoesStep
  <2>3. CASE CheckFails(p) \/ Cascade(p)
    BY <2>3, FailStep
  <2>4. CASE TakeOpen(p)
    BY <2>4, TakeOpenStep
  <2>5. FormInv
    BY DEF IInv
  <2> QED BY <1>2, <2>1, <2>2, <2>3, <2>4, <2>5, StepGoes
<1> QED BY <1>1, <1>2 DEF Next

(* All three parties go along one course of stages, whatever party 1 sends *)
(* and whenever one aborts, and every link holds the messages of the       *)
(* stages between its reader's and its writer's, in order: the sends and   *)
(* reads of run_instance (dzkp.rs:136) match up.                           *)
THEOREM StagesFollowed == Spec => []IInv
<1>1. Spec => Init /\ [][Next]_vars
  BY DEF Spec
<1> QED BY <1>1, InitIInv, StepIInv, PTL

(* Whatever a party reads is the message it takes it for, though nothing   *)
(* in a message says what it is (dzkp.rs:136): proofs, residuals, coins    *)
(* and evaluations never come in each other's place.                       *)
THEOREM MessagesInStep == Spec => []InStep
<1>1. Spec => []IInv
  BY StagesFollowed
<1> QED BY <1>1, InvInStep, PTL

-----------------------------------------------------------------------------
(* Proofs of an inner product. *)

(* A table is the function it tables.                                      *)
LEMMA TabledIs == \A f : Tabled(f) = f
BY DEF Tabled

(* The table of weights holds the weights.                                 *)
LEMMA WeightsAre ==
    ASSUME NEW n \in 2..ProofPoints, NEW x \in Elements
    PROVE  Weights[n][x] = LagrangeAt(n, x) /\ DOMAIN LagrangeAt(n, x) = 1..n
<1>1. \A m \in 2..ProofPoints : \A y \in Elements : Tabled(LagrangeAt(m, y)) = LagrangeAt(m, y)
  BY TabledIs DEF LagrangeAt
<1> DEFINE g(m) == [y \in Elements |-> Tabled(LagrangeAt(m, y))]
           G == [m \in 2..ProofPoints |-> Tabled(g(m))]
<1>2. Tabled(g(n)) = g(n) /\ Tabled(G) = G
  BY TabledIs
<1>4. Weights = G
  BY <1>2 DEF Weights
<1>5. Weights[n] = g(n)
  <2> HIDE DEF g
  <2> QED BY <1>2, <1>4
<1>6. Weights[n][x] = LagrangeAt(n, x)
  BY <1>1, <1>5
<1> QED BY <1>6 DEF LagrangeAt

(* An inner product as a sum up to n.                                      *)
LEMMA DotIs ==
    ASSUME NEW n \in Nat, NEW a, NEW b, NEW q, DOMAIN a = 1..n, \A j \in 1..n : q[j] = a[j] \otimes b[j]
    PROVE  Dot(a, b) = SumTo(q, n)
<1>1. [j \in DOMAIN a |-> a[j] \otimes b[j]] = [j \in 1..n |-> q[j]]
  OBVIOUS
<1> QED BY <1>1 DEF Dot, SumTo

(* A vector of the field.                                                  *)
Vector(w, n) == w \in Seq(Elements) /\ Len(w) = n

(* What is beyond its end counts as zero.                                  *)
LEMMA PaddedType ==
    ASSUME NEW n \in Nat, NEW w, Vector(w, n), NEW i \in Nat \ {0}
    PROVE  Padded(w, i) \in Elements /\ (i > n => Padded(w, i) = Zero) /\ (i <= n => Padded(w, i) = w[i])
BY AddType DEF Vector, Padded

(* Blocks, their number and their length.                                  *)
LEMMA BlocksCover ==
    ASSUME NEW L \in Nat, NEW n \in Nat \ {0}
    PROVE  /\ Blocks(L, n) \in Nat /\ L <= Blocks(L, n) * n
           /\ L > 0 => Blocks(L, n) > 0
           /\ L = n => Blocks(L, n) = 1
<1> DEFINE d == L + n - 1
           k == d \div n
<1>1. d \in Nat
  OBVIOUS
<1>2. k \in Nat /\ k * n <= d /\ d < k * n + n
  <2>1. d = n * (d \div n) + (d % n) /\ (d % n) \in 0..(n - 1) /\ k \in Nat
    <3> HIDE DEF d
    <3> QED BY <1>1
  <2>2. n * k = k * n
    OBVIOUS
  <2> QED BY <2>1, <2>2
<1>3. L > 0 => k > 0
  BY <1>2
<1>4. L = n => k = 1
  <2> SUFFICES ASSUME L = n PROVE k = 1
    OBVIOUS
  <2>1. d = n * 1 + (n - 1)
    OBVIOUS
  <2>2. k < 2
    <3> SUFFICES ASSUME k >= 2 PROVE FALSE
      BY <1>2
    <3>1. k * n >= 2 * n
      BY <1>2
    <3> QED BY <1>2, <3>1
  <2> QED BY <1>2, <1>3, <2>2
<1> QED BY <1>1, <1>2, <1>3, <1>4 DEF Blocks

(* The numbers in the blocks.                                              *)
LEMMA PlaceInBlock ==
    ASSUME NEW l \in Nat \ {0}, NEW n \in Nat \ {0}, NEW i \in 1..n
    PROVE  (l - 1) * n + i \in Nat \ {0} /\ \A M \in Nat : l <= M => (l - 1) * n + i <= M * n
<1>1. (l - 1) * n \in Nat
  OBVIOUS
<1>2. ASSUME NEW M \in Nat, l <= M PROVE (l - 1) * n + i <= M * n
  <2>1. (l - 1) * n + n = l * n
    OBVIOUS
  <2> DEFINE e == M - l
  <2>2. e \in Nat /\ M = l + e
    BY <1>2
  <2> HIDE DEF e
  <2>3. (l + e) * n = l * n + e * n /\ e * n \in Nat
    BY <2>2
  <2> QED BY <2>1, <2>2, <2>3
<1> QED BY <1>1, <1>2

(* A folded vector: in each block a polynomial of degree less than n,      *)
(* through the block's values.                                             *)
BlockOf(w, n, l) == [x \in Elements |-> Folded(w, n, x)[l]]

(* A block is the polynomial that has its values at the first points.      *)
LEMMA FoldedPoly ==
    ASSUME NEW L \in Nat, NEW w, Vector(w, L), NEW n \in 2..ProofPoints, NEW l \in 1..Blocks(L, n)
    PROVE  /\ Poly(n, BlockOf(w, n, l))
           /\ \A i \in 1..n : BlockOf(w, n, l)[Numeral(i)] = Padded(w, (l - 1) * n + i)
<1>0. ProofPoints \in Nat /\ Apart(ProofPoints) /\ n \in 1..ProofPoints /\ n \in Nat \ {0}
  BY DzkpSizes, PointsDiffer DEF ProofPoints, Apart
<1> DEFINE c(j) == Padded(w, (l - 1) * n + j)
           F == [j \in 1..n |-> [y \in Elements |-> c(j) \otimes WeightOf(n, j)[y]]]
<1>1. \A j \in 1..n : c(j) \in Elements
  <2> SUFFICES ASSUME NEW j \in 1..n PROVE c(j) \in Elements
    OBVIOUS
  <2>1. Blocks(L, n) \in Nat
    BY <1>0, BlocksCover
  <2>2. l \in Nat \ {0}
    BY <2>1
  <2>3. (l - 1) * n + j \in Nat \ {0}
    BY <1>0, <2>2, PlaceInBlock
  <2> QED BY <2>3, PaddedType
<1>2. l \in DOMAIN Folded(w, n, Zero) /\ \A x : Folded(w, n, x)[l] = XorOver([j \in 1..n |-> Weights[n][x][j] \otimes c(j)])
  BY DEF Folded, Vector
<1> HIDE DEF c
<1>3. ASSUME NEW y \in Elements, NEW j \in 1..n
      PROVE  /\ Weights[n][y][j] \otimes c(j) = ValuesAt(F, y)[j]
             /\ ValuesAt(F, y)[j] = c(j) \otimes LagrangeAt(n, y)[j]
  <2>1. Poly(n, WeightOf(n, j))
    BY <1>0, LagrangePoly
  <2>2. WeightOf(n, j)[y] \in Elements
    BY <1>0, <2>1, PolyType
  <2>3. WeightOf(n, j)[y] = LagrangeAt(n, y)[j] /\ Weights[n][y] = LagrangeAt(n, y)
    BY WeightsAre DEF WeightOf
  <2>4. ValuesAt(F, y)[j] = c(j) \otimes WeightOf(n, j)[y]
    BY DEF ValuesAt
  <2> QED BY <1>1, <2>2, <2>3, <2>4, TimesCommutes
<1>4. ASSUME NEW y \in Elements PROVE BlockOf(w, n, l)[y] = SumTo(ValuesAt(F, y), n)
  <2>1. [j \in 1..n |-> Weights[n][y][j] \otimes c(j)] = [j \in 1..n |-> ValuesAt(F, y)[j]]
    BY <1>3
  <2> QED BY <1>2, <2>1 DEF BlockOf, SumTo
<1>5. \A j \in 1..n : Poly(n, F[j])
  <2> SUFFICES ASSUME NEW j \in 1..n PROVE Poly(n, F[j])
    OBVIOUS
  <2>1. MultipleOn(F[j], c(j), WeightOf(n, j))
    BY DEF MultipleOn
  <2>2. Poly(n, WeightOf(n, j)) /\ c(j) \in Elements
    BY <1>0, <1>1, LagrangePoly
  <2> HIDE DEF F
  <2> QED BY <1>0, <2>1, <2>2, PolyScales
<1>6. DOMAIN F = 1..n
  OBVIOUS
<1> HIDE DEF F
<1>7. Poly(n, BlockOf(w, n, l))
  BY <1>0, <1>4, <1>5, <1>6, PolySums
<1>8. ASSUME NEW i \in 1..n PROVE BlockOf(w, n, l)[Numeral(i)] = c(i)
  <2> DEFINE y == Numeral(i)
             u == ValuesAt(F, y)
  <2>1. y \in Elements
    BY NumeralType
  <2>2. ASSUME NEW j \in 1..n PROVE u[j] = IF i = j THEN c(i) ELSE Zero
    <3>1. u[j] = c(j) \otimes LagrangeAt(n, y)[j]
      BY <1>3, <2>1
    <3>2. LagrangeAt(n, y)[j] = IF i = j THEN One ELSE Zero
      BY <1>0, LagrangePoly
    <3> QED BY <1>1, <3>1, <3>2, TimesOne, TimesZero
  <2> HIDE DEF u
  <2>3. SumTo(u, n) = c(i)
    <3>1. u[i] = c(i) /\ u[i] \in Elements /\ \A j \in (1..n) \ {i} : u[j] = Zero
      BY <1>1, <2>2
    <3>2. SumTo(u, n) = u[i]
      BY <1>0, <3>1, SumOfOne
    <3> QED BY <3>1, <3>2
  <2> QED BY <1>4, <2>1, <2>3 DEF u
<1> QED BY <1>7, <1>8 DEF c

(* A folded vector is a vector.                                            *)
LEMMA FoldedVector ==
    ASSUME NEW L \in Nat, NEW w, Vector(w, L), NEW n \in 2..ProofPoints, NEW x \in Elements
    PROVE  Vector(Folded(w, n, x), Blocks(L, n)) /\ DOMAIN Folded(w, n, x) = 1..Blocks(L, n)
<1>0. ProofPoints \in Nat /\ n \in Nat \ {0} /\ Blocks(L, n) \in Nat
  <2>1. ProofPoints \in Nat /\ n \in Nat \ {0}
    BY DzkpSizes DEF ProofPoints
  <2> QED BY <2>1, BlocksCover
<1>1. DOMAIN Folded(w, n, x) = 1..Blocks(L, n)
      /\ Folded(w, n, x) = [l \in 1..Blocks(L, n) |-> Folded(w, n, x)[l]]
  BY DEF Folded, Vector
<1>2. ASSUME NEW l \in 1..Blocks(L, n) PROVE Folded(w, n, x)[l] \in Elements
  <2>1. Poly(n, BlockOf(w, n, l))
    BY FoldedPoly
  <2>2. BlockOf(w, n, l)[x] \in Elements
    BY <1>0, <2>1, PolyType
  <2> QED BY <2>2 DEF BlockOf
<1> DEFINE g == Folded(w, n, x)
           m == Blocks(L, n)
<1> HIDE DEF g, m
<1>3. g \in [1..m -> Elements]
  BY <1>1, <1>2 DEF g, m
<1>4. g \in Seq(Elements) /\ Len(g) = m
  BY <1>0, <1>3 DEF m
<1> QED BY <1>1, <1>4 DEF Vector, g, m

(* n values after the first m.                                             *)
Shifted(q, m, n) == [i \in 1..n |-> q[m + i]]

(* A sum is that of its first part and of the rest.                        *)
LEMMA SumShifts ==
    ASSUME NEW m \in Nat, NEW n \in Nat, NEW q, Valued(q, m + n)
    PROVE  SumTo(q, m + n) = SumTo(q, m) ## SumTo(Shifted(q, m, n), n)
<1> DEFINE f == Shifted(q, m, n)
           S == {d \in 0..n : SumTo(q, m + d) = SumTo(q, m) ## SumTo(f, d)}
<1>1. 0 \in S
  BY ToNone, AddZero
<1>2. ASSUME NEW d \in 0..(n - 1), d \in S PROVE d + 1 \in S
  <2>1. Valued(q, (m + d) + 1) /\ Valued(f, d + 1) /\ m + d \in Nat /\ d \in Nat
    BY DEF Valued, Shifted
  <2>2. SumTo(q, (m + d) + 1) = SumTo(q, m + d) ## q[(m + d) + 1] /\ SumTo(f, d + 1) = SumTo(f, d) ## f[d + 1]
    BY <2>1, ToNext
  <2>3. f[d + 1] = q[(m + d) + 1] /\ m + (d + 1) = (m + d) + 1
    BY DEF Shifted
  <2>4. SumTo(q, m + (d + 1)) = SumTo(q, m) ## SumTo(f, d + 1)
    BY <1>2, <2>2, <2>3, AddAssoc
  <2> QED BY <2>4
<1> HIDE DEF S, f
<1>3. \A d \in 0..n : d \in S
  BY <1>1, <1>2, UpTo
<1> QED BY <1>3 DEF S, f

(* The i-th values of M blocks of n, and the sum for each i: together they *)
(* are all values.                                                         *)
Stride(q, n, M, i) == [l \in 1..M |-> q[(l - 1) * n + i]]
Strides(q, n, M) == [i \in 1..n |-> SumTo(Stride(q, n, M, i), M)]

(* A sum is that of its blocks, place by place.                            *)
LEMMA SumStrides ==
    ASSUME NEW n \in Nat \ {0}, NEW K \in Nat, NEW q, Valued(q, K * n)
    PROVE  SumTo(Strides(q, n, K), n) = SumTo(q, K * n)
<1>0. ASSUME NEW M \in 0..K, NEW l \in 1..M, NEW i \in 1..n PROVE q[(l - 1) * n + i] \in Elements
  <2>1. l \in Nat \ {0} /\ l <= K
    OBVIOUS
  <2>2. (l - 1) * n + i \in Nat \ {0} /\ (l - 1) * n + i <= K * n /\ K * n \in Nat
    BY <2>1, PlaceInBlock
  <2> QED BY <2>2 DEF Valued
<1>1. ASSUME NEW M \in 0..K, NEW i \in 1..n PROVE Valued(Stride(q, n, M, i), M)
  BY <1>0 DEF Valued, Stride
<1> DEFINE S == {M \in 0..K : SumTo(Strides(q, n, M), n) = SumTo(q, M * n)}
<1>2. 0 \in S
  <2>1. \A i \in 1..n : Strides(q, n, 0)[i] = Zero
    BY ToNone DEF Strides
  <2>2. Valued(Strides(q, n, 0), 0)
    BY DEF Valued
  <2>3. SumTo(Strides(q, n, 0), n) = SumTo(Strides(q, n, 0), 0)
    BY <2>1, <2>2, SumStops
  <2>4. 0 * n = 0
    OBVIOUS
  <2> QED BY <2>3, <2>4, ToNone
<1>3. ASSUME NEW M \in 0..(K - 1), M \in S PROVE M + 1 \in S
  <2>0. M \in 0..K /\ M + 1 \in 0..K /\ M \in Nat /\ M * n \in Nat /\ n \in Nat
    OBVIOUS
  <2>1. ASSUME NEW i \in 1..n
        PROVE  Strides(q, n, M + 1)[i] = Strides(q, n, M)[i] ## Shifted(q, M * n, n)[i]
    <3> DEFINE f == Stride(q, n, M + 1, i)
    <3>1. Valued(f, M + 1)
      BY <1>1, <2>0
    <3>2. f[M + 1] = q[M * n + i]
      <4>1. M + 1 \in 1..(M + 1) /\ (M + 1) - 1 = M
        OBVIOUS
      <4> QED BY <4>1 DEF Stride
    <3>3. SumTo(f, M) = SumTo(Stride(q, n, M, i), M)
      <4>1. \A l \in 1..M : f[l] = Stride(q, n, M, i)[l]
        BY DEF Stride
      <4> HIDE DEF f
      <4> QED BY <2>0, <4>1, ToSame
    <3> HIDE DEF f
    <3>4. SumTo(f, M + 1) = SumTo(f, M) ## f[M + 1]
      BY <2>0, <3>1, ToNext
    <3> QED BY <3>2, <3>3, <3>4 DEF Strides, Shifted, f
  <2>2. Valued(Strides(q, n, M), n)
    <3>1. \A i \in 1..n : SumTo(Stride(q, n, M, i), M) \in Elements
      BY <1>1, <2>0, ToType
    <3> QED BY <3>1 DEF Valued, Strides
  <2>3. (M + 1) * n = M * n + n
    BY <2>0
  <2>4. Valued(q, M * n + n)
    <3>1. M * n + n <= K * n
      <4> DEFINE e == K - (M + 1)
      <4>1. e \in Nat /\ K = (M + 1) + e
        OBVIOUS
      <4> HIDE DEF e
      <4>2. ((M + 1) + e) * n = (M + 1) * n + e * n /\ e * n \in Nat
        BY <4>1
      <4> QED BY <2>0, <2>3, <4>1, <4>2
    <3>2. K * n \in Nat
      OBVIOUS
    <3> QED BY <2>0, <3>1, <3>2 DEF Valued
  <2>5. Valued(Shifted(q, M * n, n), n)
    BY <2>0, <2>4 DEF Valued, Shifted
  <2>6. SumTo(Strides(q, n, M + 1), n) = SumTo(Strides(q, n, M), n) ## SumTo(Shifted(q, M * n, n), n)
    BY <2>0, <2>1, <2>2, <2>5, SumOfSums
  <2>7. SumTo(q, M * n + n) = SumTo(q, M * n) ## SumTo(Shifted(q, M * n, n), n)
    BY <2>0, <2>4, SumShifts
  <2> QED BY <1>3, <2>0, <2>3, <2>6, <2>7
<1> HIDE DEF S
<1>4. \A M \in 0..K : M \in S
  BY <1>2, <1>3, UpTo
<1> QED BY <1>4 DEF S

(* N points are enough for the products of blocks of n.                    *)
Enough(n, N) == n \in 2..ProofPoints /\ N \in 2..ProofPoints /\ 2 * n - 1 <= N

(* What the values h of a proof about u and v say.                         *)
Proven(h, u, v, n, N) ==
    /\ Vector(h, N) /\ DOMAIN h = 1..N /\ SumTo(h, n) = Dot(u, v)
    /\ \A x \in Elements : At(h, x) = Dot(Folded(u, n, x), Folded(v, n, x)) /\ At(h, x) \in Elements

(* The products of two vectors' blocks at the points: at the first n of    *)
(* them they sum up to the inner product of the vectors, and through all N *)
(* of them goes the product of the folded vectors (dzkp.rs:252, 353).      *)
LEMMA ProductsAt ==
    ASSUME NEW L \in Nat, NEW u, NEW v, Vector(u, L), Vector(v, L), NEW n, NEW N, Enough(n, N)
    PROVE  Proven(ProductAt(u, v, n, N), u, v, n, N)
<1> DEFINE h == ProductAt(u, v, n, N)
<1>   n \in 2..ProofPoints /\ N \in 2..ProofPoints /\ 2 * n - 1 <= N /\ h = ProductAt(u, v, n, N)
  BY DEF Enough
<1> HIDE DEF h
<1> DEFINE K == ProofPoints
           M == Blocks(L, n)
           f == [x \in Elements |-> Dot(Folded(u, n, x), Folded(v, n, x))]
           G == [l \in 1..M |-> [x \in Elements |-> Folded(u, n, x)[l] \otimes Folded(v, n, x)[l]]]
<1>0. /\ K \in Nat /\ Apart(K) /\ n \in 1..K /\ n \in Nat \ {0} /\ N \in 1..K /\ N \in Nat
      /\ n + (n - 1) \in 0..N /\ n - 1 \in Nat
  BY DzkpSizes, PointsDiffer DEF ProofPoints, Apart
<1>1. M \in Nat /\ L <= M * n
  BY <1>0, BlocksCover
<1> HIDE DEF K, M
<1>2. ASSUME NEW x \in Elements
      PROVE  /\ DOMAIN Folded(u, n, x) = 1..M
             /\ \A l \in 1..M : Folded(u, n, x)[l] \in Elements /\ Folded(v, n, x)[l] \in Elements
  <2>1. Vector(Folded(u, n, x), M) /\ DOMAIN Folded(u, n, x) = 1..M
    BY FoldedVector DEF M
  <2>2. Vector(Folded(v, n, x), M) /\ DOMAIN Folded(v, n, x) = 1..M
    BY FoldedVector DEF M
  <2>3. \A w : Vector(w, M) => \A l \in 1..M : w[l] \in Elements
    BY DEF Vector
  <2> QED BY <2>1, <2>2, <2>3
<1>3. ASSUME NEW x \in Elements PROVE f[x] = SumTo(ValuesAt(G, x), M)
  <2>1. \A j \in 1..M : ValuesAt(G, x)[j] = Folded(u, n, x)[j] \otimes Folded(v, n, x)[j]
    BY DEF ValuesAt
  <2> HIDE DEF G
  <2>2. Dot(Folded(u, n, x), Folded(v, n, x)) = SumTo(ValuesAt(G, x), M)
    BY <1>1, <1>2, <2>1, DotIs
  <2> QED BY <2>2
<1>4. \A l \in 1..M : Poly(n + (n - 1), G[l])
  <2> SUFFICES ASSUME NEW l \in 1..M PROVE Poly(n + (n - 1), G[l])
    OBVIOUS
  <2>1. Poly((n - 1) + 1, BlockOf(u, n, l)) /\ Poly(n, BlockOf(v, n, l))
    <3>1. Poly(n, BlockOf(u, n, l)) /\ Poly(n, BlockOf(v, n, l)) /\ (n - 1) + 1 = n
      BY <1>0, FoldedPoly DEF M
    <3> QED BY <3>1
  <2>2. TimesOn(G[l], BlockOf(u, n, l), BlockOf(v, n, l))
    BY DEF TimesOn, BlockOf
  <2> HIDE DEF G
  <2>3. n - 1 \in 0..(n - 1) /\ n \in Nat
    BY <1>0
  <2> QED BY <1>0, <2>1, <2>2, <2>3, PolyTimes
<1>5. DOMAIN G = 1..M
  OBVIOUS
<1>6. \A x \in Elements : f[x] = Dot(Folded(u, n, x), Folded(v, n, x))
  OBVIOUS
<1>7. Poly(n + (n - 1), f)
  <2> HIDE DEF f, G
  <2>1. n + (n - 1) \in Nat
    BY <1>0
  <2> QED BY <1>1, <1>3, <1>4, <1>5, <2>1, PolySums
<1>8. \A x \in Elements : f[x] \in Elements
  <2> HIDE DEF f
  <2>1. n + (n - 1) \in Nat
    BY <1>0
  <2> QED BY <1>7, <2>1, PolyType
<1>9. DOMAIN h = 1..N /\ h = [j \in 1..N |-> h[j]] /\ \A j \in 1..N : h[j] = f[Numeral(j)] /\ h[j] \in Elements
  BY <1>6, <1>8, NumeralType DEF ProductAt
<1>10. Vector(h, N)
  <2>1. h \in [1..N -> Elements]
    BY <1>9
  <2> QED BY <1>0, <2>1 DEF Vector
<1>11. ASSUME NEW x \in Elements PROVE At(h, x) = f[x]
  <2> DEFINE w == [j \in 1..N |-> LagrangeAt(N, x)[j] \otimes h[j]]
  <2>1. Len(h) = N /\ Weights[N][x] = LagrangeAt(N, x) /\ DOMAIN LagrangeAt(N, x) = 1..N
    BY <1>10, WeightsAre DEF Vector
  <2>2. At(h, x) = Dot(LagrangeAt(N, x), h)
    BY <2>1 DEF At
  <2>3. \A j \in 1..N : w[j] = LagrangeAt(N, x)[j] \otimes h[j]
    OBVIOUS
  <2> HIDE DEF w, f
  <2>4. Dot(LagrangeAt(N, x), h) = SumTo(w, N)
    BY <1>0, <2>1, <2>3, DotIs
  <2>5. SumTo(w, N) = f[x]
    <3>1. Samples(h, f, N) /\ Weighted(w, N, x, h)
      BY <1>9, <2>3 DEF Samples, Weighted
    <3> QED BY <1>0, <1>7, <3>1, Interpolates
  <2> QED BY <2>2, <2>4, <2>5
<1>12. XorOver([j \in 1..n |-> h[j]]) = Dot(u, v)
  <2> DEFINE q == [k \in 1..(M * n) |-> Padded(u, k) \otimes Padded(v, k)]
             w == [k \in 1..L |-> u[k] \otimes v[k]]
  <2>0. M * n \in Nat /\ L \in 0..(M * n)
    BY <1>0, <1>1
  <2>1. \A k \in 1..(M * n) : q[k] \in Elements /\ (k > L => q[k] = Zero) /\ (k <= L => q[k] = w[k])
    <3> SUFFICES ASSUME NEW k \in 1..(M * n)
                 PROVE  q[k] \in Elements /\ (k > L => q[k] = Zero) /\ (k <= L => q[k] = w[k])
      OBVIOUS
    <3>1. /\ Padded(u, k) \in Elements /\ (k > L => Padded(u, k) = Zero) /\ (k <= L => Padded(u, k) = u[k])
          /\ Padded(v, k) \in Elements /\ (k > L => Padded(v, k) = Zero) /\ (k <= L => Padded(v, k) = v[k])
      BY <2>0, PaddedType
    <3>2. q[k] = Padded(u, k) \otimes Padded(v, k) /\ (k <= L => w[k] = u[k] \otimes v[k])
      BY <2>0
    <3> HIDE DEF q, w
    <3> QED BY <3>1, <3>2, TimesType, TimesZero
  <2>2. \A i \in 1..n : h[i] = Strides(q, n, M)[i]
    <3> SUFFICES ASSUME NEW i \in 1..n PROVE h[i] = SumTo(Stride(q, n, M, i), M)
      BY DEF Strides
    <3> DEFINE y == Numeral(i)
    <3>1. i \in 1..N /\ y \in Elements
      BY <1>0, NumeralType
    <3>2. h[i] = SumTo(ValuesAt(G, y), M)
      BY <1>3, <1>9, <3>1
    <3>3. ASSUME NEW l \in 1..M PROVE ValuesAt(G, y)[l] = Stride(q, n, M, i)[l]
      <4>1. ValuesAt(G, y)[l] = Folded(u, n, y)[l] \otimes Folded(v, n, y)[l]
        BY <3>1 DEF ValuesAt
      <4>2. BlockOf(u, n, l)[y] = Padded(u, (l - 1) * n + i) /\ BlockOf(v, n, l)[y] = Padded(v, (l - 1) * n + i)
        BY FoldedPoly DEF M
      <4>3. BlockOf(u, n, l)[y] = Folded(u, n, y)[l] /\ BlockOf(v, n, l)[y] = Folded(v, n, y)[l]
        BY <3>1 DEF BlockOf
      <4>4. (l - 1) * n + i \in 1..(M * n)
        <5>1. l \in Nat \ {0} /\ l <= M
          BY <1>1
        <5>2. (l - 1) * n + i \in Nat \ {0} /\ (l - 1) * n + i <= M * n
          BY <1>0, <1>1, <5>1, PlaceInBlock
        <5> QED BY <2>0, <5>2
      <4>5. q[(l - 1) * n + i] = Padded(u, (l - 1) * n + i) \otimes Padded(v, (l - 1) * n + i)
        BY <4>4
      <4>6. Stride(q, n, M, i)[l] = q[(l - 1) * n + i]
        BY DEF Stride
      <4> QED BY <4>1, <4>2, <4>3, <4>5, <4>6
    <3> HIDE DEF q, G
    <3>4. SumTo(ValuesAt(G, y), M) = SumTo(Stride(q, n, M, i), M)
      BY <1>1, <3>3, ToSame
    <3> QED BY <3>2, <3>4
  <2> HIDE DEF q
  <2>3. SumTo(h, n) = SumTo(Strides(q, n, M), n)
    BY <1>0, <2>2, ToSame
  <2>4. SumTo(Strides(q, n, M), n) = SumTo(q, M * n)
    BY <1>0, <1>1, <2>1, SumStrides DEF Valued
  <2>5. SumTo(q, M * n) = SumTo(q, L)
    <3> DEFINE T == M * n
    <3>1. T \in Nat /\ L \in 0..T
      BY <2>0
    <3>2. \A k \in 1..T : q[k] \in Elements /\ (k > L => q[k] = Zero)
      BY <2>1
    <3> HIDE DEF T
    <3>3. Valued(q, L) /\ \A j \in (L + 1)..T : q[j] = Zero
      BY <3>1, <3>2 DEF Valued
    <3>4. SumTo(q, T) = SumTo(q, L)
      BY <3>1, <3>3, SumStops
    <3> QED BY <3>4 DEF T
  <2>6. SumTo(q, L) = SumTo(w, L)
    <3> HIDE DEF w
    <3> DEFINE T == M * n
    <3>1. T \in Nat /\ L \in 0..T
      BY <2>0
    <3>2. \A k \in 1..T : k <= L => q[k] = w[k]
      BY <2>1
    <3> HIDE DEF T
    <3>3. \A k \in 1..L : q[k] = w[k]
      BY <3>1, <3>2
    <3> QED BY <3>3, ToSame
  <2>7. Dot(u, v) = SumTo(w, L)
    <3>1. DOMAIN u = 1..L /\ \A j \in 1..L : w[j] = u[j] \otimes v[j]
      BY DEF Vector
    <3> HIDE DEF w
    <3> QED BY <3>1, DotIs
  <2> QED BY <2>3, <2>4, <2>5, <2>6, <2>7 DEF SumTo
<1> HIDE DEF f
<1>13. \A x \in Elements : At(h, x) = Dot(Folded(u, n, x), Folded(v, n, x)) /\ At(h, x) \in Elements
  BY <1>6, <1>8, <1>11
<1>14. SumTo(h, n) = Dot(u, v)
  BY <1>12 DEF SumTo
<1>15. Proven(h, u, v, n, N)
  BY <1>9, <1>10, <1>13, <1>14 DEF Proven
<1> QED BY <1>15 DEF h

-----------------------------------------------------------------------------
(* Two shares of a proof, added up. *)

(* a and b share h. *)
SharesOf(a, b, h, n) == \A j \in 1..n : a[j] ## b[j] = h[j]

(* A vector's value at a point is the sum of what its values weigh.        *)
LEMMA AtIs ==
    ASSUME NEW n \in 2..ProofPoints, NEW w, Vector(w, n), NEW x \in Elements
    PROVE  LET q == [j \in 1..n |-> LagrangeAt(n, x)[j] \otimes w[j]]
           IN At(w, x) = SumTo(q, n) /\ Valued(q, n) /\ At(w, x) \in Elements
<1> DEFINE L == LagrangeAt(n, x)
           q == [j \in 1..n |-> L[j] \otimes w[j]]
<1>1. Weights[n][x] = L /\ DOMAIN L = 1..n
  BY WeightsAre
<1>2. Len(w) = n /\ \A j \in 1..n : w[j] \in Elements
  BY DEF Vector
<1>3. n \in Nat /\ n <= ProofPoints /\ ProofPoints \in Nat
  BY DzkpSizes DEF ProofPoints
<1>4. \A j \in 1..n : L[j] \in Elements
  <2>1. Apart(ProofPoints)
    BY PointsDiffer DEF Apart
  <2> SUFFICES ASSUME NEW j \in 1..n PROVE L[j] \in Elements
    OBVIOUS
  <2>2. n \in 1..ProofPoints
    BY <1>3
  <2>3. Poly(n, WeightOf(n, j))
    BY <1>3, <2>1, <2>2, LagrangePoly
  <2>4. WeightOf(n, j)[x] \in Elements
    BY <1>3, <2>3, PolyType
  <2> QED BY <2>4 DEF WeightOf
<1> HIDE DEF L
<1>5. At(w, x) = Dot(L, w)
  BY <1>1, <1>2 DEF At
<1>6. \A j \in 1..n : q[j] = L[j] \otimes w[j]
  OBVIOUS
<1>7. Valued(q, n)
  BY <1>2, <1>4, <1>6, TimesType DEF Valued
<1> HIDE DEF q
<1>8. Dot(L, w) = SumTo(q, n)
  BY <1>1, <1>3, <1>6, DotIs
<1>9. SumTo(q, n) \in Elements
  BY <1>3, <1>7, ToType
<1> QED BY <1>5, <1>7, <1>8, <1>9 DEF q, L

(* Values at a point add up.                                               *)
LEMMA AtShares ==
    ASSUME NEW n \in 2..ProofPoints, NEW a, NEW b, NEW h, Vector(a, n), Vector(b, n), Vector(h, n),
           SharesOf(a, b, h, n), NEW x \in Elements
    PROVE  /\ At(a, x) ## At(b, x) = At(h, x)
           /\ At(a, x) \in Elements /\ At(b, x) \in Elements
<1> DEFINE L == LagrangeAt(n, x)
           q(w) == [j \in 1..n |-> L[j] \otimes w[j]]
           qa == q(a)
           qb == q(b)
           qh == q(h)
<1>1. /\ At(a, x) = SumTo(qa, n) /\ Valued(qa, n) /\ At(a, x) \in Elements
      /\ At(b, x) = SumTo(qb, n) /\ Valued(qb, n) /\ At(b, x) \in Elements
      /\ At(h, x) = SumTo(qh, n)
  BY AtIs
<1>2. \A j \in 1..n : L[j] \in Elements
  <2>1. Apart(ProofPoints) /\ n \in 1..ProofPoints /\ ProofPoints \in Nat
    BY PointsDiffer, DzkpSizes DEF Apart, ProofPoints
  <2> SUFFICES ASSUME NEW j \in 1..n PROVE L[j] \in Elements
    OBVIOUS
  <2>3. Poly(n, WeightOf(n, j))
    BY <2>1, LagrangePoly
  <2>4. WeightOf(n, j)[x] \in Elements
    BY <2>1, <2>3, PolyType
  <2> QED BY <2>4 DEF WeightOf
<1> HIDE DEF L
<1>3. ASSUME NEW j \in 1..n PROVE qh[j] = qa[j] ## qb[j]
  <2>1. qh[j] = L[j] \otimes h[j] /\ qa[j] = L[j] \otimes a[j] /\ qb[j] = L[j] \otimes b[j]
    OBVIOUS
  <2>2. h[j] = a[j] ## b[j] /\ a[j] \in Elements /\ b[j] \in Elements
    BY DEF SharesOf, Vector
  <2>3. L[j] \otimes (a[j] ## b[j]) = (L[j] \otimes a[j]) ## (L[j] \otimes b[j])
    BY <1>2, <2>2, TimesAdd
  <2> QED BY <2>1, <2>2, <2>3
<1> HIDE DEF qa, qb, qh
<1>4. n \in Nat
  OBVIOUS
<1>5. SumTo(qh, n) = SumTo(qa, n) ## SumTo(qb, n)
  BY <1>1, <1>3, <1>4, SumOfSums
<1> QED BY <1>1, <1>5

(* The first values add up.                                                *)
LEMMA FirstShares ==
    ASSUME NEW m \in Nat, NEW n \in 0..m, NEW a, NEW b, NEW h, Vector(a, m), Vector(b, m),
           SharesOf(a, b, h, m)
    PROVE  /\ SumTo(a, n) ## SumTo(b, n) = SumTo(h, n)
           /\ SumTo(a, n) \in Elements /\ SumTo(b, n) \in Elements
<1>1. Valued(a, n) /\ Valued(b, n)
  BY DEF Valued, Vector
<1>2. \A j \in 1..n : h[j] = a[j] ## b[j]
  BY DEF SharesOf
<1> QED BY <1>1, <1>2, SumOfSums, ToType

(* A coordinate more.                                                      *)
LEMMA DotAppend ==
    ASSUME NEW n \in Nat, NEW u, NEW v, Vector(u, n), Vector(v, n), NEW a \in Elements, NEW b \in Elements
    PROVE  /\ Vector(Append(u, a), n + 1) /\ Vector(Append(v, b), n + 1)
           /\ Dot(u, v) \in Elements
           /\ Dot(Append(u, a), Append(v, b)) = Dot(u, v) ## (a \otimes b)
<1> DEFINE x == Append(u, a)
           y == Append(v, b)
           q == [j \in 1..(n + 1) |-> x[j] \otimes y[j]]
<1>1. Vector(x, n + 1) /\ Vector(y, n + 1)
  BY DEF Vector
<1>2. \A j \in 1..n : x[j] = u[j] /\ y[j] = v[j]
  BY DEF Vector
<1>3. x[n + 1] = a /\ y[n + 1] = b
  BY DEF Vector
<1> HIDE DEF x, y
<1>4. DOMAIN u = 1..n /\ DOMAIN x = 1..(n + 1)
  BY <1>1 DEF Vector
<1>5. \A j \in 1..(n + 1) : q[j] = x[j] \otimes y[j]
  OBVIOUS
<1>6. Valued(q, n + 1)
  BY <1>1, <1>5, TimesType DEF Valued, Vector
<1> HIDE DEF q
<1>7. \A j \in 1..n : q[j] = u[j] \otimes v[j]
  BY <1>2, <1>5
<1>8. Dot(u, v) = SumTo(q, n) /\ Dot(x, y) = SumTo(q, n + 1)
  BY <1>4, <1>5, <1>7, DotIs
<1>9. SumTo(q, n + 1) = SumTo(q, n) ## q[n + 1] /\ SumTo(q, n) \in Elements
  BY <1>6, ToNext
<1>10. q[n + 1] = a \otimes b
  BY <1>3, <1>5
<1> QED BY <1>1, <1>8, <1>9, <1>10 DEF x, y

(* A vector of one block folds to its value at the point.                  *)
LEMMA OneBlock ==
    ASSUME NEW n \in 2..ProofPoints, NEW u, NEW v, Vector(u, n), Vector(v, n), NEW x \in Elements
    PROVE  Dot(Folded(u, n, x), Folded(v, n, x)) = At(u, x) \otimes At(v, x)
<1>1. ASSUME NEW w, Vector(w, n)
      PROVE  DOMAIN Folded(w, n, x) = 1..1 /\ Folded(w, n, x)[1] = At(w, x)
  <2> DEFINE f == [j \in 1..n |-> Weights[n][x][j] \otimes Padded(w, (1 - 1) * n + j)]
             q == [j \in 1..n |-> LagrangeAt(n, x)[j] \otimes w[j]]
  <2>1. Blocks(Len(w), n) = 1
    BY <1>1, BlocksCover DEF Vector
  <2>2. Folded(w, n, x)[1] = XorOver(f) /\ DOMAIN Folded(w, n, x) = 1..1
    BY <2>1 DEF Folded
  <2>3. \A j \in 1..n : (1 - 1) * n + j = j /\ Padded(w, j) = w[j]
    BY <1>1, PaddedType
  <2>4. Weights[n][x] = LagrangeAt(n, x)
    BY WeightsAre
  <2>5. f = q
    BY <2>3, <2>4
  <2>6. At(w, x) = SumTo(q, n)
    BY <1>1, AtIs
  <2>7. SumTo(q, n) = XorOver(q)
    BY DEF SumTo
  <2> QED BY <2>2, <2>5, <2>6, <2>7
<1> DEFINE fu == Folded(u, n, x)
           fv == Folded(v, n, x)
           q == [j \in 1..1 |-> fu[j] \otimes fv[j]]
<1>2. /\ DOMAIN fu = 1..1 /\ fu[1] = At(u, x) /\ fv[1] = At(v, x)
      /\ At(u, x) \in Elements /\ At(v, x) \in Elements
  BY <1>1, AtIs
<1> HIDE DEF fu, fv
<1>3. \A j \in 1..1 : q[j] = fu[j] \otimes fv[j]
  OBVIOUS
<1>4. q[1] \in Elements /\ q[1] = At(u, x) \otimes At(v, x)
  BY <1>2, <1>3, TimesType
<1> HIDE DEF q
<1>5. Dot(fu, fv) = SumTo(q, 1)
  <2> DEFINE n1 == 1
  <2>1. n1 \in Nat /\ DOMAIN fu = 1..n1 /\ \A j \in 1..n1 : q[j] = fu[j] \otimes fv[j]
    BY <1>2, <1>3
  <2> HIDE DEF n1
  <2>2. Dot(fu, fv) = SumTo(q, n1)
    BY <2>1, DotIs
  <2> QED BY <2>2 DEF n1
<1>6. SumTo(q, 1) = q[1]
  <2>1. 1 \in 1..1 /\ (1..1) \ {1} = {} /\ 1 \in Nat
    OBVIOUS
  <2> QED BY <1>4, <2>1, SumOfOne
<1> QED BY <1>4, <1>5, <1>6 DEF fu, fv

-----------------------------------------------------------------------------
(* The statement. *)

(* What party p multiplied, from its log entry.                            *)
ProductOf(e) ==
    (e.x[1] \cap e.y[1]) ## (e.x[1] \cap e.y[2]) ## (e.x[2] \cap e.y[1]) ## (e.f[1] ## e.f[2])

(* A log and the next party's: what both hold is the same.                 *)
LogPair(l, m, n) ==
    /\ DOMAIN l = 1..n /\ DOMAIN m = 1..n
    /\ \A i \in 1..n : l[i].x[2] = m[i].x[1] /\ l[i].y[2] = m[i].y[1] /\ l[i].f[2] = m[i].f[1]

(* And the one has received the other's products.                          *)
Received(l, m, n) == \A i \in 1..n : l[i].in = ProductOf(m[i])

(* A bit's place in the log.                                               *)
LEMMA BitPlace ==
    ASSUME NEW n \in Nat, NEW g \in 1..(LaneWidth * n)
    PROVE  ((g - 1) \div LaneWidth) + 1 \in 1..n
<1> DEFINE d == g - 1
           T == LaneWidth * n
           k == d \div LaneWidth
<1>1. LaneWidth \in Nat \ {0} /\ T \in Nat
  BY DzkpSizes
<1>2. d \in Nat /\ d < T
  BY <1>1
<1> HIDE DEF d
<1>3. d = LaneWidth * k + (d % LaneWidth) /\ (d % LaneWidth) \in 0..(LaneWidth - 1) /\ k \in Nat
  BY <1>1, <1>2
<1> HIDE DEF k
<1>4. k < n
  <2> SUFFICES ASSUME n <= k PROVE FALSE
    BY <1>3
  <2> DEFINE e == k - n
  <2>1. e \in Nat /\ k = n + e
    BY <1>3
  <2> HIDE DEF e
  <2>2. LaneWidth * (n + e) = LaneWidth * n + LaneWidth * e /\ LaneWidth * e \in Nat
    BY <1>1, <2>1
  <2> QED BY <1>1, <1>2, <1>3, <2>1, <2>2
<1> QED BY <1>3, <1>4 DEF k, d

(* A bit of what the two verifiers know is one of the products they prove. *)
Differ(a, b) == (a /\ ~b) \/ (~a /\ b)
BitKnown(x1, x2, y1, y2, f1, f2) ==
    (x1 \cap y1) ## (x1 \cap y2) ## (x2 \cap y1) ## (f1 ## f2) ## (x1 \cap y1) ## f1
BitProven(x1, x2, y1, y2, f1, f2, l) ==
    Differ(l \in BitKnown(x1, x2, y1, y2, f1, f2), l \in f2)
      <=> Differ(l \in x1 /\ l \in y2, l \in y1 /\ l \in x2)

(* A bit of the prover's product, from what the verifiers know.            *)
LEMMA BitProduct ==
    ASSUME NEW x1, NEW x2, NEW y1, NEW y2, NEW f1, NEW f2, NEW l
    PROVE  BitProven(x1, x2, y1, y2, f1, f2, l)
<1> DEFINE a == x1 \cap y1
           b == x1 \cap y2
           c == x2 \cap y1
<1>1. (l \in b <=> l \in x1 /\ l \in y2) /\ (l \in c <=> l \in y1 /\ l \in x2)
  OBVIOUS
<1> HIDE DEF a, b, c
<1>2. (l \in (a ## b)) <=> Differ(l \in a, l \in b)
  BY InSymDiff DEF Differ
<1>3. (l \in (a ## b ## c)) <=> Differ(l \in (a ## b), l \in c)
  BY InSymDiff DEF Differ
<1>4. (l \in (f1 ## f2)) <=> Differ(l \in f1, l \in f2)
  BY InSymDiff DEF Differ
<1>5. (l \in (a ## b ## c ## (f1 ## f2))) <=> Differ(l \in (a ## b ## c), l \in (f1 ## f2))
  BY InSymDiff DEF Differ
<1>6. (l \in (a ## b ## c ## (f1 ## f2) ## a)) <=> Differ(l \in (a ## b ## c ## (f1 ## f2)), l \in a)
  BY InSymDiff DEF Differ
<1>7. (l \in (a ## b ## c ## (f1 ## f2) ## a ## f1))
        <=> Differ(l \in (a ## b ## c ## (f1 ## f2) ## a), l \in f1)
  BY InSymDiff DEF Differ
<1>8. Differ(l \in (a ## b ## c ## (f1 ## f2) ## a ## f1), l \in f2) <=> Differ(l \in b, l \in c)
  BY <1>2, <1>3, <1>4, <1>5, <1>6, <1>7 DEF Differ
<1> QED BY <1>1, <1>8 DEF a, b, c, Differ, BitKnown, BitProven

(* The weights of the bits in b.                                           *)
Chosen(lambda, b, n) == [g \in 1..n |-> IF g \in b THEN lambda[g] ELSE Zero]
BitsOf(column, n) == {g \in 1..n : BitOf(column, g)}

(* Chosen elements are elements, and so is their sum.                      *)
LEMMA ChosenType ==
    ASSUME NEW n \in Nat, NEW lambda, Valued(lambda, n), NEW b
    PROVE  Valued(Chosen(lambda, b, n), n) /\ SumTo(Chosen(lambda, b, n), n) \in Elements
<1>1. Valued(Chosen(lambda, b, n), n)
  BY AddType DEF Valued, Chosen
<1> QED BY <1>1, ToType

(* Bits that differ in the same places weigh the same together.            *)
LEMMA ChosenAdds ==
    ASSUME NEW n \in Nat, NEW lambda, Valued(lambda, n), NEW a, NEW b, NEW c, NEW d,
           \A g \in 1..n : Differ(g \in a, g \in b) <=> Differ(g \in c, g \in d)
    PROVE  SumTo(Chosen(lambda, a, n), n) ## SumTo(Chosen(lambda, b, n), n)
             = SumTo(Chosen(lambda, c, n), n) ## SumTo(Chosen(lambda, d, n), n)
<1> DEFINE f(s) == Chosen(lambda, s, n)
           h == [g \in 1..n |-> f(a)[g] ## f(b)[g]]
<1>1. ASSUME NEW g \in 1..n PROVE f(a)[g] ## f(b)[g] = f(c)[g] ## f(d)[g]
  <2> DEFINE v == lambda[g]
  <2>1. \A s : f(s)[g] = IF g \in s THEN v ELSE Zero
    BY DEF Chosen
  <2> HIDE DEF f, v
  <2>2. v ## v = Zero /\ v ## Zero = v /\ Zero ## v = v /\ Zero ## Zero = Zero
    BY AddSelf, AddZero
  <2>3. Differ(g \in a, g \in b) <=> Differ(g \in c, g \in d)
    OBVIOUS
  <2>4. /\ f(a)[g] = IF g \in a THEN v ELSE Zero
        /\ f(b)[g] = IF g \in b THEN v ELSE Zero
        /\ f(c)[g] = IF g \in c THEN v ELSE Zero
        /\ f(d)[g] = IF g \in d THEN v ELSE Zero
    BY <2>1
  <2> QED BY <2>2, <2>3, <2>4 DEF Differ
<1>2. /\ \A g \in 1..n : h[g] = f(a)[g] ## f(b)[g]
      /\ \A g \in 1..n : h[g] = f(c)[g] ## f(d)[g]
  BY <1>1
<1>3. Valued(f(a), n) /\ Valued(f(b), n) /\ Valued(f(c), n) /\ Valued(f(d), n)
  BY ChosenType
<1> HIDE DEF h, f
<1>4. SumTo(h, n) = SumTo(f(a), n) ## SumTo(f(b), n)
  BY <1>2, <1>3, SumOfSums
<1>5. SumTo(h, n) = SumTo(f(c), n) ## SumTo(f(d), n)
  BY <1>2, <1>3, SumOfSums
<1> QED BY <1>4, <1>5 DEF f

(* The odd and the even places of two interlaced vectors.                  *)
LEMMA InterlacedAre ==
    ASSUME NEW n \in Nat, NEW weight, Vector(weight, n), NEW odd, NEW even
    PROVE  LET w == Interlaced(weight, odd, even)
           IN /\ Vector(w, 2 * n) /\ DOMAIN w = 1..(2 * n)
              /\ \A l \in 1..n :
                    /\ w[(l - 1) * 2 + 1] = IF l \in BitsOf(odd, n) THEN weight[l] ELSE Zero
                    /\ w[(l - 1) * 2 + 2] = IF l \in BitsOf(even, n) THEN weight[l] ELSE Zero
<1> DEFINE w == Interlaced(weight, odd, even)
           v(e) == LET g == (e + 1) \div 2
                   IN IF BitOf(IF e % 2 = 1 THEN odd ELSE even, g) THEN weight[g] ELSE Zero
<1>1. w = [e \in 1..(2 * n) |-> v(e)]
  BY DEF Interlaced, Vector
<1>2. \A g \in 1..n : weight[g] \in Elements
  BY DEF Vector
<1>3. ASSUME NEW e \in 1..(2 * n) PROVE v(e) \in Elements
  <2> DEFINE g == (e + 1) \div 2
  <2>1. g \in 1..n
    OBVIOUS
  <2> HIDE DEF g
  <2>2. weight[g] \in Elements /\ Zero \in Elements
    BY <1>2, <2>1, AddType
  <2>3. v(e) = IF BitOf(IF e % 2 = 1 THEN odd ELSE even, g) THEN weight[g] ELSE Zero
    BY DEF g
  <2> HIDE DEF v
  <2> QED BY <2>2, <2>3
<1>4. ASSUME NEW l \in 1..n
      PROVE  /\ (l - 1) * 2 + 1 \in 1..(2 * n) /\ (l - 1) * 2 + 2 \in 1..(2 * n)
             /\ (((l - 1) * 2 + 1) + 1) \div 2 = l /\ (((l - 1) * 2 + 2) + 1) \div 2 = l
             /\ ((l - 1) * 2 + 1) % 2 = 1 /\ ((l - 1) * 2 + 2) % 2 = 0
  OBVIOUS
<1>5. ASSUME NEW l \in 1..n
      PROVE  /\ w[(l - 1) * 2 + 1] = IF BitOf(odd, l) THEN weight[l] ELSE Zero
             /\ w[(l - 1) * 2 + 2] = IF BitOf(even, l) THEN weight[l] ELSE Zero
  BY <1>1, <1>4
<1> HIDE DEF v
<1>6. Vector(w, 2 * n) /\ DOMAIN w = 1..(2 * n)
  <2>1. 2 * n \in Nat
    OBVIOUS
  <2> DEFINE m == 2 * n
  <2> HIDE DEF m, w
  <2>2. w = [e \in 1..m |-> v(e)] /\ m \in Nat /\ \A e \in 1..m : v(e) \in Elements
    BY <1>1, <1>3, <2>1 DEF m
  <2>3. w \in [1..m -> Elements]
    BY <2>2
  <2>4. w \in Seq(Elements) /\ Len(w) = m /\ DOMAIN w = 1..m
    BY <2>2, <2>3
  <2> QED BY <2>4 DEF Vector, m
<1> HIDE DEF w
<1>7. \A l \in 1..n : (l \in BitsOf(odd, n) <=> BitOf(odd, l)) /\ (l \in BitsOf(even, n) <=> BitOf(even, l))
  BY DEF BitsOf
<1> QED BY <1>5, <1>6, <1>7 DEF w

(* All weights are one. *)
Ones(n) == [g \in 1..n |-> One]

(* The inner product of the interlaced bits.                               *)
LEMMA DotInterlaced ==
    ASSUME NEW n \in Nat, NEW lambda, Vector(lambda, n), NEW a, NEW b, NEW c, NEW d
    PROVE  LET A == BitsOf(a, n)
               C == BitsOf(b, n)
               D == BitsOf(c, n)
               E == BitsOf(d, n)
           IN Dot(Interlaced(lambda, a, b), Interlaced(Ones(n), c, d))
                = SumTo(Chosen(lambda, A \cap D, n), n) ## SumTo(Chosen(lambda, C \cap E, n), n)
<1> DEFINE A == BitsOf(a, n)
           C == BitsOf(b, n)
           D == BitsOf(c, n)
           E == BitsOf(d, n)
           u == Interlaced(lambda, a, b)
           v == Interlaced(Ones(n), c, d)
           p == Chosen(lambda, A \cap D, n)
           r == Chosen(lambda, C \cap E, n)
           q == [j \in 1..(n * 2) |-> u[j] \otimes v[j]]
<1>1. Vector(Ones(n), n) /\ \A g \in 1..n : Ones(n)[g] = One
  BY AddType DEF Vector, Ones
<1>2. /\ Vector(u, 2 * n) /\ DOMAIN u = 1..(2 * n)
      /\ \A l \in 1..n :
            /\ u[(l - 1) * 2 + 1] = IF l \in A THEN lambda[l] ELSE Zero
            /\ u[(l - 1) * 2 + 2] = IF l \in C THEN lambda[l] ELSE Zero
  BY InterlacedAre
<1>3. /\ Vector(v, 2 * n)
      /\ \A l \in 1..n :
            /\ v[(l - 1) * 2 + 1] = IF l \in D THEN Ones(n)[l] ELSE Zero
            /\ v[(l - 1) * 2 + 2] = IF l \in E THEN Ones(n)[l] ELSE Zero
  BY <1>1, InterlacedAre
<1>4. \A l \in 1..n :
            /\ v[(l - 1) * 2 + 1] = IF l \in D THEN One ELSE Zero
            /\ v[(l - 1) * 2 + 2] = IF l \in E THEN One ELSE Zero
  BY <1>1, <1>3
<1> HIDE DEF u, v, A, C, D, E
<1>5. n * 2 = 2 * n /\ n * 2 \in Nat
  OBVIOUS
<1>6. Valued(q, n * 2)
  BY <1>2, <1>3, <1>5, TimesType DEF Valued, Vector
<1>7. \A j \in 1..(n * 2) : q[j] = u[j] \otimes v[j]
  OBVIOUS
<1> HIDE DEF q
<1>8. Dot(u, v) = SumTo(q, n * 2)
  BY <1>2, <1>5, <1>7, DotIs
<1>9. SumTo(Strides(q, 2, n), 2) = SumTo(q, n * 2)
  <2> DEFINE k == 2
  <2>1. k \in Nat \ {0} /\ Valued(q, n * k)
    BY <1>6
  <2> HIDE DEF k
  <2>2. SumTo(Strides(q, k, n), k) = SumTo(q, n * k)
    BY <2>1, SumStrides
  <2> QED BY <2>2 DEF k
<1>10. ASSUME NEW l \in 1..n PROVE /\ q[(l - 1) * 2 + 1] = p[l] /\ q[(l - 1) * 2 + 2] = r[l]
  <2>1. (l - 1) * 2 + 1 \in 1..(n * 2) /\ (l - 1) * 2 + 2 \in 1..(n * 2)
    OBVIOUS
  <2> DEFINE x == lambda[l]
  <2>2. x \in Elements
    BY DEF Vector
  <2>3. /\ p[l] = IF l \in A /\ l \in D THEN x ELSE Zero
        /\ r[l] = IF l \in C /\ l \in E THEN x ELSE Zero
    BY DEF Chosen
  <2>4. /\ u[(l - 1) * 2 + 1] = IF l \in A THEN x ELSE Zero
        /\ u[(l - 1) * 2 + 2] = IF l \in C THEN x ELSE Zero
    BY <1>2
  <2> HIDE DEF x, p, r
  <2>5. x \otimes One = x /\ x \otimes Zero = Zero /\ Zero \otimes One = Zero /\ Zero \otimes Zero = Zero
    BY <2>2, TimesOne, TimesZero, AddType
  <2>6. /\ q[(l - 1) * 2 + 1] = u[(l - 1) * 2 + 1] \otimes v[(l - 1) * 2 + 1]
        /\ q[(l - 1) * 2 + 2] = u[(l - 1) * 2 + 2] \otimes v[(l - 1) * 2 + 2]
    BY <1>7, <2>1
  <2>7. q[(l - 1) * 2 + 1] = p[l]
    BY <1>4, <2>3, <2>4, <2>5, <2>6
  <2>8. q[(l - 1) * 2 + 2] = r[l]
    BY <1>4, <2>3, <2>4, <2>5, <2>6
  <2> QED BY <2>7, <2>8
<1> DEFINE s == Strides(q, 2, n)
<1>11. /\ s[1] = SumTo(Stride(q, 2, n, 1), n) /\ s[2] = SumTo(Stride(q, 2, n, 2), n)
  BY DEF Strides
<1>12. /\ \A l \in 1..n : Stride(q, 2, n, 1)[l] = p[l]
       /\ \A l \in 1..n : Stride(q, 2, n, 2)[l] = r[l]
  BY <1>10 DEF Stride
<1> HIDE DEF p, r, s
<1>13. s[1] = SumTo(p, n) /\ s[2] = SumTo(r, n)
  BY <1>11, <1>12, ToSame
<1>14. Valued(lambda, n)
  BY DEF Vector, Valued
<1>15. SumTo(p, n) \in Elements /\ SumTo(r, n) \in Elements
  BY <1>14, ChosenType DEF p, r
<1>16. SumTo(s, 2) = s[1] ## s[2]
  <2>1. 1 \in Nat /\ 0 \in Nat /\ 0 + 1 = 1 /\ 1 + 1 = 2 /\ 1..2 = {1, 2} /\ 1..1 = {1}
    OBVIOUS
  <2>2. Valued(s, 1 + 1) /\ Valued(s, 0 + 1)
    BY <1>13, <1>15, <2>1 DEF Valued
  <2>3. SumTo(s, 1 + 1) = SumTo(s, 1) ## s[1 + 1]
    BY <2>1, <2>2, ToNext
  <2>4. SumTo(s, 0 + 1) = SumTo(s, 0) ## s[0 + 1]
    BY <2>1, <2>2, ToNext
  <2>5. SumTo(s, 0) = Zero /\ Zero ## s[1] = s[1]
    BY ToNone, AddZero
  <2> QED BY <2>1, <2>3, <2>4, <2>5
<1> QED BY <1>8, <1>9, <1>13, <1>16 DEF s, u, v, p, r, A, C, D, E

(* The bits of what the verifiers know.                                    *)
LEMMA SumAtIs ==
    ASSUME NEW n \in Nat, NEW lambda, Vector(lambda, n), NEW column
    PROVE  SumAt(lambda, column) = SumTo(Chosen(lambda, BitsOf(column, n), n), n)
<1> DEFINE f == [g \in 1..n |-> IF BitOf(column, g) THEN lambda[g] ELSE Zero]
           h == Chosen(lambda, BitsOf(column, n), n)
<1>1. SumAt(lambda, column) = XorOver(f)
  BY DEF SumAt, Vector
<1>2. h = f
  BY DEF Chosen, BitsOf
<1>3. SumTo(h, n) = XorOver([j \in 1..n |-> h[j]])
  BY DEF SumTo
<1> HIDE DEF f
<1>4. [j \in 1..n |-> h[j]] = h
  BY DEF Chosen
<1> QED BY <1>1, <1>2, <1>3, <1>4

(* The left verifier's and the right one's targets add up to the inner     *)
(* product of the prover's vectors, and each holds one of these vectors    *)
(* (dzkp.rs:252).                                                          *)
LEMMA Statement ==
    ASSUME NEW n \in Nat, NEW before, NEW prover, NEW after, LogPair(before, prover, n),
           LogPair(prover, after, n), Received(before, prover, n),
           NEW lambda, Vector(lambda, LaneWidth * n)
    PROVE  /\ VectorU(before, lambda, 2) = VectorU(prover, lambda, 1)
           /\ VectorV(after, 1) = VectorV(prover, 2)
           /\ Vector(VectorU(prover, lambda, 1), 2 * (LaneWidth * n))
           /\ Vector(VectorV(prover, 2), 2 * (LaneWidth * n))
           /\ TargetLeft(before, lambda) ## TargetRight(after, lambda)
                = Dot(VectorU(prover, lambda, 1), VectorV(prover, 2))
           /\ TargetLeft(before, lambda) \in Elements /\ TargetRight(after, lambda) \in Elements
<1> DEFINE M == LaneWidth * n
           x1 == Column(prover, "x", 1)
           x2 == Column(prover, "x", 2)
           y1 == Column(prover, "y", 1)
           y2 == Column(prover, "y", 2)
           tl == [k \in DOMAIN before |-> before[k].in ## (before[k].x[2] \cap before[k].y[2]) ## before[k].f[2]]
           tr == Column(after, "f", 1)
<1>1. M \in Nat
  BY DzkpSizes
<1>2. DOMAIN before = 1..n /\ DOMAIN prover = 1..n /\ DOMAIN after = 1..n
  BY DEF LogPair
<1>3. /\ Column(before, "x", 2) = x1 /\ Column(before, "y", 2) = y1
      /\ Column(after, "x", 1) = x2 /\ Column(after, "y", 1) = y2
  BY <1>2 DEF Column, LogPair
<1>4. Len(before) = n /\ Len(prover) = n /\ Len(after) = n
  <2> USE DEF IsSeq
  <2>1. \A l : DOMAIN l = 1..n => Len(l) = n
    OBVIOUS
  <2> QED BY <1>2, <2>1
<1>5. Bits(before) = M /\ Bits(prover) = M /\ Bits(after) = M
  BY <1>4 DEF Bits
<1>6. /\ VectorU(before, lambda, 2) = Interlaced(lambda, x1, y1)
      /\ VectorU(prover, lambda, 1) = Interlaced(lambda, x1, y1)
      /\ VectorV(after, 1) = Interlaced(Ones(M), y2, x2)
      /\ VectorV(prover, 2) = Interlaced(Ones(M), y2, x2)
  BY <1>3, <1>5 DEF VectorU, VectorV, Ones
<1>7. Vector(Ones(M), M)
  BY <1>1, AddType DEF Vector, Ones
<1>8. ASSUME NEW g \in 1..M
      PROVE  Differ(g \in BitsOf(tl, M), g \in BitsOf(tr, M))
               <=> Differ(g \in BitsOf(x1, M) \cap BitsOf(y2, M), g \in BitsOf(y1, M) \cap BitsOf(x2, M))
  <2> DEFINE i == ((g - 1) \div LaneWidth) + 1
             l == (g - 1) % LaneWidth
             e == prover[i]
  <2>1. i \in 1..n
    BY BitPlace
  <2>2. \A col : g \in BitsOf(col, M) <=> l \in col[i]
    BY DEF BitsOf, BitOf
  <2> HIDE DEF i, l
  <2>3. x1[i] = e.x[1] /\ x2[i] = e.x[2] /\ y1[i] = e.y[1] /\ y2[i] = e.y[2]
    BY <1>2, <2>1 DEF Column
  <2>4. tr[i] = e.f[2]
    <3>1. tr[i] = after[i].f[1]
      BY <1>2, <2>1 DEF Column
    <3> QED BY <2>1, <3>1 DEF LogPair
  <2>5. tl[i] = (e.x[1] \cap e.y[1]) ## (e.x[1] \cap e.y[2]) ## (e.x[2] \cap e.y[1]) ## (e.f[1] ## e.f[2])
                  ## (e.x[1] \cap e.y[1]) ## e.f[1]
    <3>1. tl[i] = before[i].in ## (before[i].x[2] \cap before[i].y[2]) ## before[i].f[2]
      BY <1>2, <2>1
    <3>2. before[i].x[2] = e.x[1] /\ before[i].y[2] = e.y[1] /\ before[i].f[2] = e.f[1]
      BY <2>1 DEF LogPair
    <3>3. before[i].in = (e.x[1] \cap e.y[1]) ## (e.x[1] \cap e.y[2]) ## (e.x[2] \cap e.y[1]) ## (e.f[1] ## e.f[2])
      BY <2>1 DEF Received, ProductOf
    <3> QED BY <3>1, <3>2, <3>3
  <2> HIDE DEF e, x1, x2, y1, y2, tl, tr
  <2>6. Differ(l \in tl[i], l \in tr[i])
          <=> Differ(l \in e.x[1] /\ l \in e.y[2], l \in e.y[1] /\ l \in e.x[2])
    <3> DEFINE a1 == e.x[1]
               a2 == e.x[2]
               b1 == e.y[1]
               b2 == e.y[2]
               f1 == e.f[1]
               f2 == e.f[2]
    <3> HIDE DEF a1, a2, b1, b2, f1, f2
    <3>1. BitProven(a1, a2, b1, b2, f1, f2, l)
      BY BitProduct
    <3>2. tl[i] = BitKnown(a1, a2, b1, b2, f1, f2) /\ tr[i] = f2
      BY <2>4, <2>5 DEF a1, a2, b1, b2, f1, f2, BitKnown
    <3> QED BY <3>1, <3>2, Zenon DEF a1, a2, b1, b2, BitProven
  <2>7. /\ g \in BitsOf(tl, M) <=> l \in tl[i]
        /\ g \in BitsOf(tr, M) <=> l \in tr[i]
        /\ g \in BitsOf(x1, M) \cap BitsOf(y2, M) <=> l \in e.x[1] /\ l \in e.y[2]
        /\ g \in BitsOf(y1, M) \cap BitsOf(x2, M) <=> l \in e.y[1] /\ l \in e.x[2]
    BY <2>2, <2>3
  <2> QED BY <2>6, <2>7, Zenon DEF Differ
<1> HIDE DEF x1, x2, y1, y2
<1>9. /\ TargetLeft(before, lambda) = SumAt(lambda, tl)
      /\ TargetRight(after, lambda) = SumAt(lambda, tr)
  BY DEF TargetLeft, TargetRight
<1> HIDE DEF tl, tr, M
<1>10. Vector(lambda, M) /\ Valued(lambda, M)
  BY DEF M, Vector, Valued
<1>11. /\ SumAt(lambda, tl) = SumTo(Chosen(lambda, BitsOf(tl, M), M), M)
       /\ SumAt(lambda, tr) = SumTo(Chosen(lambda, BitsOf(tr, M), M), M)
  BY <1>1, <1>10, SumAtIs
<1>12. SumTo(Chosen(lambda, BitsOf(tl, M), M), M) ## SumTo(Chosen(lambda, BitsOf(tr, M), M), M)
         = SumTo(Chosen(lambda, BitsOf(x1, M) \cap BitsOf(y2, M), M), M)
             ## SumTo(Chosen(lambda, BitsOf(y1, M) \cap BitsOf(x2, M), M), M)
  BY <1>1, <1>8, <1>10, ChosenAdds
<1>13. Dot(Interlaced(lambda, x1, y1), Interlaced(Ones(M), y2, x2))
         = SumTo(Chosen(lambda, BitsOf(x1, M) \cap BitsOf(y2, M), M), M)
             ## SumTo(Chosen(lambda, BitsOf(y1, M) \cap BitsOf(x2, M), M), M)
  BY <1>1, <1>10, DotInterlaced
<1>14. /\ Vector(Interlaced(lambda, x1, y1), 2 * M)
       /\ Vector(Interlaced(Ones(M), y2, x2), 2 * M)
  BY <1>1, <1>7, <1>10, InterlacedAre
<1>15. SumAt(lambda, tl) \in Elements /\ SumAt(lambda, tr) \in Elements
  BY <1>1, <1>10, <1>11, ChosenType
<1> QED BY <1>6, <1>9, <1>11, <1>12, <1>13, <1>14, <1>15 DEF M

-----------------------------------------------------------------------------
(* The undisturbed run: what is said, and what the parties come to. *)

(* t is s but for some fields.                                             *)
Same(s, t, changed) == DOMAIN t = Fields /\ \A x \in Fields \ changed : t[x] = s[x]

(* What a prover has said of a round it has entered.                       *)
ProofOf(p, s) ==
    IF IsBase(s) THEN BaseProof(p, [s EXCEPT !.prng = @ - (3 + BaseProofPoints(s.len))])
    ELSE Proof(p, [s EXCEPT !.prng = @ - ProofPoints])

(* The body of q's message to p of stage g, when q is in state s.          *)
Logged(g, s) == Len(s.log) - Len(Sched.ands[g.phase])
Owed(g, s, q, p) ==
    CASE g.at = "level" -> [k \in DOMAIN Sched.ands[g.phase] |-> ProductOf(s.log[Logged(g, s) + k])]
      [] g.at \in {"seed", "coin"} -> <<random.coin[NextOf(p)][g.coins]>>
      [] g.at = "proof" -> IF p = PrevOf(q) THEN ProofOf(q, s).left ELSE ProofOf(q, s).right
      [] g.at \in {"residual", "evals"} -> s.mine
      [] g.at = "open" ->
            Parts([i \in DOMAIN Outputs |-> s.tape[Outputs[i]]], IF p = PrevOf(q) THEN 2 ELSE 1)

(* Of a level: the products.                                               *)
LEMMA OwedLevel ==
    ASSUME NEW g, NEW s, NEW q, NEW p, g.at = "level"
    PROVE  Owed(g, s, q, p) = [k \in DOMAIN Sched.ands[g.phase] |-> ProductOf(s.log[Logged(g, s) + k])]
BY DEF Owed

(* Of a coin: the dealt share.                                             *)
LEMMA OwedCoin ==
    ASSUME NEW g, NEW s, NEW q, NEW p, g.at \in {"seed", "coin"}
    PROVE  Owed(g, s, q, p) = <<random.coin[NextOf(p)][g.coins]>>
<1> DEFINE b == <<random.coin[NextOf(p)][g.coins]>>
<1>1. Owed(g, s, q, p) = b
  BY DEF Owed
<1> QED BY <1>1

(* Of a proof: the half for that verifier.                                 *)
LEMMA OwedProof ==
    ASSUME NEW g, NEW s, NEW q, NEW p, g.at = "proof"
    PROVE  Owed(g, s, q, p) = IF p = PrevOf(q) THEN ProofOf(q, s).left ELSE ProofOf(q, s).right
BY DEF Owed

(* Of a verifier's value: that value.                                      *)
LEMMA OwedMine ==
    ASSUME NEW g, NEW s, NEW q, NEW p, g.at \in {"residual", "evals"}
    PROVE  Owed(g, s, q, p) = s.mine
BY DEF Owed

(* Of an opening: the component the reader lacks.                          *)
LEMMA OwedOpen ==
    ASSUME NEW g, NEW s, NEW q, NEW p, g.at = "open"
    PROVE  Owed(g, s, q, p) =
                Parts([i \in DOMAIN Outputs |-> s.tape[Outputs[i]]], IF p = PrevOf(q) THEN 2 ELSE 1)
BY DEF Owed

(* What p, in state s, says to q in w is what it owes.                     *)
Right(w, s, p, q) ==
    \A i \in 1..Len(w) : \A g :
        Sends(g, p, q) /\ w[i].tag = Tag(g.at, g) => w[i].body = Owed(g, s, p, q)

(* Nothing said is nothing wrong.                                          *)
LEMMA RightNone ==
    ASSUME NEW s, NEW p, NEW q
    PROVE  Right(<< >>, s, p, q)
BY DEF Right

(* One message.                                                            *)
LEMMA RightOne ==
    ASSUME NEW s, NEW p, NEW q, NEW m,
           \A g : Sends(g, p, q) /\ m.tag = Tag(g.at, g) => m.body = Owed(g, s, p, q)
    PROVE  Right(<<m>>, s, p, q)
<1>1. Len(<<m>>) = 1 /\ <<m>>[1] = m /\ 1..1 = {1}
  OBVIOUS
<1> QED BY <1>1 DEF Right

(* Messages after others.                                                  *)
LEMMA RightConcat ==
    ASSUME NEW s, NEW p, NEW q, NEW v, NEW w, IsSeq(v), IsSeq(w), Right(v, s, p, q), Right(w, s, p, q)
    PROVE  Right(v \o w, s, p, q)
<1>1. PICK S, T : v \in Seq(S) /\ w \in Seq(T)
  BY DEF IsSeq
<1>2. /\ Len(v) \in Nat /\ Len(w) \in Nat /\ Len(v \o w) = Len(v) + Len(w)
      /\ \A i \in 1..Len(v) : (v \o w)[i] = v[i]
      /\ \A i \in (Len(v) + 1)..(Len(v) + Len(w)) : (v \o w)[i] = w[i - Len(v)]
  <2>1. v \in Seq(S \cup T) /\ w \in Seq(S \cup T)
    BY <1>1
  <2> QED BY <2>1
<1>3. ASSUME NEW i \in 1..Len(v \o w), NEW g, Sends(g, p, q), (v \o w)[i].tag = Tag(g.at, g)
      PROVE  (v \o w)[i].body = Owed(g, s, p, q)
  <2>1. CASE i \in 1..Len(v)
    BY <1>2, <1>3, <2>1 DEF Right
  <2>2. CASE i \notin 1..Len(v)
    <3>1. i \in (Len(v) + 1)..(Len(v) + Len(w)) /\ i - Len(v) \in 1..Len(w)
      BY <1>2, <2>2
    <3> QED BY <1>2, <1>3, <3>1 DEF Right
  <2> QED BY <2>1, <2>2
<1> QED BY <1>3 DEF Right

(* What p says of a step, and the state it is in then.                     *)
Speaks(next, p) == \A q \in Parties : q # p => Right(next.said[q], next.s, p, q)

(* The tag tells the stage.                                                *)
LEMMA TagTells ==
    ASSUME NEW kind, NEW s, NEW g, Tag(kind, s) = Tag(g.at, g)
    PROVE  g.at = kind /\ g.phase = s.phase /\ g.prover = s.prover /\ g.coins = s.coins /\ g.round = s.round
BY DEF Tag

(* What a message says is owed by whoever is in state t, if it is in every *)
(* stage that the message's tag names.                                     *)
Owes(kind, s, t, body, p, q) ==
    \A g : /\ g.at = kind /\ g.phase = s.phase /\ g.prover = s.prover /\ g.coins = s.coins
           /\ Sends(g, p, q)
           => Owed(g, t, p, q) = body

(* Then the message is right.                                              *)
LEMMA SaidRight ==
    ASSUME NEW p, NEW q, NEW kind, NEW s, NEW t, NEW body, Owes(kind, s, t, body, p, q)
    PROVE  IsSeq(<<Message(kind, s, body)>>) /\ Right(<<Message(kind, s, body)>>, t, p, q)
<1> DEFINE m == Message(kind, s, body)
<1>1. m.tag = Tag(kind, s) /\ m.body = body
  BY MessageIs
<1> HIDE DEF m
<1>2. ASSUME NEW g, Sends(g, p, q), m.tag = Tag(g.at, g) PROVE m.body = Owed(g, t, p, q)
  <2>1. Tag(kind, s) = Tag(g.at, g)
    BY <1>1, <1>2
  <2>2. g.at = kind /\ g.phase = s.phase /\ g.prover = s.prover /\ g.coins = s.coins
    BY <2>1, TagTells
  <2> QED BY <1>1, <1>2, <2>2 DEF Owes
<1>3. \A g : Sends(g, p, q) /\ m.tag = Tag(g.at, g) => m.body = Owed(g, t, p, q)
  BY <1>2
<1>4. Right(<<m>>, t, p, q)
  BY <1>3, RightOne
<1> QED BY <1>4, OneIsSeq DEF m

(* A coin's shares are owed, whatever else the party does.                 *)
LEMMA CoinSpeaks ==
    ASSUME NEW p \in Parties, NEW kind \in {"seed", "coin"}, NEW s, NEW t
    PROVE  \A q \in Parties : q # p => IsSeq(CoinShares(p, kind, s)[q]) /\ Right(CoinShares(p, kind, s)[q], t, p, q)
<1> SUFFICES ASSUME NEW q \in Parties, q # p
             PROVE  IsSeq(CoinShares(p, kind, s)[q]) /\ Right(CoinShares(p, kind, s)[q], t, p, q)
  OBVIOUS
<1> DEFINE b == <<random.coin[NextOf(q)][s.coins]>>
<1>1. CoinShares(p, kind, s)[q] = <<Message(kind, s, b)>>
  BY CoinSharesAre
<1>2. Owes(kind, s, t, b, p, q)
  <2>1. ASSUME NEW g, g.at = kind, g.coins = s.coins
        PROVE  Owed(g, t, p, q) = b
    <3>1. g.at \in {"seed", "coin"}
      BY <2>1
    <3>2. Owed(g, t, p, q) = <<random.coin[NextOf(q)][g.coins]>>
      BY <3>1, OwedCoin
    <3> QED BY <2>1, <3>2
  <2> QED BY <2>1 DEF Owes
<1> HIDE DEF b
<1> QED BY <1>1, <1>2, SaidRight

(* A party that says nothing more owes nothing more.                       *)
LEMMA SilenceSpeaks ==
    ASSUME NEW p, NEW s
    PROVE  Speaks(Then(s, Silence), p)
BY RightNone DEF Speaks, Then, Silence

(* One that tells its fellow verifier a value.                             *)
LEMMA VerifierSpeaks ==
    ASSUME NEW p \in Parties, NEW kind \in {"residual", "evals"}, NEW s, NEW k \in Parties, k # p
    PROVE  Speaks(Then(s, Say(OtherVerifier(p, k), Message(kind, s, s.mine))), p)
<1> DEFINE o == OtherVerifier(p, k)
           w == Say(o, Message(kind, s, s.mine))
<1>1. o \in Parties /\ w[o] = <<Message(kind, s, s.mine)>> /\ \A q \in Parties : q # o => w[q] = << >>
  BY Verifiers, SayIs
<1>2. Owes(kind, s, s, s.mine, p, o)
  <2>1. ASSUME NEW g, g.at = kind PROVE Owed(g, s, p, o) = s.mine
    <3>1. g.at \in {"residual", "evals"}
      BY <2>1
    <3> QED BY <3>1, OwedMine
  <2> QED BY <2>1 DEF Owes
<1>3. Right(<<Message(kind, s, s.mine)>>, s, p, o)
  BY <1>2, SaidRight
<1> HIDE DEF w, o
<1>4. ASSUME NEW q \in Parties PROVE Right(w[q], s, p, q)
  <2>1. CASE q = o
    BY <1>1, <1>3, <2>1
  <2>2. CASE q # o
    <3>1. w[q] = << >>
      BY <1>1, <2>2
    <3> QED BY <3>1, RightNone
  <2> QED BY <2>1, <2>2
<1> QED BY <1>4 DEF Speaks, Then, w, o

(* What a phase logs: the k-th of its ANDs.                                *)
LocalTape(p, s) == LocalGates(p, Sched.locals[s.phase], s.tape, AllLanes)
EntryOf(p, s, k) ==
    [x |-> LocalTape(p, s)[Sched.ands[s.phase][k].left],
     y |-> LocalTape(p, s)[Sched.ands[s.phase][k].right],
     f |-> Halves(random.zero, p, s.draws + k), in |-> {}]
Products(p, s) == [k \in DOMAIN Sched.ands[s.phase] |-> ProductOf(EntryOf(p, s, k))]

(* What a phase does up to its send.                                       *)
LEMMA MultipliedIs ==
    ASSUME NEW p \in Parties, NEW s, IsState(s), s.phase \in 0..Sched.depth
    PROVE  LET ands == Sched.ands[s.phase]
               t == Multiplied(p, s).s
           IN
           /\ Same(s, t, {"at", "tape", "log", "draws"}) /\ t.at = "level"
           /\ DOMAIN ands = 1..Len(ands) /\ Len(ands) \in Nat /\ Len(s.log) \in Nat
           /\ IsSeq(t.log) /\ Len(t.log) = Len(s.log) + Len(ands) /\ t.draws = s.draws + Len(ands)
           /\ \A i \in 1..Len(s.log) : t.log[i] = s.log[i]
           /\ \A k \in 1..Len(ands) : t.log[Len(s.log) + k] = EntryOf(p, s, k)
           /\ t.tape = WithComponent(LocalTape(p, s), ands, 1, Products(p, s))
           /\ Multiplied(p, s) = Then(t, Say(PrevOf(p), Message("level", t, Products(p, s))))
<1> DEFINE ands == Sched.ands[s.phase]
           t == Multiplied(p, s).s
           u == LocalTape(p, s)
           halves(j) == Halves(random.zero, p, s.draws + j)
           products == [j \in DOMAIN ands |-> Product(ands[j], u, halves(j)[1] ## halves(j)[2])]
           entries == [j \in DOMAIN ands |->
                       [x |-> u[ands[j].left], y |-> u[ands[j].right], f |-> halves(j), in |-> {}]]
           new == [s EXCEPT !.at = "level", !.tape = WithComponent(u, ands, 1, products),
                            !.log = @ \o entries, !.draws = @ + Len(ands)]
<1>1. Multiplied(p, s) = Then(new, Say(PrevOf(p), Message("level", new, products)))
  BY DEF Multiplied, LocalTape
<1>2. IsSeq(ands) /\ Len(ands) \in Nat /\ DOMAIN ands = 1..Len(ands)
  BY ScheduleFacts, SeqLength
<1>3. products = Products(p, s)
  <2>1. ASSUME NEW j \in DOMAIN ands
        PROVE  Product(ands[j], u, halves(j)[1] ## halves(j)[2]) = ProductOf(EntryOf(p, s, j))
    <3> DEFINE e == EntryOf(p, s, j)
    <3>1. e.x = u[ands[j].left] /\ e.y = u[ands[j].right] /\ e.f = halves(j)
      BY DEF EntryOf
    <3> HIDE DEF e, u, halves
    <3> QED BY <3>1 DEF Product, ProductOf, e
  <2> HIDE DEF u, halves
  <2> QED BY <2>1, Zenon DEF Products
<1>4. \A j \in DOMAIN ands : entries[j] = EntryOf(p, s, j)
  BY DEF EntryOf
<1> HIDE DEF products, halves, u
<1>5. IsSeq(entries) /\ Len(entries) = Len(ands)
  <2>1. entries = [j \in 1..Len(ands) |-> entries[j]]
    BY <1>2
  <2> HIDE DEF entries
  <2> QED BY <1>2, <2>1, TableIsSeq
<1> HIDE DEF entries
<1>6. /\ DOMAIN new = Fields /\ new.at = "level" /\ new.log = s.log \o entries
      /\ new.tape = WithComponent(u, ands, 1, products) /\ new.draws = s.draws + Len(ands)
      /\ \A x \in Fields \ {"at", "tape", "log", "draws"} : new[x] = s[x]
  BY DEF IsState, Fields
<1>7. t = new
  BY <1>1 DEF Then
<1> HIDE DEF new, t, ands
<1>8. IsSeq(s.log) /\ Len(s.log) \in Nat
  BY SeqLength DEF IsState
<1>9. /\ IsSeq(s.log \o entries) /\ Len(s.log \o entries) = Len(s.log) + Len(entries)
      /\ \A i \in 1..Len(s.log) : (s.log \o entries)[i] = s.log[i]
      /\ \A i \in 1..Len(entries) : (s.log \o entries)[Len(s.log) + i] = entries[i]
  <2> DEFINE l == s.log
  <2> HIDE DEF l
  <2>1. IsSeq(l)
    BY <1>8 DEF l
  <2>2. /\ IsSeq(l \o entries) /\ Len(l \o entries) = Len(l) + Len(entries)
        /\ \A i \in 1..Len(l) : (l \o entries)[i] = l[i]
        /\ \A i \in 1..Len(entries) : (l \o entries)[Len(l) + i] = entries[i]
    BY <1>5, <2>1, ConcatIsSeq
  <2> QED BY <2>2 DEF l
<1>10. Multiplied(p, s) = Then(t, Say(PrevOf(p), Message("level", t, Products(p, s))))
  BY <1>1, <1>3, <1>7
<1>11. Same(s, t, {"at", "tape", "log", "draws"})
  BY <1>6, <1>7 DEF Same
<1>12. IsSeq(t.log) /\ Len(t.log) = Len(s.log) + Len(ands)
  BY <1>5, <1>6, <1>7, <1>9
<1>13. \A i \in 1..Len(s.log) : t.log[i] = s.log[i]
  BY <1>6, <1>7, <1>9
<1>14. \A k \in 1..Len(ands) : t.log[Len(s.log) + k] = EntryOf(p, s, k)
  BY <1>2, <1>4, <1>5, <1>6, <1>7, <1>9
<1>15. t.tape = WithComponent(LocalTape(p, s), ands, 1, Products(p, s))
  BY <1>3, <1>6, <1>7 DEF u
<1>16. t.at = "level" /\ t.draws = s.draws + Len(ands)
  BY <1>6, <1>7
<1> QED BY <1>2, <1>8, <1>10, <1>11, <1>12, <1>13, <1>14, <1>15, <1>16, Zenon DEF t, ands

(* The products it sends are owed.                                         *)
LEMMA MultipliedSpeaks ==
    ASSUME NEW p \in Parties, NEW s, IsState(s), s.phase \in 0..Sched.depth
    PROVE  Speaks(Multiplied(p, s), p)
<1> DEFINE ands == Sched.ands[s.phase]
           t == Multiplied(p, s).s
           o == PrevOf(p)
           w == Say(o, Message("level", t, Products(p, s)))
<1>1. /\ Same(s, t, {"at", "tape", "log", "draws"})
      /\ DOMAIN ands = 1..Len(ands) /\ Len(ands) \in Nat /\ Len(s.log) \in Nat
      /\ Len(t.log) = Len(s.log) + Len(ands)
      /\ \A k \in 1..Len(ands) : t.log[Len(s.log) + k] = EntryOf(p, s, k)
      /\ Multiplied(p, s) = Then(t, w)
  BY MultipliedIs
<1>2. t.phase = s.phase
  BY <1>1 DEF Same, Fields
<1>3. w[o] = <<Message("level", t, Products(p, s))>> /\ \A q \in Parties : q # o => w[q] = << >>
  BY Neighbours, SayIs
<1> HIDE DEF t, w
<1>4. Owes("level", t, t, Products(p, s), p, o)
  <2>1. ASSUME NEW g, g.at = "level", g.phase = t.phase PROVE Owed(g, t, p, o) = Products(p, s)
    <3>1. Owed(g, t, p, o) = [k \in DOMAIN ands |-> ProductOf(t.log[Logged(g, t) + k])]
      BY <1>2, <2>1, OwedLevel
    <3>2. Logged(g, t) = Len(s.log)
      BY <1>1, <1>2, <2>1 DEF Logged
    <3>3. \A k \in DOMAIN ands : t.log[Logged(g, t) + k] = EntryOf(p, s, k)
      BY <1>1, <3>2
    <3> HIDE DEF ands
    <3> QED BY <3>1, <3>3, Zenon DEF Products, ands
  <2> QED BY <2>1 DEF Owes
<1>5. Right(<<Message("level", t, Products(p, s))>>, t, p, o)
  BY <1>4, SaidRight
<1> HIDE DEF o
<1>6. ASSUME NEW q \in Parties PROVE Right(w[q], t, p, q)
  <2>1. CASE q = o
    BY <1>3, <1>5, <2>1
  <2>2. CASE q # o
    <3>1. w[q] = << >>
      BY <1>3, <2>2
    <3> QED BY <3>1, RightNone
  <2> QED BY <2>1, <2>2
<1> QED BY <1>1, <1>6 DEF Speaks, Then

(* The rest of a phase: what was received is logged and completes the      *)
(* products.                                                               *)
LoggedIn(s, inb) ==
    [i \in DOMAIN s.log |->
        IF i > Logged(s, s) THEN [s.log[i] EXCEPT !.in = inb[i - Logged(s, s)]] ELSE s.log[i]]
Raised(s, inb) ==
    [s EXCEPT !.phase = @ + 1, !.log = LoggedIn(s, inb),
              !.tape = WithComponent(@, Sched.ands[s.phase], 2, inb)]
Finished(p, s) ==
    [s EXCEPT !.at = "seed", !.tape = LocalGates(p, Sched.locals[Sched.depth], @, AllLanes)]

(* What is received is raised into a state, in these fields.               *)
LEMMA RaisedIs ==
    ASSUME NEW s, IsState(s), s.at = "level", NEW inb
    PROVE  LET t == Raised(s, inb)
           IN /\ Same(s, t, {"phase", "log", "tape"}) /\ t.phase = s.phase + 1 /\ IsState(t)
              /\ t.log = LoggedIn(s, inb) /\ Len(t.log) = Len(s.log) /\ DOMAIN t.log = 1..Len(s.log)
              /\ t.tape = WithComponent(s.tape, Sched.ands[s.phase], 2, inb)
<1> DEFINE u == WithComponent(s.tape, Sched.ands[s.phase], 2, inb)
           l == LoggedIn(s, inb)
           t == [s EXCEPT !.phase = @ + 1, !.log = l, !.tape = u]
<1>1. Raised(s, inb) = t
  BY DEF Raised
<1>2. Len(s.log) \in Nat /\ DOMAIN s.log = 1..Len(s.log) /\ s.phase \in Nat
  BY SeqLength DEF IsState
<1>3. IsSeq(l) /\ Len(l) = Len(s.log) /\ DOMAIN l = 1..Len(s.log)
  <2>1. l = [i \in 1..Len(s.log) |-> l[i]]
    BY <1>2 DEF LoggedIn
  <2> HIDE DEF l
  <2> QED BY <1>2, <2>1, TableIsSeq
<1> HIDE DEF l, u
<1>4. /\ DOMAIN t = Fields /\ t.phase = s.phase + 1 /\ t.log = l /\ t.tape = u
      /\ \A x \in Fields \ {"phase", "log", "tape"} : t[x] = s[x]
  BY DEF IsState, Fields
<1> HIDE DEF t
<1>5. IsState(t)
  <2>1. t.at = s.at /\ t.prover = s.prover
    BY <1>4 DEF Fields
  <2> QED BY <1>2, <1>3, <1>4, <2>1 DEF IsState
<1> QED BY <1>1, <1>3, <1>4, <1>5 DEF Same, l, u

(* The last phase is finished with the gates of the last round.            *)
LEMMA FinishedIs ==
    ASSUME NEW p, NEW s, IsState(s)
    PROVE  LET t == Finished(p, s)
           IN /\ Same(s, t, {"at", "tape"}) /\ t.at = "seed"
              /\ t.tape = LocalGates(p, Sched.locals[Sched.depth], s.tape, AllLanes)
<1> DEFINE u == LocalGates(p, Sched.locals[Sched.depth], s.tape, AllLanes)
           t == [s EXCEPT !.at = "seed", !.tape = u]
<1>1. Finished(p, s) = t
  BY DEF Finished
<1> HIDE DEF u
<1>2. /\ DOMAIN t = Fields /\ t.at = "seed" /\ t.tape = u
      /\ \A x \in Fields \ {"at", "tape"} : t[x] = s[x]
  BY DEF IsState, Fields
<1> QED BY <1>1, <1>2 DEF Same, u

(* After that the next phase, or the coin for the seed.                    *)
LEMMA LevelTakenIs ==
    ASSUME NEW p, NEW s, IsState(s), s.at = "level", NEW inb
    PROVE  LevelTaken(p, s, inb) =
             LET up == Raised(s, inb)
             IN IF s.phase + 1 < Sched.depth THEN Multiplied(p, up)
                ELSE Then(Finished(p, up), CoinShares(p, "seed", Finished(p, up)))
<1> DEFINE ands == Sched.ands[s.phase]
           first == Len(s.log) - Len(ands)
           logged == [i \in DOMAIN s.log |->
                      IF i > first THEN [s.log[i] EXCEPT !.in = inb[i - first]] ELSE s.log[i]]
           t == WithComponent(s.tape, ands, 2, inb)
           up == [s EXCEPT !.phase = @ + 1, !.log = logged, !.tape = t]
           tt == LocalGates(p, Sched.locals[Sched.depth], t, AllLanes)
           end == [up EXCEPT !.at = "seed", !.tape = tt]
<1>1. LevelTaken(p, s, inb) = IF up.phase < Sched.depth THEN Multiplied(p, up)
                              ELSE Then(end, CoinShares(p, "seed", end))
  BY DEF LevelTaken
<1>2. up = Raised(s, inb)
  BY DEF Raised, LoggedIn, Logged
<1>3. up.tape = t /\ up.phase = s.phase + 1
  <2> HIDE DEF t, logged
  <2> QED BY DEF IsState, Fields
<1>4. end = Finished(p, up)
  <2> HIDE DEF up
  <2> QED BY <1>3 DEF Finished
<1> HIDE DEF up, end
<1> QED BY <1>1, <1>2, <1>3, <1>4

(* What it sends then is owed.                                             *)
LEMMA LevelSpeaks ==
    ASSUME NEW p \in Parties, NEW s, IsState(s), s.at = "level", NEW inb
    PROVE  Speaks(LevelTaken(p, s, inb), p)
<1> DEFINE up == Raised(s, inb)
<1>1. up.phase = s.phase + 1 /\ IsState(up) /\ s.phase \in Nat
  BY RaisedIs DEF IsState
<1>2. LevelTaken(p, s, inb) =
         IF s.phase + 1 < Sched.depth THEN Multiplied(p, up)
         ELSE Then(Finished(p, up), CoinShares(p, "seed", Finished(p, up)))
  BY LevelTakenIs
<1> HIDE DEF up
<1>3. CASE s.phase + 1 < Sched.depth
  <2>1. up.phase \in 0..Sched.depth
    BY <1>1, <1>3, ScheduleFacts
  <2> QED BY <1>1, <1>2, <1>3, <2>1, MultipliedSpeaks
<1>4. CASE ~(s.phase + 1 < Sched.depth)
  <2> DEFINE t == Finished(p, up)
  <2> HIDE DEF t
  <2>1. Speaks(Then(t, CoinShares(p, "seed", t)), p)
    BY CoinSpeaks DEF Speaks, Then
  <2> QED BY <1>2, <1>4, <2>1 DEF t
<1> QED BY <1>3, <1>4

(* The proof that a round starts with.                                     *)
ProofFor(p, s) == IF IsBase(s) THEN BaseProof(p, s) ELSE Proof(p, s)

(* The streams are read at numbers.                                        *)
Counted(s) == s.prng \in Nat /\ s.len \in Nat

(* Of a proof, only the place in the stream and the vectors matter.        *)
LEMMA ProofReads ==
    ASSUME NEW p, NEW s, NEW t, t.prng = s.prng, t.u = s.u, t.v = s.v, t.len = s.len
    PROVE  /\ Proof(p, t) = Proof(p, s) /\ BaseProof(p, t) = BaseProof(p, s)
           /\ IsBase(t) = IsBase(s)
<1>1. \A n : Masks(p, t, n) = Masks(p, s, n)
  BY DEF Masks
<1>2. Proof(p, t) = Proof(p, s)
  BY <1>1, Zenon DEF Proof
<1>3. BaseProof(p, t) = BaseProof(p, s)
  BY <1>1, Zenon DEF BaseProof
<1>4. IsBase(t) = IsBase(s)
  BY DEF IsBase
<1> QED BY <1>2, <1>3, <1>4

(* A prover's state after it has sent a proof tells what the proof was.    *)
LEMMA ProofKept ==
    ASSUME NEW p, NEW s, IsState(s), Counted(s),
           NEW t, Same(s, t, {"at", "prng"}), t.prng = s.prng + ProofFor(p, s).drawn
    PROVE  ProofOf(p, t) = ProofFor(p, s) /\ t.prng \in Nat
<1>1. DOMAIN t = Fields /\ t.u = s.u /\ t.v = s.v /\ t.len = s.len
  BY DEF Same, Fields
<1>2. IsBase(t) = IsBase(s)
  BY <1>1 DEF IsBase
<1>3. B \in Nat /\ ProofPoints \in Nat
  BY DzkpSizes DEF ProofPoints
<1>4. CASE IsBase(s)
  <2> DEFINE d == 3 + BaseProofPoints(s.len)
             b == [t EXCEPT !.prng = @ - (3 + BaseProofPoints(t.len))]
  <2>1. d \in Nat
    BY DEF BaseProofPoints, BasePoints, Counted
  <2>2. ProofFor(p, s) = BaseProof(p, s) /\ BaseProof(p, s).drawn = d
    BY <1>4 DEF ProofFor, BaseProof
  <2>3. b.prng = t.prng - (3 + BaseProofPoints(t.len)) /\ b.u = t.u /\ b.v = t.v /\ b.len = t.len
    BY <1>1 DEF Fields
  <2>4. BaseProofPoints(t.len) = BaseProofPoints(s.len)
    BY <1>1
  <2> HIDE DEF d
  <2>5. t.prng \in Nat /\ t.prng - d = s.prng
    BY <2>1, <2>2 DEF Counted
  <2>6. b.prng = s.prng
    BY <2>3, <2>4, <2>5 DEF d
  <2> HIDE DEF b
  <2>7. BaseProof(p, b) = BaseProof(p, s)
    BY <1>1, <2>3, <2>6, ProofReads
  <2>8. ProofOf(p, t) = BaseProof(p, b)
    BY <1>2, <1>4 DEF ProofOf, b
  <2> QED BY <2>2, <2>5, <2>7, <2>8
<1>5. CASE ~IsBase(s)
  <2> DEFINE b == [t EXCEPT !.prng = @ - ProofPoints]
  <2>1. ProofFor(p, s) = Proof(p, s) /\ Proof(p, s).drawn = ProofPoints
    BY <1>5 DEF ProofFor, Proof
  <2>2. b.prng = t.prng - ProofPoints /\ b.u = t.u /\ b.v = t.v /\ b.len = t.len
    BY <1>1 DEF Fields
  <2>3. t.prng \in Nat /\ b.prng = s.prng
    BY <1>3, <2>1, <2>2 DEF Counted
  <2> HIDE DEF b
  <2>4. Proof(p, b) = Proof(p, s)
    BY <1>1, <2>2, <2>3, ProofReads
  <2>5. ProofOf(p, t) = Proof(p, b)
    BY <1>2, <1>5 DEF ProofOf, b
  <2> QED BY <2>1, <2>3, <2>4, <2>5
<1> QED BY <1>4, <1>5

(* A verifier waits for a proof; the prover has sent one and goes on to    *)
(* the coin.                                                               *)
LEMMA StartRoundIs ==
    ASSUME NEW p, NEW s, IsState(s)
    PROVE  LET t == StartRound(p, s).s
           IN /\ s.prover # p => /\ Same(s, t, {"at"}) /\ t.at = "proof"
                                 /\ StartRound(p, s) = Then(t, Silence)
              /\ s.prover = p => /\ Same(s, t, {"at", "prng"}) /\ t.at = "coin"
                                 /\ t.prng = s.prng + ProofFor(p, s).drawn
<1>1. CASE s.prover # p
  <2> DEFINE t == [s EXCEPT !.at = "proof"]
  <2>1. StartRound(p, s) = Then(t, Silence)
    BY <1>1 DEF StartRound, IsProver
  <2>2. DOMAIN t = Fields /\ t.at = "proof" /\ \A x \in Fields \ {"at"} : t[x] = s[x]
    BY DEF IsState, Fields
  <2> HIDE DEF t
  <2> QED BY <1>1, <2>1, <2>2 DEF Same, Then
<1>2. CASE s.prover = p
  <2> DEFINE proof == ProofFor(p, s)
             t == [s EXCEPT !.at = "coin", !.prng = @ + proof.drawn]
  <2>1. StartRound(p, s).s = t
    BY <1>2 DEF StartRound, IsProver, Then, ProofFor
  <2> HIDE DEF proof
  <2>2. /\ DOMAIN t = Fields /\ t.at = "coin" /\ t.prng = s.prng + proof.drawn
        /\ \A x \in Fields \ {"at", "prng"} : t[x] = s[x]
    BY DEF IsState, Fields
  <2> HIDE DEF t
  <2> QED BY <1>2, <2>1, <2>2 DEF Same, proof
<1> QED BY <1>1, <1>2

(* What it sends is owed: both halves of the proof and the coin's shares.  *)
LEMMA RoundSpeaks ==
    ASSUME NEW p \in Parties, NEW s, IsState(s), Counted(s)
    PROVE  Speaks(StartRound(p, s), p)
<1>1. CASE s.prover # p
  <2>1. StartRound(p, s) = Then(StartRound(p, s).s, Silence)
    BY <1>1, StartRoundIs, Zenon
  <2> QED BY <2>1, SilenceSpeaks
<1>2. CASE s.prover = p
  <2> DEFINE t == StartRound(p, s).s
             proof == ProofFor(p, s)
             l == PrevOf(p)
             r == NextOf(p)
             x == Say(l, Message("proof", s, proof.left))
             y == Say(r, Message("proof", s, proof.right))
             z == CoinShares(p, "coin", s)
             said == Also(Also(x, y), z)
  <2>1. StartRound(p, s) = Then(t, said)
    BY <1>2 DEF StartRound, IsProver, Then, ProofFor
  <2>2. Same(s, t, {"at", "prng"}) /\ t.prng = s.prng + proof.drawn
    BY <1>2, StartRoundIs
  <2> HIDE DEF t
  <2>3. ProofOf(p, t) = proof
    BY <2>2, ProofKept
  <2> HIDE DEF proof
  <2>4. Owes("proof", s, t, proof.left, p, l) /\ Owes("proof", s, t, proof.right, p, r)
    <3>1. ASSUME NEW g, g.at = "proof"
          PROVE  Owed(g, t, p, l) = proof.left /\ Owed(g, t, p, r) = proof.right
      <4>1. r # PrevOf(p)
        BY Neighbours
      <4> QED BY <2>3, <3>1, <4>1, OwedProof
    <3> QED BY <3>1 DEF Owes
  <2> DEFINE m1 == Message("proof", s, proof.left)
             m2 == Message("proof", s, proof.right)
  <2>5. /\ IsSeq(<<m1>>) /\ Right(<<m1>>, t, p, l)
        /\ IsSeq(<<m2>>) /\ Right(<<m2>>, t, p, r)
    BY <2>4, SaidRight
  <2> HIDE DEF m1, m2
  <2>6. /\ x[l] = <<m1>> /\ x[r] = << >> /\ y[l] = << >> /\ y[r] = <<m2>>
        /\ \A q \in Parties : q # p => q = l \/ q = r
    <3>1. l \in Parties /\ r \in Parties /\ l # r /\ \A q \in Parties : q # p => q = l \/ q = r
      BY Neighbours
    <3> HIDE DEF l, r
    <3> QED BY <3>1, SayIs DEF m1, m2
  <2>7. \A q \in Parties : said[q] = (x[q] \o y[q]) \o z[q]
    <3> HIDE DEF x, y, z
    <3>1. \A q \in Parties : Also(x, y)[q] = x[q] \o y[q]
      BY AlsoIs
    <3> DEFINE v == Also(x, y)
    <3> HIDE DEF v
    <3>2. \A q \in Parties : Also(v, z)[q] = v[q] \o z[q]
      BY AlsoIs
    <3> QED BY <3>1, <3>2, Zenon DEF v
  <2>8. \A q \in Parties : q # p => IsSeq(z[q]) /\ Right(z[q], t, p, q)
    BY CoinSpeaks
  <2> HIDE DEF x, y, z, said, l, r
  <2>9. ASSUME NEW q \in Parties, q # p PROVE Right(said[q], t, p, q)
    <3>1. IsSeq(<< >>) /\ Right(<< >>, t, p, q)
      BY RightNone, EmptyIsSeq
    <3>2. IsSeq(x[q]) /\ Right(x[q], t, p, q) /\ IsSeq(y[q]) /\ Right(y[q], t, p, q)
      BY <2>5, <2>6, <2>9, <3>1
    <3>3. IsSeq(x[q] \o y[q]) /\ Right(x[q] \o y[q], t, p, q)
      BY <3>2, RightConcat, ConcatIsSeq
    <3> DEFINE w == x[q] \o y[q]
    <3> HIDE DEF w
    <3>4. Right(w \o z[q], t, p, q)
      BY <2>8, <2>9, <3>3, RightConcat DEF w
    <3> QED BY <2>7, <3>4 DEF w
  <2> QED BY <2>1, <2>9 DEF Speaks, Then
<1> QED BY <1>1, <1>2

(* An instance's statement, from a party's own log and seed.               *)
LambdaOf(s, k) == [g \in 1..Bits(s.log) |-> Gf64(Lambda(s.seed, k, g))]
StatementU(p, s, k) ==
    IF IsRight(p, k) THEN << >> ELSE VectorU(s.log, LambdaOf(s, k), IF IsProver(p, k) THEN 1 ELSE 2)
StatementV(p, s, k) ==
    IF IsLeft(p, k) THEN << >> ELSE VectorV(s.log, IF IsProver(p, k) THEN 2 ELSE 1)
StatementTau(p, s, k) ==
    IF IsLeft(p, k) THEN TargetLeft(s.log, LambdaOf(s, k))
    ELSE IF IsRight(p, k) THEN TargetRight(s.log, LambdaOf(s, k)) ELSE Zero
Entered(p, s, k) ==
    [s EXCEPT !.prover = k, !.round = 1, !.len = 2 * Bits(s.log),
              !.u = StatementU(p, s, k), !.v = StatementV(p, s, k), !.tau = StatementTau(p, s, k)]

(* A party has entered instance k and not gone on.                         *)
Ready(p, s, k) ==
    /\ s.prover = k /\ s.u = StatementU(p, s, k) /\ s.v = StatementV(p, s, k)
    /\ s.tau = StatementTau(p, s, k) /\ s.len = 2 * Bits(s.log)

(* A statement depends on log and seed alone.                              *)
LEMMA StatementReads ==
    ASSUME NEW p, NEW s, NEW t, NEW k, t.log = s.log, t.seed = s.seed
    PROVE  /\ StatementU(p, t, k) = StatementU(p, s, k) /\ StatementV(p, t, k) = StatementV(p, s, k)
           /\ StatementTau(p, t, k) = StatementTau(p, s, k) /\ LambdaOf(t, k) = LambdaOf(s, k)
<1>1. LambdaOf(t, k) = LambdaOf(s, k)
  BY Zenon DEF LambdaOf
<1> QED BY <1>1 DEF StatementU, StatementV, StatementTau

(* An instance is entered with its statement, and its first round starts.  *)
LEMMA EnteredIs ==
    ASSUME NEW p, NEW s, IsState(s), s.prng \in Nat, NEW k \in Parties
    PROVE  LET t == Entered(p, s, k)
           IN /\ Same(s, t, {"prover", "round", "len", "u", "v", "tau"}) /\ Ready(p, t, k)
              /\ IsState(t) /\ Counted(t) /\ StartInstance(p, s, k) = StartRound(p, t)
<1> DEFINE u == StatementU(p, s, k)
           v == StatementV(p, s, k)
           a == StatementTau(p, s, k)
           t == [s EXCEPT !.prover = k, !.round = 1, !.len = 2 * Bits(s.log), !.u = u, !.v = v, !.tau = a]
<1>1. Entered(p, s, k) = t
  BY DEF Entered
<1>2. StartInstance(p, s, k) = StartRound(p, t)
  BY DEF StartInstance, StatementU, StatementV, StatementTau, LambdaOf
<1>3. Bits(s.log) \in Nat
  <2>1. Len(s.log) \in Nat
    BY SeqLength DEF IsState
  <2> QED BY <2>1, DzkpSizes DEF Bits
<1> HIDE DEF u, v, a
<1>4. /\ DOMAIN t = Fields /\ t.prover = k /\ t.round = 1 /\ t.len = 2 * Bits(s.log)
      /\ t.u = u /\ t.v = v /\ t.tau = a
      /\ \A x \in Fields \ {"prover", "round", "len", "u", "v", "tau"} : t[x] = s[x]
  BY DEF IsState, Fields
<1> HIDE DEF t
<1>5. t.log = s.log /\ t.seed = s.seed /\ t.prng = s.prng /\ t.at = s.at /\ t.phase = s.phase
  BY <1>4 DEF Fields
<1>6. Ready(p, t, k)
  BY <1>4, <1>5, StatementReads DEF Ready, u, v, a
<1>7. IsState(t)
  BY <1>4, <1>5 DEF IsState
<1>8. Counted(t)
  BY <1>3, <1>4, <1>5 DEF Counted
<1> QED BY <1>1, <1>2, <1>4, <1>6, <1>7, <1>8 DEF Same

(* After the last instance, a party's state.                               *)
Openable(s) ==
    [s EXCEPT !.at = "open", !.log = Cleared(@), !.u = << >>, !.v = << >>, !.pi = << >>,
              !.tau = Zero, !.mine = << >>, !.len = 0]

(* Nothing but log and instance has been dropped.                          *)
LEMMA OpenableIs ==
    ASSUME NEW s, IsState(s)
    PROVE  /\ Same(s, Openable(s), {"at", "log", "u", "v", "pi", "tau", "mine", "len"})
           /\ Openable(s).at = "open"
<1> DEFINE l == Cleared(s.log)
           t == [s EXCEPT !.at = "open", !.log = l, !.u = << >>, !.v = << >>, !.pi = << >>,
                          !.tau = Zero, !.mine = << >>, !.len = 0]
<1>1. Openable(s) = t
  BY DEF Openable
<1> HIDE DEF l
<1>2. DOMAIN t = Fields /\ t.at = "open"
      /\ \A x \in Fields \ {"at", "log", "u", "v", "pi", "tau", "mine", "len"} : t[x] = s[x]
  BY DEF IsState, Fields
<1> QED BY <1>1, <1>2 DEF Same

(* What is sent then is owed.                                              *)
LEMMA OpenSpeaks ==
    ASSUME NEW p \in Parties, NEW s, IsState(s), ~(s.prover < LastProver)
    PROVE  Speaks(NextInstance(p, s), p) /\ NextInstance(p, s).s = Openable(s)
<1> DEFINE pairs == [i \in DOMAIN Outputs |-> s.tape[Outputs[i]]]
           t == Openable(s)
           l == PrevOf(p)
           r == NextOf(p)
           said == Double(p, "open", t, pairs)
           m1 == Message("open", t, Parts(pairs, 2))
           m2 == Message("open", t, Parts(pairs, 1))
<1>1. NextInstance(p, s) = Then(t, said)
  BY DEF NextInstance, Openable
<1>2. t.tape = s.tape
  BY OpenableIs DEF Same, Fields
<1>3. said[l] = <<m1>> /\ said[r] = <<m2>> /\ r # l /\ \A q \in Parties : q # p => q = l \/ q = r
  BY DoubleIs, Neighbours
<1>4. ASSUME NEW g, g.at = "open"
      PROVE  Owed(g, t, p, l) = Parts(pairs, 2) /\ Owed(g, t, p, r) = Parts(pairs, 1)
  BY <1>2, <1>3, <1>4, OwedOpen
<1>5. Owes("open", t, t, Parts(pairs, 2), p, l) /\ Owes("open", t, t, Parts(pairs, 1), p, r)
  BY <1>4 DEF Owes
<1>6. Right(<<m1>>, t, p, l) /\ Right(<<m2>>, t, p, r)
  BY <1>5, SaidRight
<1> HIDE DEF said, m1, m2, l, r, t, pairs
<1>7. \A q \in Parties : q # p => Right(said[q], t, p, q)
  BY <1>3, <1>6
<1> QED BY <1>1, <1>7 DEF Speaks, Then, t

(* From one instance to the next, or to the opening.                       *)
LEMMA NextSpeaks ==
    ASSUME NEW p \in Parties, NEW s, IsState(s), s.prng \in Nat
    PROVE  /\ Speaks(NextInstance(p, s), p)
           /\ s.prover < LastProver => s.prover + 1 \in Parties /\
                NextInstance(p, s) = StartRound(p, Entered(p, s, s.prover + 1))
<1>1. CASE s.prover < LastProver
  <2> DEFINE k == s.prover + 1
  <2>1. k \in Parties
    BY <1>1 DEF IsState, Parties, LastProver
  <2>2. NextInstance(p, s) = StartInstance(p, s, k)
    BY <1>1 DEF NextInstance
  <2> HIDE DEF k
  <2>3. IsState(Entered(p, s, k)) /\ Counted(Entered(p, s, k))
        /\ StartInstance(p, s, k) = StartRound(p, Entered(p, s, k))
    BY <2>1, EnteredIs
  <2> QED BY <1>1, <2>1, <2>2, <2>3, RoundSpeaks DEF k
<1>2. CASE ~(s.prover < LastProver)
  BY <1>2, OpenSpeaks
<1> QED BY <1>1, <1>2

(* What a verifier has of a proof, and what it adds up.                    *)
SharesIn(s, body) == IF IsBase(s) THEN SubSeq(body, 3, Len(body)) ELSE body
Extra(s, vec, body) == IF IsBase(s) /\ vec # << >> THEN Append(vec, body[1]) ELSE vec
DataPoints(s) == IF IsBase(s) THEN BasePoints(s.len) ELSE B
DeltaOf(s, body) ==
    s.tau ## XorOver([j \in 1..DataPoints(s) |-> SharesIn(s, body)[j]])
          ## (IF IsBase(s) THEN body[2] ELSE Zero)

(* A verifier that has taken a proof: its state, and what it tells.        *)
LEMMA ProofTakenIs ==
    ASSUME NEW p \in Parties, NEW s, IsState(s), s.prover # p, NEW body
    PROVE  LET t == ProofTaken(p, s, body).s
           IN /\ Same(s, t, {"at", "pi", "mine", "u", "v"}) /\ t.at = "residual"
              /\ t.pi = SharesIn(s, body) /\ t.mine = <<DeltaOf(s, body)>>
              /\ t.u = Extra(s, s.u, body) /\ t.v = Extra(s, s.v, body)
              /\ Speaks(ProofTaken(p, s, body), p)
<1> DEFINE pi == SharesIn(s, body)
           delta == DeltaOf(s, body)
           u == Extra(s, s.u, body)
           v == Extra(s, s.v, body)
           t == [s EXCEPT !.at = "residual", !.pi = pi, !.mine = <<delta>>, !.u = u, !.v = v]
           o == OtherVerifier(p, s.prover)
<1>1. ProofTaken(p, s, body) = Then(t, Say(o, Message("residual", t, <<delta>>)))
  BY DEF ProofTaken, SharesIn, DeltaOf, Extra, DataPoints
<1> HIDE DEF pi, delta, u, v
<1>2. /\ DOMAIN t = Fields /\ t.at = "residual" /\ t.pi = pi /\ t.mine = <<delta>> /\ t.u = u /\ t.v = v
      /\ \A x \in Fields \ {"at", "pi", "mine", "u", "v"} : t[x] = s[x]
  BY DEF IsState, Fields
<1>3. s.prover \in Parties
  BY DEF IsState
<1> HIDE DEF t, o
<1>4. ProofTaken(p, s, body) = Then(t, Say(o, Message("residual", t, t.mine)))
  BY <1>1, <1>2
<1> DEFINE kind == "residual"
<1>5. kind \in {"residual", "evals"}
  OBVIOUS
<1> HIDE DEF kind
<1>6. Speaks(Then(t, Say(o, Message(kind, t, t.mine))), p)
  BY <1>3, <1>5, VerifierSpeaks DEF o
<1>7. ProofTaken(p, s, body).s = t
  BY <1>4 DEF Then
<1> QED BY <1>2, <1>4, <1>6, <1>7 DEF Same, pi, delta, u, v, kind

(* What was left is forgotten, and a coin is drawn.                        *)
LEMMA ResidualTakenIs ==
    ASSUME NEW p \in Parties, NEW s, IsState(s)
    PROVE  LET t == ResidualTaken(p, s).s
           IN /\ Same(s, t, {"at", "mine"}) /\ t.at = "coin" /\ Speaks(ResidualTaken(p, s), p)
<1> DEFINE t == [s EXCEPT !.at = "coin", !.mine = << >>]
<1>1. ResidualTaken(p, s) = Then(t, CoinShares(p, "coin", t))
  BY DEF ResidualTaken
<1>2. DOMAIN t = Fields /\ t.at = "coin" /\ \A x \in Fields \ {"at", "mine"} : t[x] = s[x]
  BY DEF IsState, Fields
<1> HIDE DEF t
<1>3. Speaks(Then(t, CoinShares(p, "coin", t)), p)
  BY CoinSpeaks DEF Speaks, Then
<1>4. ResidualTaken(p, s).s = t
  BY <1>1 DEF Then
<1> QED BY <1>1, <1>2, <1>3, <1>4 DEF Same

(* A coin drawn again changes nothing else.                                *)
LEMMA CoinAgainIs ==
    ASSUME NEW p \in Parties, NEW s, IsState(s)
    PROVE  Same(s, CoinAgain(p, s).s, {"coins"}) /\ Speaks(CoinAgain(p, s), p)
<1> DEFINE t == [s EXCEPT !.coins = @ + 1]
<1>1. CoinAgain(p, s) = Then(t, CoinShares(p, "coin", t))
  BY DEF CoinAgain
<1>2. DOMAIN t = Fields /\ \A x \in Fields \ {"coins"} : t[x] = s[x]
  BY DEF IsState, Fields
<1> HIDE DEF t
<1>3. Speaks(Then(t, CoinShares(p, "coin", t)), p)
  BY CoinSpeaks DEF Speaks, Then
<1>4. CoinAgain(p, s).s = t
  BY <1>1 DEF Then
<1> QED BY <1>1, <1>2, <1>3, <1>4 DEF Same

(* A party folds vectors and target at a coin.                             *)
FoldedAt(p, s, coin) ==
    [s EXCEPT !.coins = @ + 1, !.round = @ + 1, !.len = Blocks(@, B), !.pi = << >>,
              !.u = Folded(@, B, coin), !.v = Folded(@, B, coin),
              !.tau = IF IsProver(p, s.prover) THEN Zero ELSE At(s.pi, coin)]

(* And the next round starts.                                              *)
LEMMA FoldTakenIs ==
    ASSUME NEW p \in Parties, NEW s, IsState(s), Counted(s), NEW coin
    PROVE  LET t == FoldedAt(p, s, coin)
           IN /\ Same(s, t, {"coins", "round", "len", "pi", "u", "v", "tau"})
              /\ t.len = Blocks(s.len, B) /\ t.u = Folded(s.u, B, coin) /\ t.v = Folded(s.v, B, coin)
              /\ t.tau = IF IsProver(p, s.prover) THEN Zero ELSE At(s.pi, coin)
              /\ IsState(t) /\ Counted(t) /\ FoldCoinTaken(p, s, coin) = StartRound(p, t)
              /\ Speaks(FoldCoinTaken(p, s, coin), p)
<1> DEFINE u == Folded(s.u, B, coin)
           v == Folded(s.v, B, coin)
           a == IF IsProver(p, s.prover) THEN Zero ELSE At(s.pi, coin)
           l == Blocks(s.len, B)
           t == [s EXCEPT !.coins = @ + 1, !.round = @ + 1, !.len = l, !.pi = << >>,
                          !.u = u, !.v = v, !.tau = a]
<1>1. FoldedAt(p, s, coin) = t
  BY DEF FoldedAt
<1>2. FoldCoinTaken(p, s, coin) = StartRound(p, t)
  BY DEF FoldCoinTaken
<1>3. l \in Nat
  BY BlocksCover, DzkpSizes DEF Counted
<1> HIDE DEF u, v, a, l
<1>4. /\ DOMAIN t = Fields /\ t.len = l /\ t.u = u /\ t.v = v /\ t.tau = a
      /\ \A x \in Fields \ {"coins", "round", "len", "pi", "u", "v", "tau"} : t[x] = s[x]
  BY DEF IsState, Fields
<1> HIDE DEF t
<1>5. t.log = s.log /\ t.prng = s.prng /\ t.at = s.at /\ t.phase = s.phase /\ t.prover = s.prover
  BY <1>4 DEF Fields
<1>6. IsState(t) /\ Counted(t)
  BY <1>3, <1>4, <1>5 DEF IsState, Counted
<1>7. Speaks(StartRound(p, t), p)
  BY <1>6, RoundSpeaks
<1> QED BY <1>1, <1>2, <1>4, <1>6, <1>7 DEF Same, u, v, a, l

(* The coins are counted.                                                  *)
LEMMA DrawnIs ==
    ASSUME NEW s, IsState(s)
    PROVE  Same(s, Drawn(s), {"coins"}) /\ IsState(Drawn(s)) /\ Drawn(s).prng = s.prng
<1>1. DOMAIN Drawn(s) = Fields /\ \A x \in Fields \ {"coins"} : Drawn(s)[x] = s[x]
  BY DEF IsState, Fields, Drawn
<1> DEFINE t == Drawn(s)
<1> HIDE DEF t
<1>2. t.log = s.log /\ t.prng = s.prng /\ t.at = s.at /\ t.phase = s.phase /\ t.prover = s.prover
  BY <1>1 DEF Fields, t
<1> QED BY <1>1, <1>2 DEF Same, IsState, t

(* What a verifier opens in the end.                                       *)
Blinded(p, s, coin) == <<At(IF IsLeft(p, s.prover) THEN s.u ELSE s.v, coin), At(s.pi, coin)>>

(* A verifier opens its values at the coin.                                *)
LEMMA BaseTakenIs ==
    ASSUME NEW p \in Parties, NEW s, IsState(s), s.prover # p, NEW coin
    PROVE  LET t == BaseCoinTaken(p, s, coin).s
           IN /\ Same(s, t, {"coins", "at", "mine"}) /\ t.at = "evals"
              /\ t.mine = Blinded(p, s, coin)
              /\ Speaks(BaseCoinTaken(p, s, coin), p)
<1> DEFINE mine == Blinded(p, s, coin)
           d == Drawn(s)
           t == [d EXCEPT !.at = "evals", !.mine = mine]
           o == OtherVerifier(p, s.prover)
           kind == "evals"
<1>1. BaseCoinTaken(p, s, coin) = Then(t, Say(o, Message(kind, t, mine)))
  BY DEF BaseCoinTaken, Blinded, IsProver
<1> HIDE DEF mine
<1>2. DOMAIN d = Fields /\ \A x \in Fields \ {"coins"} : d[x] = s[x]
  BY DrawnIs DEF Same
<1> HIDE DEF d
<1>3. /\ DOMAIN t = Fields /\ t.at = "evals" /\ t.mine = mine
      /\ \A x \in Fields \ {"coins", "at", "mine"} : t[x] = s[x]
  BY <1>2 DEF Fields
<1>4. s.prover \in Parties /\ kind \in {"residual", "evals"}
  BY DEF IsState
<1> HIDE DEF t, o, kind
<1>5. BaseCoinTaken(p, s, coin) = Then(t, Say(o, Message(kind, t, t.mine)))
  BY <1>1, <1>3
<1>6. Speaks(Then(t, Say(o, Message(kind, t, t.mine))), p)
  BY <1>4, VerifierSpeaks DEF o
<1>7. BaseCoinTaken(p, s, coin).s = t
  BY <1>1 DEF Then
<1> QED BY <1>3, <1>5, <1>6, <1>7 DEF Same, mine

(* An instance checked, its last values are forgotten.                     *)
Checked(s) == [s EXCEPT !.mine = << >>]

(* And the next one begins.                                                *)
LEMMA EvalsTakenIs ==
    ASSUME NEW p, NEW s, IsState(s)
    PROVE  /\ Same(s, Checked(s), {"mine"}) /\ IsState(Checked(s)) /\ Checked(s).prng = s.prng
           /\ EvalsTaken(p, s) = NextInstance(p, Checked(s))
<1>1. DOMAIN Checked(s) = Fields /\ \A x \in Fields \ {"mine"} : Checked(s)[x] = s[x]
  BY DEF IsState, Fields, Checked
<1> DEFINE t == Checked(s)
<1>2. EvalsTaken(p, s) = NextInstance(p, t)
  BY DEF EvalsTaken, Checked
<1> HIDE DEF t
<1>3. t.log = s.log /\ t.prng = s.prng /\ t.at = s.at /\ t.phase = s.phase /\ t.prover = s.prover
  BY <1>1 DEF Fields, t
<1> QED BY <1>1, <1>2, <1>3 DEF Same, IsState, t

(* With the seed the first instance is entered.                            *)
Seeded(s, coin) == [s EXCEPT !.seed = coin, !.coins = @ + 1]

(* The seed is the coin.                                                   *)
LEMMA SeedTakenIs ==
    ASSUME NEW p \in Parties, NEW s, IsState(s), s.prng \in Nat, NEW coin
    PROVE  LET t == Seeded(s, coin)
           IN /\ Same(s, t, {"seed", "coins"}) /\ t.seed = coin /\ IsState(t) /\ t.prng \in Nat
              /\ SeedTaken(p, s, coin) = StartRound(p, Entered(p, t, 0))
              /\ Speaks(SeedTaken(p, s, coin), p)
<1> DEFINE t == [s EXCEPT !.seed = coin, !.coins = @ + 1]
           k == 0
<1>1. Seeded(s, coin) = t
  BY DEF Seeded
<1>2. SeedTaken(p, s, coin) = StartInstance(p, t, k)
  BY DEF SeedTaken
<1>3. DOMAIN t = Fields /\ t.seed = coin /\ \A x \in Fields \ {"seed", "coins"} : t[x] = s[x]
  BY DEF IsState, Fields
<1> HIDE DEF t
<1>4. t.log = s.log /\ t.prng = s.prng /\ t.at = s.at /\ t.phase = s.phase /\ t.prover = s.prover
  BY <1>3 DEF Fields
<1>5. IsState(t) /\ t.prng \in Nat
  BY <1>3, <1>4 DEF IsState
<1>6. k \in Parties
  BY DEF Parties
<1> HIDE DEF k
<1>7. IsState(Entered(p, t, k)) /\ Counted(Entered(p, t, k))
      /\ StartInstance(p, t, k) = StartRound(p, Entered(p, t, k))
  BY <1>5, <1>6, EnteredIs
<1>8. Speaks(StartRound(p, Entered(p, t, k)), p)
  BY <1>7, RoundSpeaks
<1> QED BY <1>1, <1>2, <1>3, <1>5, <1>7, <1>8 DEF Same, k

(* Whatever a party does, what it says is owed.                            *)
LEMMA WentSpeaks ==
    ASSUME NEW p \in Parties, NEW s, IsState(s), s.at \in Kinds, Counted(s), TakesPart(s, p),
           NEW body, NEW coin
    PROVE  Speaks(Went(p, s, body, coin), p)
<1>1. CASE s.at = "start"
  <2>1. s.phase \in 0..Sched.depth
    BY <1>1, ScheduleFacts DEF IsState
  <2> QED BY <1>1, <2>1, MultipliedSpeaks, WentIs
<1>2. CASE s.at = "level"
  BY <1>2, LevelSpeaks, WentIs
<1>3. CASE s.at = "seed"
  BY <1>3, SeedTakenIs, WentIs DEF Counted
<1>4. CASE s.at = "proof"
  BY <1>4, ProofTakenIs, WentIs DEF TakesPart
<1>5. CASE s.at = "residual"
  BY <1>5, ResidualTakenIs, WentIs
<1>6. CASE s.at = "coin"
  <2>1. Went(p, s, body, coin) = CoinTaken(p, s, coin)
    BY <1>6, WentIs
  <2>2. CASE MustRedraw(p, s, coin)
    BY <2>1, <2>2, CoinAgainIs DEF CoinTaken
  <2>3. CASE ~MustRedraw(p, s, coin) /\ ~IsBase(s)
    BY <2>1, <2>3, FoldTakenIs DEF CoinTaken
  <2>4. CASE ~MustRedraw(p, s, coin) /\ IsBase(s)
    <3>1. Went(p, s, body, coin) = BaseCoinTaken(p, s, coin)
      BY <2>1, <2>4 DEF CoinTaken
    <3>2. CASE s.prover # p
      BY <3>1, <3>2, BaseTakenIs
    <3>3. CASE s.prover = p
      <4>1. BaseCoinTaken(p, s, coin) = NextInstance(p, Drawn(s))
        BY <3>3 DEF BaseCoinTaken, IsProver
      <4>2. IsState(Drawn(s)) /\ Drawn(s).prng \in Nat
        BY DrawnIs DEF Counted
      <4> QED BY <3>1, <4>1, <4>2, NextSpeaks
    <3> QED BY <3>2, <3>3
  <2> QED BY <2>2, <2>3, <2>4
<1>7. CASE s.at = "evals"
  <2>1. Went(p, s, body, coin) = NextInstance(p, Checked(s))
    BY <1>7, WentIs, EvalsTakenIs
  <2>2. IsState(Checked(s)) /\ Checked(s).prng \in Nat
    BY EvalsTakenIs DEF Counted
  <2> QED BY <2>1, <2>2, NextSpeaks
<1> QED BY <1>1, <1>2, <1>3, <1>4, <1>5, <1>6, <1>7 DEF Kinds

-----------------------------------------------------------------------------
(* What a step keeps of a state. *)

(* A round started keeps all but the stage and the place in the stream.    *)
LEMMA RoundKeeps ==
    ASSUME NEW p, NEW s, IsState(s), Counted(s)
    PROVE  LET t == StartRound(p, s).s
           IN /\ Same(s, t, {"at", "prng"}) /\ Counted(t)
              /\ s.prover = p => ProofOf(p, t) = ProofFor(p, s)
<1> DEFINE t == StartRound(p, s).s
<1>1. CASE s.prover # p
  <2>1. Same(s, t, {"at"})
    BY <1>1, StartRoundIs, Zenon
  <2> HIDE DEF t
  <2>2. t.prng = s.prng /\ t.len = s.len
    BY <2>1 DEF Same, Fields
  <2> QED BY <1>1, <2>1, <2>2 DEF Same, Counted, t
<1>2. CASE s.prover = p
  <2>1. Same(s, t, {"at", "prng"}) /\ t.prng = s.prng + ProofFor(p, s).drawn
    BY <1>2, StartRoundIs
  <2> HIDE DEF t
  <2>2. ProofOf(p, t) = ProofFor(p, s) /\ t.prng \in Nat
    BY <2>1, ProofKept
  <2>3. t.len = s.len
    BY <2>1 DEF Same, Fields
  <2> QED BY <2>1, <2>2, <2>3 DEF Counted, t
<1> QED BY <1>1, <1>2

(* What an instance that starts changes.                                   *)
Instance == {"at", "prng", "prover", "round", "len", "u", "v", "tau"}

(* An instance started: what stays, and the statement.                     *)
LEMMA InstanceKeeps ==
    ASSUME NEW p, NEW s, IsState(s), s.prng \in Nat, NEW k \in Parties
    PROVE  LET t == StartRound(p, Entered(p, s, k)).s
           IN Same(s, t, Instance) /\ Counted(t) /\ Ready(p, t, k)
<1> DEFINE e == Entered(p, s, k)
           t == StartRound(p, e).s
<1>1. /\ Same(s, e, {"prover", "round", "len", "u", "v", "tau"}) /\ Ready(p, e, k)
      /\ IsState(e) /\ Counted(e)
  BY EnteredIs
<1> HIDE DEF e
<1>2. Same(e, t, {"at", "prng"}) /\ Counted(t)
  BY <1>1, RoundKeeps
<1> HIDE DEF t
<1>3. Same(s, t, Instance)
  BY <1>1, <1>2 DEF Same, Instance
<1>4. t.prover = e.prover /\ t.log = e.log /\ t.seed = e.seed /\ t.u = e.u /\ t.v = e.v
      /\ t.tau = e.tau /\ t.len = e.len
  BY <1>2 DEF Same, Fields
<1>5. Ready(p, t, k)
  BY <1>1, <1>4, StatementReads DEF Ready
<1> QED BY <1>2, <1>3, <1>5 DEF t, e

(* Into the next instance or to the opening: tape and stock stay.          *)
LEMMA NextKeeps ==
    ASSUME NEW p \in Parties, NEW s, IsState(s), s.prng \in Nat
    PROVE  LET t == NextInstance(p, s).s
           IN /\ t.tape = s.tape /\ t.draws = s.draws /\ Counted(t)
              /\ s.prover < LastProver =>
                    t.log = s.log /\ t.seed = s.seed /\ Ready(p, t, s.prover + 1)
<1> DEFINE t == NextInstance(p, s).s
<1>1. CASE s.prover < LastProver
  <2> DEFINE k == s.prover + 1
  <2>1. k \in Parties /\ t = StartRound(p, Entered(p, s, k)).s
    BY <1>1, NextSpeaks
  <2> HIDE DEF k
  <2>2. Same(s, t, Instance) /\ Counted(t) /\ Ready(p, t, k)
    BY <2>1, InstanceKeeps
  <2> HIDE DEF t
  <2>3. t.tape = s.tape /\ t.draws = s.draws /\ t.log = s.log /\ t.seed = s.seed
    BY <2>2 DEF Same, Fields, Instance
  <2> QED BY <2>2, <2>3 DEF t, k
<1>2. CASE ~(s.prover < LastProver)
  <2>1. t = Openable(s)
    BY <1>2, OpenSpeaks
  <2>2. Same(s, t, {"at", "log", "u", "v", "pi", "tau", "mine", "len"})
    BY <2>1, OpenableIs
  <2>3. t.len = 0
    <3>1. Openable(s).len = 0
      <4> DEFINE l == Cleared(s.log)
      <4> HIDE DEF l
      <4>1. [s EXCEPT !.at = "open", !.log = l, !.u = << >>, !.v = << >>, !.pi = << >>,
                      !.tau = Zero, !.mine = << >>, !.len = 0].len = 0
        BY DEF IsState, Fields
      <4> QED BY <4>1 DEF Openable, l
    <3> QED BY <2>1, <3>1
  <2> HIDE DEF t
  <2>4. t.tape = s.tape /\ t.draws = s.draws /\ t.prng = s.prng
    BY <2>2 DEF Same, Fields
  <2> QED BY <1>2, <2>3, <2>4 DEF t, Counted
<1> QED BY <1>1, <1>2

(* A party that leaves an instance does so at its last coin or after.      *)
Leaving(p, s, coin) ==
    \/ s.at = "evals"
    \/ s.at = "coin" /\ ~MustRedraw(p, s, coin) /\ IsBase(s) /\ s.prover = p

(* After the evaluation, tape and stock stay; and so do log and seed until *)
(* the last instance is left.                                              *)
LEMMA WentKeeps ==
    ASSUME NEW p \in Parties, NEW s, IsState(s), Counted(s), TakesPart(s, p),
           s.at \in {"seed", "proof", "residual", "coin", "evals"}, NEW body, NEW coin
    PROVE  LET t == Went(p, s, body, coin).s
           IN /\ t.tape = s.tape /\ t.draws = s.draws /\ Counted(t)
              /\ Leaving(p, s, coin) =>
                    (s.prover < LastProver => t.log = s.log /\ t.seed = s.seed /\ Ready(p, t, s.prover + 1))
              /\ ~Leaving(p, s, coin) =>
                    t.log = s.log /\ t.seed = IF s.at = "seed" THEN coin ELSE s.seed
<1> DEFINE t == Went(p, s, body, coin).s
<1>1. CASE s.at = "seed"
  <2> DEFINE e == Seeded(s, coin)
             k == 0
  <2>1. /\ Same(s, e, {"seed", "coins"}) /\ e.seed = coin /\ IsState(e) /\ e.prng \in Nat
        /\ t = StartRound(p, Entered(p, e, k)).s
    BY <1>1, SeedTakenIs, WentIs DEF Counted
  <2>2. k \in Parties
    BY DEF Parties
  <2> HIDE DEF e, k
  <2>3. Same(e, t, Instance) /\ Counted(t)
    BY <2>1, <2>2, InstanceKeeps
  <2> HIDE DEF t
  <2>4. t.tape = s.tape /\ t.draws = s.draws /\ t.log = s.log /\ t.seed = coin
    BY <2>1, <2>3 DEF Same, Fields, Instance
  <2> QED BY <1>1, <2>3, <2>4 DEF Leaving, t
<1>2. CASE s.at = "proof"
  <2>1. Same(s, t, {"at", "pi", "mine", "u", "v"})
    BY <1>2, ProofTakenIs, WentIs DEF TakesPart
  <2> HIDE DEF t
  <2>2. /\ t.tape = s.tape /\ t.draws = s.draws /\ t.log = s.log /\ t.seed = s.seed
        /\ t.prng = s.prng /\ t.len = s.len
    BY <2>1 DEF Same, Fields
  <2> QED BY <1>2, <2>2 DEF Leaving, Counted, t
<1>3. CASE s.at = "residual"
  <2>1. Same(s, t, {"at", "mine"})
    BY <1>3, ResidualTakenIs, WentIs
  <2> HIDE DEF t
  <2>2. /\ t.tape = s.tape /\ t.draws = s.draws /\ t.log = s.log /\ t.seed = s.seed
        /\ t.prng = s.prng /\ t.len = s.len
    BY <2>1 DEF Same, Fields
  <2> QED BY <1>3, <2>2 DEF Leaving, Counted, t
<1>4. CASE s.at = "evals"
  <2> DEFINE e == Checked(s)
  <2>1. /\ Same(s, e, {"mine"}) /\ IsState(e) /\ e.prng \in Nat /\ t = NextInstance(p, e).s
    BY <1>4, EvalsTakenIs, WentIs DEF Counted
  <2> HIDE DEF e
  <2>2. /\ t.tape = e.tape /\ t.draws = e.draws /\ Counted(t)
        /\ e.prover < LastProver => t.log = e.log /\ t.seed = e.seed /\ Ready(p, t, e.prover + 1)
    BY <2>1, NextKeeps
  <2> HIDE DEF t
  <2>3. e.tape = s.tape /\ e.draws = s.draws /\ e.log = s.log /\ e.seed = s.seed /\ e.prover = s.prover
    BY <2>1 DEF Same, Fields
  <2> QED BY <1>4, <2>2, <2>3 DEF Leaving, t
<1>5. CASE s.at = "coin"
  <2>1. t = CoinTaken(p, s, coin).s
    BY <1>5, WentIs
  <2>2. CASE MustRedraw(p, s, coin)
    <3>1. Same(s, t, {"coins"})
      BY <2>1, <2>2, CoinAgainIs DEF CoinTaken
    <3> HIDE DEF t
    <3>2. /\ t.tape = s.tape /\ t.draws = s.draws /\ t.log = s.log /\ t.seed = s.seed
          /\ t.prng = s.prng /\ t.len = s.len
      BY <3>1 DEF Same, Fields
    <3> QED BY <1>5, <2>2, <3>2 DEF Leaving, Counted, t
  <2>3. CASE ~MustRedraw(p, s, coin) /\ ~IsBase(s)
    <3> DEFINE e == FoldedAt(p, s, coin)
    <3>1. /\ Same(s, e, {"coins", "round", "len", "pi", "u", "v", "tau"})
          /\ IsState(e) /\ Counted(e) /\ t = StartRound(p, e).s
      BY <2>1, <2>3, FoldTakenIs DEF CoinTaken
    <3> HIDE DEF e
    <3>2. Same(e, t, {"at", "prng"}) /\ Counted(t)
      BY <3>1, RoundKeeps
    <3> HIDE DEF t
    <3>3. t.tape = s.tape /\ t.draws = s.draws /\ t.log = s.log /\ t.seed = s.seed
      BY <3>1, <3>2 DEF Same, Fields
    <3> QED BY <1>5, <2>3, <3>2, <3>3 DEF Leaving, t
  <2>4. CASE ~MustRedraw(p, s, coin) /\ IsBase(s) /\ s.prover # p
    <3>1. Same(s, t, {"coins", "at", "mine"})
      BY <2>1, <2>4, BaseTakenIs DEF CoinTaken
    <3> HIDE DEF t
    <3>2. /\ t.tape = s.tape /\ t.draws = s.draws /\ t.log = s.log /\ t.seed = s.seed
          /\ t.prng = s.prng /\ t.len = s.len
      BY <3>1 DEF Same, Fields
    <3> QED BY <1>5, <2>4, <3>2 DEF Leaving, Counted, t
  <2>5. CASE ~MustRedraw(p, s, coin) /\ IsBase(s) /\ s.prover = p
    <3> DEFINE e == Drawn(s)
    <3>1. t = NextInstance(p, e).s
      BY <2>1, <2>5 DEF CoinTaken, BaseCoinTaken, IsProver
    <3>2. Same(s, e, {"coins"}) /\ IsState(e) /\ e.prng \in Nat
      BY DrawnIs DEF Counted
    <3> HIDE DEF e
    <3>3. /\ t.tape = e.tape /\ t.draws = e.draws /\ Counted(t)
          /\ e.prover < LastProver => t.log = e.log /\ t.seed = e.seed /\ Ready(p, t, e.prover + 1)
      BY <3>1, <3>2, NextKeeps
    <3> HIDE DEF t
    <3>4. e.tape = s.tape /\ e.draws = s.draws /\ e.log = s.log /\ e.seed = s.seed /\ e.prover = s.prover
      BY <3>2 DEF Same, Fields
    <3> QED BY <1>5, <2>5, <3>3, <3>4 DEF Leaving, t
  <2> QED BY <2>2, <2>3, <2>4, <2>5
<1> QED BY <1>1, <1>2, <1>3, <1>4, <1>5

-----------------------------------------------------------------------------
(* The evaluation: tapes fit and logs agree. *)

(* The ANDs of a round, by the wire they are for.                          *)
IsOut(f, w) == \E k \in DOMAIN Sched.ands[f] : Sched.ands[f][k].out = w
OutPlace(f, w) == CHOOSE k \in DOMAIN Sched.ands[f] : Sched.ands[f][k].out = w

(* All gates of the schedule are gates of the circuit.                     *)
LEMMA ScheduleGates ==
    ASSUME NEW f \in 0..Sched.depth
    PROVE  /\ DOMAIN Sched.locals[f] = 1..Len(Sched.locals[f]) /\ Len(Sched.locals[f]) \in Nat
           /\ DOMAIN Sched.ands[f] = 1..Len(Sched.ands[f]) /\ Len(Sched.ands[f]) \in Nat
           /\ \A i \in 1..Len(Sched.locals[f]) : IsGate(Multiplier, Sched.locals[f][i])
           /\ \A i \in 1..Len(Sched.ands[f]) : IsGate(Multiplier, Sched.ands[f][i])
<1>1. Formed(Multiplier) /\ \E i \in DOMAIN Multiplier.gates : Multiplier.gates[i].op = "and"
  BY MultiplierFormed
<1>2. PICK n \in Nat : DOMAIN Multiplier.gates = 1..n /\ \A i \in 1..n : IsGate(Multiplier, Multiplier.gates[i])
  BY <1>1, GatesAre
<1>3. n # 0
  BY <1>1, <1>2
<1>4. IsSchedule(Schedule(Multiplier), Multiplier, Available(Multiplier), n)
  BY <1>1, <1>2, <1>3, ScheduleIs
<1> DEFINE S == {Multiplier.gates[i] : i \in 1..n}
<1>5. Sched.locals[f] \in Seq(S) /\ Sched.ands[f] \in Seq(S)
  BY <1>4 DEF IsSchedule, InOrder, Sched
<1>6. \A g \in S : IsGate(Multiplier, g)
  BY <1>2
<1> HIDE DEF S
<1> QED BY <1>5, <1>6

(* A tape a whose first, or second, components are the words given for a   *)
(* round's wires, and otherwise t.                                         *)
FirstFilled(a, t, f, words, W0) ==
    /\ Tape(a, W0)
    /\ \A w \in W0 : IsOut(f, w) => a[w] = <<words[OutPlace(f, w)], t[w][2]>>
    /\ \A w \in W0 : ~IsOut(f, w) => a[w] = t[w]
SecondFilled(a, t, f, words, W0) ==
    /\ Tape(a, W0)
    /\ \A w \in W0 : IsOut(f, w) => a[w] = <<t[w][1], words[OutPlace(f, w)]>>
    /\ \A w \in W0 : ~IsOut(f, w) => a[w] = t[w]

(* One component of a tape's pairs filled in.                              *)
LEMMA FilledIn ==
    ASSUME NEW W0, NEW t, Tape(t, W0), NEW f, NEW words
    PROVE  /\ FirstFilled(WithComponent(t, Sched.ands[f], 1, words), t, f, words, W0)
           /\ SecondFilled(WithComponent(t, Sched.ands[f], 2, words), t, f, words, W0)
<1> DEFINE c(i) == WithComponent(t, Sched.ands[f], i, words)
<1>1. DOMAIN t = W0 /\ \A w \in W0 : t[w] = <<t[w][1], t[w][2]>>
  BY DEF Tape
<1>2. \A i : c(i) = [w \in W0 |-> IF IsOut(f, w) THEN [t[w] EXCEPT ![i] = words[OutPlace(f, w)]] ELSE t[w]]
  BY <1>1, Zenon DEF WithComponent, IsOut, OutPlace
<1> HIDE DEF c
<1>3. \A x, y, z : [<<x, y>> EXCEPT ![1] = z] = <<z, y>> /\ [<<x, y>> EXCEPT ![2] = z] = <<x, z>>
  OBVIOUS
<1>4. ASSUME NEW w \in W0, IsOut(f, w)
      PROVE  c(1)[w] = <<words[OutPlace(f, w)], t[w][2]>> /\ c(2)[w] = <<t[w][1], words[OutPlace(f, w)]>>
  <2> DEFINE z == words[OutPlace(f, w)]
             x == t[w][1]
             y == t[w][2]
  <2>1. c(1)[w] = [t[w] EXCEPT ![1] = z] /\ c(2)[w] = [t[w] EXCEPT ![2] = z]
    BY <1>2, <1>4, Zenon
  <2>2. t[w] = <<x, y>>
    BY <1>1
  <2> HIDE DEF x, y, z
  <2>3. [<<x, y>> EXCEPT ![1] = z] = <<z, y>> /\ [<<x, y>> EXCEPT ![2] = z] = <<x, z>>
    BY <1>3
  <2>4. c(1)[w] = <<z, y>> /\ c(2)[w] = <<x, z>>
    BY <2>1, <2>2, <2>3
  <2> QED BY <2>4 DEF x, y, z
<1>5. ASSUME NEW w \in W0, ~IsOut(f, w) PROVE c(1)[w] = t[w] /\ c(2)[w] = t[w]
  BY <1>2, <1>5, Zenon
<1>6. ASSUME NEW i \in {1, 2} PROVE Tape(c(i), W0)
  <2>1. c(i) = [w \in W0 |-> c(i)[w]]
    BY <1>2
  <2>2. \A w \in W0 : c(i)[w] = <<c(i)[w][1], c(i)[w][2]>>
    <3> SUFFICES ASSUME NEW w \in W0 PROVE c(i)[w] = <<c(i)[w][1], c(i)[w][2]>>
      OBVIOUS
    <3>1. CASE IsOut(f, w)
      <4>1. \E x, y : c(i)[w] = <<x, y>>
        BY <1>4, <3>1
      <4> QED BY <4>1
    <3>2. CASE ~IsOut(f, w)
      <4>1. c(i)[w] = t[w]
        BY <1>5, <3>2
      <4> QED BY <1>1, <4>1
    <3> QED BY <3>1, <3>2
  <2> QED BY <2>1, <2>2, Zenon DEF Tape
<1> QED BY <1>4, <1>5, <1>6 DEF c, FirstFilled, SecondFilled

(* Every party's state: what it holds is well formed, and all three have   *)
(* drawn as much.                                                          *)
Stocked(st) ==
    \A p \in Parties :
        /\ IsState(st[p]) /\ Counted(st[p]) /\ Tape(st[p].tape, Wires(Multiplier))
        /\ st[p].draws = st[NextOf(p)].draws

(* Neighbours agree on the components both hold: on the wires,             *)
Fits(st) == \A p \in Parties : Fitting(st[p].tape, st[NextOf(p)].tape, Wires(Multiplier))

(* on the wires but those of a round's products, which have been computed  *)
(* and not sent;                                                           *)
HalfFits(st, f, n) ==
    \A p \in Parties : \A w \in Wires(Multiplier) :
        /\ IsOut(f, w) => st[p].tape[w][1] = ProductOf(st[p].log[n + OutPlace(f, w)])
        /\ ~IsOut(f, w) => st[p].tape[w][2] = st[NextOf(p)].tape[w][1]

(* and in the logs.                                                        *)
Entries(l, n) == \A i \in 1..n : DOMAIN l[i] = {"x", "y", "f", "in"}
LogsFit(st, n) ==
    \A p \in Parties : Entries(st[p].log, n) /\ LogPair(st[p].log, st[NextOf(p)].log, n)
ReceivedTo(st, n) == \A p \in Parties : Received(st[p].log, st[NextOf(p)].log, n)

(* A place is one of the round's.                                          *)
LEMMA OutPlaceIs ==
    ASSUME NEW f, NEW w, IsOut(f, w)
    PROVE  OutPlace(f, w) \in DOMAIN Sched.ands[f]
BY DEF IsOut, OutPlace

(* What does not depend on the stage: a state's tape and counters.         *)
Tidy(st) ==
    \A p \in Parties : /\ Counted(st[p]) /\ Tape(st[p].tape, Wires(Multiplier))
                       /\ st[p].draws = st[NextOf(p)].draws

(* What the next party sends of a round, n entries into the log.           *)
Received1(st, p, f, n) ==
    [k \in DOMAIN Sched.ands[f] |-> ProductOf(st[NextOf(p)].log[n + k])]

(* All parties take the same step.                                         *)
PhaseIs(st, f) == \A p \in Parties : st[p].phase = f
InRound(st, f) == \A p \in Parties : st[p].phase = f /\ st[p].at = "level"
AllMultiplied(st, s2) == \A p \in Parties : s2[p] = Multiplied(p, st[p]).s
AllRaised(st, s2, f, n) == \A p \in Parties : s2[p] = Raised(st[p], Received1(st, p, f, n))
AllFinished(st, s2) == \A p \in Parties : s2[p] = Finished(p, st[p])

(* A phase multiplies: the tapes fit but for the products, and the logs    *)
(* agree on what was multiplied.                                           *)
LEMMA MultipliedFits ==
    ASSUME NEW st, Stocked(st), Fits(st), NEW f \in 0..Sched.depth, NEW n \in Nat,
           PhaseIs(st, f), LogsFit(st, n), ReceivedTo(st, n), NEW s2, AllMultiplied(st, s2)
    PROVE  /\ HalfFits(s2, f, n) /\ LogsFit(s2, n + Len(Sched.ands[f])) /\ ReceivedTo(s2, n) /\ Tidy(s2)
<1> USE DEF PhaseIs, AllMultiplied, Tidy
<1> DEFINE ands == Sched.ands[f]
           W0 == Wires(Multiplier)
           l(p) == LocalTape(p, st[p])
<1>1. /\ DOMAIN ands = 1..Len(ands) /\ Len(ands) \in Nat
      /\ \A i \in 1..Len(ands) : ands[i].left \in W0 /\ ands[i].right \in W0
  BY ScheduleGates DEF IsGate
<1>2. \A p \in Parties : /\ DOMAIN st[p].log = 1..n /\ Len(st[p].log) = n
                         /\ IsState(st[p]) /\ NextOf(p) \in Parties
  <2> SUFFICES ASSUME NEW p \in Parties
               PROVE  /\ DOMAIN st[p].log = 1..n /\ Len(st[p].log) = n
                      /\ IsState(st[p]) /\ NextOf(p) \in Parties
    BY Zenon
  <2>1. IsState(st[p]) /\ DOMAIN st[p].log = 1..n
    BY DEF Stocked, LogsFit, LogPair
  <2>2. DOMAIN st[p].log = 1..Len(st[p].log) /\ Len(st[p].log) \in Nat
    BY <2>1, SeqLength DEF IsState
  <2> QED BY <2>1, <2>2, Neighbours
<1>3. \A p \in Parties :
        /\ Same(st[p], s2[p], {"at", "tape", "log", "draws"})
        /\ DOMAIN s2[p].log = 1..(n + Len(ands)) /\ s2[p].draws = st[p].draws + Len(ands)
        /\ \A i \in 1..n : s2[p].log[i] = st[p].log[i]
        /\ \A k \in 1..Len(ands) : s2[p].log[n + k] = EntryOf(p, st[p], k)
        /\ s2[p].tape = WithComponent(l(p), ands, 1, Products(p, st[p]))
  <2> SUFFICES ASSUME NEW p \in Parties
        PROVE  /\ Same(st[p], s2[p], {"at", "tape", "log", "draws"})
               /\ DOMAIN s2[p].log = 1..(n + Len(ands)) /\ s2[p].draws = st[p].draws + Len(ands)
               /\ \A i \in 1..n : s2[p].log[i] = st[p].log[i]
               /\ \A k \in 1..Len(ands) : s2[p].log[n + k] = EntryOf(p, st[p], k)
               /\ s2[p].tape = WithComponent(l(p), ands, 1, Products(p, st[p]))
    BY Zenon
  <2> DEFINE s == st[p]
             t == s2[p]
  <2>1. IsState(s) /\ s.phase \in 0..Sched.depth /\ s.phase = f /\ Len(s.log) = n /\ t = Multiplied(p, s).s
    BY <1>2
  <2> HIDE DEF s, t
  <2>2. /\ Same(s, t, {"at", "tape", "log", "draws"})
        /\ IsSeq(t.log) /\ Len(t.log) = Len(s.log) + Len(ands) /\ t.draws = s.draws + Len(ands)
        /\ \A i \in 1..Len(s.log) : t.log[i] = s.log[i]
        /\ \A k \in 1..Len(ands) : t.log[Len(s.log) + k] = EntryOf(p, s, k)
        /\ t.tape = WithComponent(LocalTape(p, s), ands, 1, Products(p, s))
    BY <2>1, MultipliedIs
  <2>3. DOMAIN t.log = 1..Len(t.log)
    BY <2>2, SeqLength
  <2> HIDE DEF ands
  <2>4. DOMAIN t.log = 1..(n + Len(ands))
    BY <2>1, <2>2, <2>3
  <2> QED BY <2>1, <2>2, <2>4 DEF s, t
<1>4. \A p \in Parties : Tape(l(p), W0) /\ Fitting(l(p), l(NextOf(p)), W0)
  <2> SUFFICES ASSUME NEW p \in Parties PROVE Tape(l(p), W0) /\ Fitting(l(p), l(NextOf(p)), W0)
    BY Zenon
  <2> DEFINE L == Sched.locals[f]
             N == Len(L)
             q == NextOf(p)
  <2>1. N \in Nat /\ DOMAIN L = 1..N /\ \A i \in 1..N : L[i].left \in W0 /\ L[i].right \in W0
    BY ScheduleGates DEF IsGate
  <2>2. l(p) = LocalGates(p, L, st[p].tape, AllLanes) /\ l(q) = LocalGates(q, L, st[q].tape, AllLanes)
    BY <1>2 DEF LocalTape
  <2>3. Tape(st[p].tape, W0) /\ Tape(st[q].tape, W0) /\ Fitting(st[p].tape, st[q].tape, W0)
    BY <1>2 DEF Stocked, Fits
  <2> HIDE DEF L, N, W0, l
  <2>4. /\ Tape(LocalGates(p, L, st[p].tape, AllLanes), W0)
        /\ Fitting(LocalGates(p, L, st[p].tape, AllLanes), LocalGates(q, L, st[q].tape, AllLanes), W0)
    BY <2>1, <2>3, LocalGatesFit
  <2> QED BY <2>2, <2>4
<1> HIDE DEF l
<1>5. \A p \in Parties :
        /\ Tape(s2[p].tape, W0)
        /\ \A w \in W0 : IsOut(f, w) =>
                s2[p].tape[w] = <<Products(p, st[p])[OutPlace(f, w)], l(p)[w][2]>>
        /\ \A w \in W0 : ~IsOut(f, w) => s2[p].tape[w] = l(p)[w]
  <2> SUFFICES ASSUME NEW p \in Parties
        PROVE  /\ Tape(s2[p].tape, W0)
               /\ \A w \in W0 : IsOut(f, w) =>
                       s2[p].tape[w] = <<Products(p, st[p])[OutPlace(f, w)], l(p)[w][2]>>
               /\ \A w \in W0 : ~IsOut(f, w) => s2[p].tape[w] = l(p)[w]
    BY Zenon
  <2> DEFINE x == Products(p, st[p])
             lp == l(p)
             a == WithComponent(lp, ands, 1, x)
  <2>1. s2[p].tape = a /\ Tape(lp, W0)
    BY <1>3, <1>4
  <2> HIDE DEF x, lp, W0
  <2>2. FirstFilled(a, lp, f, x, W0)
    BY <2>1, FilledIn
  <2> HIDE DEF a
  <2> QED BY <2>1, <2>2 DEF x, lp, FirstFilled
<1>6. ASSUME NEW p \in Parties, NEW k \in 1..Len(ands)
      PROVE  Products(p, st[p])[k] = ProductOf(s2[p].log[n + k])
  <2>1. st[p].phase = f
    OBVIOUS
  <2>2. Products(p, st[p])[k] = ProductOf(EntryOf(p, st[p], k))
    BY <1>1, <2>1 DEF Products
  <2> QED BY <1>3, <2>2
<1>7. HalfFits(s2, f, n)
  <2> SUFFICES ASSUME NEW p \in Parties, NEW w \in W0
        PROVE  /\ IsOut(f, w) => s2[p].tape[w][1] = ProductOf(s2[p].log[n + OutPlace(f, w)])
               /\ ~IsOut(f, w) => s2[p].tape[w][2] = s2[NextOf(p)].tape[w][1]
    BY DEF HalfFits
  <2>1. CASE IsOut(f, w)
    <3>1. OutPlace(f, w) \in 1..Len(ands)
      BY <1>1, <2>1, OutPlaceIs
    <3>2. s2[p].tape[w][1] = Products(p, st[p])[OutPlace(f, w)]
      BY <1>5, <2>1
    <3> QED BY <1>6, <2>1, <3>1, <3>2
  <2>2. CASE ~IsOut(f, w)
    <3>1. s2[p].tape[w] = l(p)[w] /\ s2[NextOf(p)].tape[w] = l(NextOf(p))[w]
      BY <1>2, <1>5, <2>2
    <3>2. l(p)[w][2] = l(NextOf(p))[w][1]
      BY <1>4 DEF Fitting
    <3> QED BY <2>2, <3>1, <3>2
  <2> QED BY <2>1, <2>2
<1>8. LogsFit(s2, n + Len(ands))
  <2> SUFFICES ASSUME NEW p \in Parties
               PROVE  Entries(s2[p].log, n + Len(ands)) /\ LogPair(s2[p].log, s2[NextOf(p)].log, n + Len(ands))
    BY Zenon DEF LogsFit
  <2> DEFINE q == NextOf(p)
             a == s2[p].log
             b == s2[q].log
  <2>1. q \in Parties /\ PrevOf(q) = p
    BY Neighbours
  <2>2. DOMAIN a = 1..(n + Len(ands)) /\ DOMAIN b = 1..(n + Len(ands))
    BY <1>3, <2>1
  <2>3. ASSUME NEW i \in 1..n
        PROVE  a[i].x[2] = b[i].x[1] /\ a[i].y[2] = b[i].y[1] /\ a[i].f[2] = b[i].f[1]
    <3>1. a[i] = st[p].log[i] /\ b[i] = st[q].log[i]
      BY <1>3, <2>1
    <3>2. LogPair(st[p].log, st[q].log, n)
      BY DEF LogsFit
    <3> QED BY <3>1, <3>2 DEF LogPair
  <2>4. ASSUME NEW k \in 1..Len(ands)
        PROVE  LET i == n + k
               IN a[i].x[2] = b[i].x[1] /\ a[i].y[2] = b[i].y[1] /\ a[i].f[2] = b[i].f[1]
    <3>1. a[n + k] = EntryOf(p, st[p], k) /\ b[n + k] = EntryOf(q, st[q], k)
      BY <1>3, <2>1
    <3>2. st[p].phase = f /\ st[q].phase = f /\ st[p].draws = st[q].draws
      BY <2>1 DEF Stocked
    <3> DEFINE d == st[p].draws + k
    <3>3. /\ EntryOf(p, st[p], k).x = l(p)[ands[k].left] /\ EntryOf(p, st[p], k).y = l(p)[ands[k].right]
          /\ EntryOf(q, st[q], k).x = l(q)[ands[k].left] /\ EntryOf(q, st[q], k).y = l(q)[ands[k].right]
          /\ EntryOf(p, st[p], k).f = <<random.zero[PrevOf(p)][d], random.zero[p][d]>>
          /\ EntryOf(q, st[q], k).f = <<random.zero[p][d], random.zero[q][d]>>
      BY <2>1, <3>2 DEF EntryOf, Halves, l
    <3>4. Fitting(l(p), l(q), W0)
      BY <1>4
    <3>5. /\ l(p)[ands[k].left][2] = l(q)[ands[k].left][1]
          /\ l(p)[ands[k].right][2] = l(q)[ands[k].right][1]
      BY <1>1, <3>4 DEF Fitting
    <3> QED BY <3>1, <3>3, <3>5
  <2>5. ASSUME NEW i \in 1..(n + Len(ands))
        PROVE  a[i].x[2] = b[i].x[1] /\ a[i].y[2] = b[i].y[1] /\ a[i].f[2] = b[i].f[1]
    <3>1. CASE i \in 1..n
      BY <2>3, <3>1
    <3>2. CASE i \notin 1..n
      <4>1. i - n \in 1..Len(ands) /\ n + (i - n) = i
        BY <1>1, <3>2
      <4> QED BY <2>4, <4>1
    <3> QED BY <3>1, <3>2
  <2>6. ASSUME NEW i \in 1..(n + Len(ands)) PROVE DOMAIN a[i] = {"x", "y", "f", "in"}
    <3>1. CASE i \in 1..n
      <4>1. a[i] = st[p].log[i] /\ Entries(st[p].log, n)
        BY <1>3, <3>1 DEF LogsFit
      <4> QED BY <3>1, <4>1 DEF Entries
    <3>2. CASE i \notin 1..n
      <4>1. i - n \in 1..Len(ands) /\ n + (i - n) = i
        BY <1>1, <3>2
      <4>2. a[i] = EntryOf(p, st[p], i - n)
        BY <1>3, <4>1
      <4> QED BY <4>2 DEF EntryOf
    <3> QED BY <3>1, <3>2
  <2>7. Entries(a, n + Len(ands))
    BY <2>6 DEF Entries
  <2>8. LogPair(a, b, n + Len(ands))
    BY <2>2, <2>5 DEF LogPair
  <2> QED BY <2>7, <2>8
<1>9. ReceivedTo(s2, n)
  <2> SUFFICES ASSUME NEW p \in Parties, NEW i \in 1..n
               PROVE  s2[p].log[i].in = ProductOf(s2[NextOf(p)].log[i])
    BY DEF ReceivedTo, Received
  <2>1. st[p].log[i].in = ProductOf(st[NextOf(p)].log[i])
    BY DEF ReceivedTo, Received
  <2> QED BY <1>2, <1>3, <2>1
<1>10. ASSUME NEW p \in Parties
       PROVE  Counted(s2[p]) /\ s2[p].draws = s2[NextOf(p)].draws
  <2>1. s2[p].prng = st[p].prng /\ s2[p].len = st[p].len
    BY <1>3 DEF Same, Fields
  <2>2. st[p].draws = st[NextOf(p)].draws /\ Counted(st[p])
    BY DEF Stocked
  <2> QED BY <1>2, <1>3, <2>1, <2>2 DEF Counted
<1> QED BY <1>5, <1>7, <1>8, <1>9, <1>10

(* An interval tells its end.                                              *)
LEMMA SameEnd ==
    ASSUME NEW m \in Nat, NEW n \in Nat, 1..m = 1..n
    PROVE  m = n
<1>1. CASE m < n
  <2>1. n \in 1..n /\ n \notin 1..m
    BY <1>1
  <2> QED BY <2>1
<1>2. CASE n < m
  <2>1. m \in 1..m /\ m \notin 1..n
    BY <1>2
  <2> QED BY <2>1
<1> QED BY <1>1, <1>2

(* What is received completes the round: the tapes fit.                    *)
LEMMA RaisedFits ==
    ASSUME NEW st, Stocked(st), NEW f \in 0..Sched.depth, NEW n \in Nat, HalfFits(st, f, n),
           InRound(st, f), NEW m, m = n + Len(Sched.ands[f]), LogsFit(st, m), ReceivedTo(st, n),
           NEW s2, AllRaised(st, s2, f, n)
    PROVE  Stocked(s2) /\ Fits(s2) /\ LogsFit(s2, m) /\ ReceivedTo(s2, m)
<1> USE DEF InRound, AllRaised
<1> DEFINE ands == Sched.ands[f]
           W0 == Wires(Multiplier)
           inb(p) == Received1(st, p, f, n)
<1>1. DOMAIN ands = 1..Len(ands) /\ Len(ands) \in Nat /\ m \in Nat /\ n <= m
  BY ScheduleGates
<1>2. \A p \in Parties : NextOf(p) \in Parties
  BY Neighbours, Zenon
<1>3. ASSUME NEW p \in Parties
      PROVE  /\ IsState(st[p]) /\ DOMAIN st[p].log = 1..m /\ Len(st[p].log) = m
             /\ Tape(st[p].tape, W0)
  <2>1. IsState(st[p]) /\ DOMAIN st[p].log = 1..m /\ Tape(st[p].tape, W0)
    BY DEF Stocked, LogsFit, LogPair
  <2>2. DOMAIN st[p].log = 1..Len(st[p].log) /\ Len(st[p].log) \in Nat
    BY <2>1, SeqLength DEF IsState
  <2>3. Len(st[p].log) = m
    <3> DEFINE len == Len(st[p].log)
    <3>1. 1..m = 1..len /\ len \in Nat /\ m \in Nat
      BY <1>1, <2>1, <2>2, Zenon
    <3> HIDE DEF len
    <3>2. m = len
      BY <3>1, SameEnd
    <3> QED BY <3>2 DEF len
  <2> QED BY <2>1, <2>3, Zenon
<1>4. ASSUME NEW p \in Parties
      PROVE  /\ Same(st[p], s2[p], {"phase", "log", "tape"}) /\ s2[p].phase = f + 1 /\ IsState(s2[p])
             /\ DOMAIN s2[p].log = 1..m /\ s2[p].log = LoggedIn(st[p], inb(p))
             /\ SecondFilled(s2[p].tape, st[p].tape, f, inb(p), W0)
  <2> DEFINE s == st[p]
             t == s2[p]
             b == inb(p)
  <2>1. IsState(s) /\ s.at = "level" /\ s.phase = f /\ Len(s.log) = m /\ Tape(s.tape, W0) /\ t = Raised(s, b)
    BY <1>3
  <2> HIDE DEF s, t, b, W0, ands
  <2>2. /\ Same(s, t, {"phase", "log", "tape"}) /\ t.phase = s.phase + 1 /\ IsState(t)
        /\ t.log = LoggedIn(s, b) /\ DOMAIN t.log = 1..Len(s.log)
        /\ t.tape = WithComponent(s.tape, Sched.ands[s.phase], 2, b)
    BY <2>1, RaisedIs
  <2>3. SecondFilled(WithComponent(s.tape, Sched.ands[f], 2, b), s.tape, f, b, W0)
    BY <2>1, FilledIn
  <2> QED BY <2>1, <2>2, <2>3 DEF s, t, b
<1>5. ASSUME NEW p \in Parties, NEW i \in 1..m
      PROVE  /\ i > n => s2[p].log[i] = [st[p].log[i] EXCEPT !.in = ProductOf(st[NextOf(p)].log[i])]
             /\ ~(i > n) => s2[p].log[i] = st[p].log[i]
  <2>1. Logged(st[p], st[p]) = n
    <3>1. Len(st[p].log) = m /\ st[p].phase = f
      BY <1>3, Zenon
    <3>2. Logged(st[p], st[p]) = m - Len(ands)
      BY <3>1, Zenon DEF Logged
    <3>3. Len(ands) \in Nat /\ n \in Nat /\ m = n + Len(ands)
      BY <1>1, Zenon
    <3> DEFINE l == Len(ands)
    <3> HIDE DEF l
    <3>4. l \in Nat /\ m = n + l /\ Logged(st[p], st[p]) = m - l
      BY <3>2, <3>3, Zenon DEF l
    <3> QED BY <3>4
  <2>2. s2[p].log[i] = IF i > n THEN [st[p].log[i] EXCEPT !.in = inb(p)[i - n]] ELSE st[p].log[i]
    BY <1>3, <1>4, <2>1 DEF LoggedIn
  <2>3. i > n => i - n \in DOMAIN ands /\ n + (i - n) = i
    BY <1>1
  <2>4. i > n => inb(p)[i - n] = ProductOf(st[NextOf(p)].log[i])
    BY <2>3 DEF Received1
  <2> QED BY <2>2, <2>4
<1>6. ASSUME NEW p \in Parties, NEW i \in 1..m
      PROVE  /\ DOMAIN s2[p].log[i] = {"x", "y", "f", "in"}
             /\ s2[p].log[i].x = st[p].log[i].x /\ s2[p].log[i].y = st[p].log[i].y
             /\ s2[p].log[i].f = st[p].log[i].f
             /\ s2[p].log[i].in = ProductOf(st[NextOf(p)].log[i])
  <2>1. DOMAIN st[p].log[i] = {"x", "y", "f", "in"}
    BY DEF LogsFit, Entries
  <2>2. CASE i > n
    <3> DEFINE e == st[p].log[i]
               v == ProductOf(st[NextOf(p)].log[i])
    <3>1. s2[p].log[i] = [e EXCEPT !.in = v]
      BY <1>5, <2>2
    <3>2. DOMAIN e = {"x", "y", "f", "in"}
      BY <2>1, Zenon
    <3> DEFINE d == s2[p].log[i]
    <3>3. d = [e EXCEPT !.in = v] /\ DOMAIN e = {"x", "y", "f", "in"}
      BY <3>1, <3>2, Zenon
    <3> HIDE DEF e, v, d
    <3>4. DOMAIN d = {"x", "y", "f", "in"} /\ d.x = e.x /\ d.y = e.y /\ d.f = e.f /\ d.in = v
      BY <3>3
    <3> QED BY <3>4, Zenon DEF e, v, d
  <2>3. CASE ~(i > n)
    <3>1. s2[p].log[i] = st[p].log[i] /\ i \in 1..n
      <4>1. s2[p].log[i] = st[p].log[i]
        BY <1>5, <2>3, Zenon
      <4>2. n \in Nat /\ m \in Nat /\ i \in 1..m /\ ~(i > n)
        BY <1>1, <2>3, Zenon
      <4>3. i \in 1..n
        BY <4>2
      <4> QED BY <4>1, <4>3, Zenon
    <3>2. st[p].log[i].in = ProductOf(st[NextOf(p)].log[i])
      BY <3>1 DEF ReceivedTo, Received
    <3> QED BY <2>1, <3>1, <3>2
  <2> QED BY <2>2, <2>3
<1>7. ASSUME NEW p \in Parties, NEW i \in 1..m
      PROVE  ProductOf(s2[p].log[i]) = ProductOf(st[p].log[i])
  BY <1>6, Zenon DEF ProductOf
<1>8. LogsFit(s2, m)
  <2> SUFFICES ASSUME NEW p \in Parties
               PROVE  Entries(s2[p].log, m) /\ LogPair(s2[p].log, s2[NextOf(p)].log, m)
    BY Zenon DEF LogsFit
  <2>1. Entries(s2[p].log, m)
    BY <1>6 DEF Entries
  <2>2. LogPair(st[p].log, st[NextOf(p)].log, m)
    BY DEF LogsFit
  <2>3. ASSUME NEW i \in 1..m
        PROVE  /\ s2[p].log[i].x[2] = s2[NextOf(p)].log[i].x[1]
               /\ s2[p].log[i].y[2] = s2[NextOf(p)].log[i].y[1]
               /\ s2[p].log[i].f[2] = s2[NextOf(p)].log[i].f[1]
    <3>1. NextOf(p) \in Parties
      BY <1>2, Zenon
    <3>2. /\ st[p].log[i].x[2] = st[NextOf(p)].log[i].x[1]
          /\ st[p].log[i].y[2] = st[NextOf(p)].log[i].y[1]
          /\ st[p].log[i].f[2] = st[NextOf(p)].log[i].f[1]
      BY <2>2, Zenon DEF LogPair
    <3> QED BY <1>6, <3>1, <3>2, Zenon
  <2>4. LogPair(s2[p].log, s2[NextOf(p)].log, m)
    BY <1>2, <1>4, <2>3, Zenon DEF LogPair
  <2> QED BY <2>1, <2>4, Zenon
<1>9. ReceivedTo(s2, m)
  <2> SUFFICES ASSUME NEW p \in Parties, NEW i \in 1..m
               PROVE  s2[p].log[i].in = ProductOf(s2[NextOf(p)].log[i])
    BY DEF ReceivedTo, Received
  <2> QED BY <1>2, <1>6, <1>7
<1>10. Fits(s2)
  <2> SUFFICES ASSUME NEW p \in Parties, NEW w \in W0
               PROVE  s2[p].tape[w][2] = s2[NextOf(p)].tape[w][1]
    BY DEF Fits, Fitting
  <2> DEFINE q == NextOf(p)
  <2>1. q \in Parties
    BY <1>2
  <2>2. /\ SecondFilled(s2[p].tape, st[p].tape, f, inb(p), W0)
        /\ SecondFilled(s2[q].tape, st[q].tape, f, inb(q), W0)
    BY <1>4, <2>1
  <2>3. CASE IsOut(f, w)
    <3> DEFINE k == OutPlace(f, w)
    <3>1. k \in DOMAIN ands
      BY <2>3, OutPlaceIs
    <3>2. s2[p].tape[w][2] = inb(p)[k] /\ s2[q].tape[w][1] = st[q].tape[w][1]
      BY <2>2, <2>3 DEF SecondFilled
    <3>3. st[q].tape[w][1] = ProductOf(st[q].log[n + k])
      BY <2>1, <2>3 DEF HalfFits
    <3>4. inb(p)[k] = ProductOf(st[q].log[n + k])
      BY <3>1 DEF Received1
    <3> QED BY <3>2, <3>3, <3>4
  <2>4. CASE ~IsOut(f, w)
    <3>1. s2[p].tape[w] = st[p].tape[w] /\ s2[q].tape[w] = st[q].tape[w]
      BY <2>2, <2>4 DEF SecondFilled
    <3>2. st[p].tape[w][2] = st[q].tape[w][1]
      BY <2>4 DEF HalfFits
    <3> QED BY <3>1, <3>2
  <2> QED BY <2>3, <2>4
<1>11. ASSUME NEW p \in Parties
       PROVE  /\ IsState(s2[p]) /\ Counted(s2[p]) /\ Tape(s2[p].tape, W0)
              /\ s2[p].draws = s2[NextOf(p)].draws
  <2>1. \A q \in Parties : s2[q].prng = st[q].prng /\ s2[q].len = st[q].len /\ s2[q].draws = st[q].draws
    BY <1>4 DEF Same, Fields
  <2>2. st[p].draws = st[NextOf(p)].draws /\ Counted(st[p])
    BY DEF Stocked
  <2> QED BY <1>2, <1>4, <2>1, <2>2 DEF Counted, SecondFilled
<1>12. Stocked(s2)
  BY <1>11, Zenon DEF Stocked
<1> QED BY <1>8, <1>9, <1>10, <1>12

(* The gates of the last round keep the tapes fitting.                     *)
LEMMA FinishedFits ==
    ASSUME NEW st, Stocked(st), Fits(st), NEW n, LogsFit(st, n), ReceivedTo(st, n),
           NEW s2, AllFinished(st, s2)
    PROVE  /\ Fits(s2) /\ LogsFit(s2, n) /\ ReceivedTo(s2, n) /\ Tidy(s2)
<1> USE DEF AllFinished, Tidy
<1> DEFINE W0 == Wires(Multiplier)
           L == Sched.locals[Sched.depth]
           N == Len(L)
<1>1. N \in Nat /\ DOMAIN L = 1..N /\ \A i \in 1..N : L[i].left \in W0 /\ L[i].right \in W0
  <2>1. Sched.depth \in 0..Sched.depth
    BY ScheduleFacts
  <2> QED BY <2>1, ScheduleGates DEF IsGate
<1>2. ASSUME NEW p \in Parties
      PROVE  /\ Same(st[p], s2[p], {"at", "tape"}) /\ s2[p].tape = LocalGates(p, L, st[p].tape, AllLanes)
             /\ Tape(st[p].tape, W0) /\ NextOf(p) \in Parties
             /\ Fitting(st[p].tape, st[NextOf(p)].tape, W0)
  <2>1. IsState(st[p]) /\ s2[p] = Finished(p, st[p])
    BY DEF Stocked
  <2>2. Same(st[p], s2[p], {"at", "tape"}) /\ s2[p].tape = LocalGates(p, L, st[p].tape, AllLanes)
    BY <2>1, FinishedIs
  <2> QED BY <2>2, Neighbours DEF Stocked, Fits
<1>3. ASSUME NEW p \in Parties
      PROVE  Tape(s2[p].tape, W0) /\ Fitting(s2[p].tape, s2[NextOf(p)].tape, W0)
  <2> DEFINE q == NextOf(p)
             t == st[p].tape
             u == st[q].tape
  <2>1. Tape(t, W0) /\ Tape(u, W0) /\ Fitting(t, u, W0)
    BY <1>2
  <2>2. s2[p].tape = LocalGates(p, L, t, AllLanes) /\ s2[q].tape = LocalGates(q, L, u, AllLanes)
    BY <1>2
  <2> HIDE DEF L, N, W0, t, u
  <2>3. /\ Tape(LocalGates(p, L, t, AllLanes), W0)
        /\ Fitting(LocalGates(p, L, t, AllLanes), LocalGates(q, L, u, AllLanes), W0)
    BY <1>1, <2>1, LocalGatesFit
  <2> QED BY <2>2, <2>3
<1>4. ASSUME NEW p \in Parties
      PROVE  /\ s2[p].log = st[p].log /\ s2[p].prng = st[p].prng /\ s2[p].len = st[p].len
             /\ s2[p].draws = st[p].draws
  BY <1>2 DEF Same, Fields
<1>5. LogsFit(s2, n) /\ ReceivedTo(s2, n)
  BY <1>2, <1>4, Zenon DEF LogsFit, ReceivedTo
<1>6. ASSUME NEW p \in Parties PROVE Counted(s2[p]) /\ s2[p].draws = s2[NextOf(p)].draws
  BY <1>2, <1>4 DEF Counted, Stocked
<1> QED BY <1>3, <1>5, <1>6, Zenon DEF Fits

(* The parties in a round of the evaluation, with g.logs entries, those of *)
(* this round not complete.                                                *)
Levelled(g, st) ==
    LET n == g.logs - Len(Sched.ands[g.phase])
    IN /\ g.phase \in 0..(Sched.depth - 1) /\ n \in Nat /\ g.logs \in Nat
       /\ HalfFits(st, g.phase, n) /\ LogsFit(st, g.logs) /\ ReceivedTo(st, n)
       /\ \A f \in 0..g.phase : Len(Sched.ands[f]) <= g.logs

(* No round before f has more ANDs than n.                                 *)
Longest(f, n) == \A e \in 0..f : e # f => Len(Sched.ands[e]) <= n

(* A round entered.                                                        *)
LEMMA LevelEntered ==
    ASSUME NEW st, Stocked(st), Fits(st), NEW f \in 0..(Sched.depth - 1), NEW n \in Nat,
           PhaseIs(st, f), LogsFit(st, n), ReceivedTo(st, n), Longest(f, n),
           NEW s2, AllMultiplied(st, s2),
           NEW g, g.phase = f, g.logs = n + Len(Sched.ands[f])
    PROVE  Levelled(g, s2) /\ Tidy(s2)
<1> DEFINE l == Len(Sched.ands[f])
<1>1. f \in 0..Sched.depth /\ l \in Nat
  BY ScheduleFacts, ScheduleGates
<1>2. HalfFits(s2, f, n) /\ LogsFit(s2, n + l) /\ ReceivedTo(s2, n) /\ Tidy(s2)
  <2>1. f \in 0..Sched.depth
    BY <1>1
  <2> QED BY <2>1, MultipliedFits, Zenon
<1>3. g.logs - l = n /\ n \in Nat /\ g.logs = n + l /\ g.logs \in Nat
  BY <1>1
<1>4. ASSUME NEW e \in 0..f PROVE Len(Sched.ands[e]) <= g.logs
  <2>1. CASE e = f
    BY <1>1, <1>3, <2>1
  <2>2. CASE e # f
    <3> DEFINE m == Len(Sched.ands[e])
    <3>1. m <= n /\ m \in Nat
      <4>1. e \in 0..Sched.depth
        BY ScheduleFacts
      <4>2. m \in Nat
        BY <4>1, ScheduleGates
      <4>3. m <= n
        BY <2>2, Zenon DEF Longest
      <4> QED BY <4>2, <4>3
    <3> HIDE DEF m, l
    <3>2. n \in Nat /\ l \in Nat /\ g.logs = n + l
      BY <1>1, <1>3
    <3>3. m <= g.logs
      BY <3>1, <3>2
    <3> QED BY <3>3 DEF m
  <2> QED BY <2>1, <2>2
<1> HIDE DEF l
<1>5. g.logs - Len(Sched.ands[g.phase]) = n
  BY <1>3 DEF l
<1> QED BY <1>2, <1>3, <1>4, <1>5, Zenon DEF Levelled

(* The entries of earlier rounds; the next party's products, as owed.      *)
Before(g) == g.logs - Len(Sched.ands[g.phase])
InBodies(g, st, p) == Received1(st, p, g.phase, Before(g))
AllLevel(g, st, s2) == \A p \in Parties : s2[p] = LevelTaken(p, st[p], InBodies(g, st, p)).s

(* A round completed.                                                      *)
LEMMA LevelRaised ==
    ASSUME NEW g, NEW st, Stocked(st), Levelled(g, st),
           InRound(st, g.phase), NEW u, AllRaised(st, u, g.phase, Before(g))
    PROVE  /\ Stocked(u) /\ Fits(u) /\ LogsFit(u, g.logs) /\ ReceivedTo(u, g.logs)
           /\ PhaseIs(u, g.phase + 1)
<1> DEFINE f == g.phase
           l == Len(Sched.ands[f])
           n == Before(g)
<1>1. f \in 0..Sched.depth /\ l \in Nat /\ n \in Nat /\ g.logs \in Nat
  <2>1. f \in 0..(Sched.depth - 1) /\ n \in Nat /\ g.logs \in Nat
    BY Zenon DEF Levelled, Before
  <2>2. f \in 0..Sched.depth
    BY <2>1, ScheduleFacts
  <2> QED BY <2>1, <2>2, ScheduleGates
<1>2. HalfFits(st, f, n) /\ LogsFit(st, g.logs) /\ ReceivedTo(st, n)
  BY Zenon DEF Levelled, Before
<1>3. g.logs = n + l
  BY <1>1 DEF Before
<1>4. AllRaised(st, u, f, n) /\ InRound(st, f)
  BY Zenon
<1> HIDE DEF n
<1>6. Stocked(u) /\ Fits(u) /\ LogsFit(u, g.logs) /\ ReceivedTo(u, g.logs)
  BY <1>1, <1>2, <1>3, <1>4, RaisedFits, Zenon
<1>7. ASSUME NEW p \in Parties PROVE u[p].phase = f + 1
  <2>1. IsState(st[p]) /\ st[p].at = "level" /\ st[p].phase = f /\ u[p] = Raised(st[p], Received1(st, p, f, n))
    BY <1>4, Zenon DEF Stocked, InRound, AllRaised
  <2> DEFINE b == Received1(st, p, f, n)
             s == st[p]
  <2>2. IsState(s) /\ s.at = "level" /\ s.phase = f /\ u[p] = Raised(s, b)
    BY <2>1, Zenon
  <2> HIDE DEF b, s, f
  <2>3. Raised(s, b).phase = s.phase + 1
    BY <2>2, RaisedIs
  <2> QED BY <2>2, <2>3
<1> QED BY <1>6, <1>7, Zenon DEF PhaseIs

(* The rounds after the first.                                             *)
LEMMA LaterLevel ==
    ASSUME NEW g, NEW st, Stocked(st), Levelled(g, st), g.phase + 1 < Sched.depth,
           InRound(st, g.phase), NEW s2, AllLevel(g, st, s2)
    PROVE  Levelled(LevelStage(g, g.phase + 1), s2) /\ Tidy(s2)
<1> DEFINE u == [p \in Parties |-> Raised(st[p], InBodies(g, st, p))]
           e == g.phase + 1
           h == LevelStage(g, e)
<1>1. AllRaised(st, u, g.phase, Before(g))
  BY Zenon DEF AllRaised, InBodies
<1>2. g.phase \in Nat /\ e \in 0..(Sched.depth - 1) /\ g.logs \in Nat
      /\ \A f \in 0..g.phase : Len(Sched.ands[f]) <= g.logs
  <2>1. /\ g.phase \in 0..(Sched.depth - 1) /\ g.logs \in Nat
        /\ \A f \in 0..g.phase : Len(Sched.ands[f]) <= g.logs
    BY Zenon DEF Levelled
  <2> QED BY <2>1, ScheduleFacts
<1>7. ASSUME NEW p \in Parties PROVE s2[p] = Multiplied(p, u[p]).s
  <2> DEFINE s == st[p]
             b == InBodies(g, st, p)
  <2>1. IsState(s) /\ s.at = "level" /\ s.phase + 1 < Sched.depth
    BY Zenon DEF Stocked, InRound
  <2>2. u[p] = Raised(s, b) /\ s2[p] = LevelTaken(p, s, b).s
    BY Zenon DEF AllLevel
  <2> HIDE DEF s, b, u
  <2>3. LevelTaken(p, s, b) = IF s.phase + 1 < Sched.depth THEN Multiplied(p, Raised(s, b))
             ELSE Then(Finished(p, Raised(s, b)), CoinShares(p, "seed", Finished(p, Raised(s, b))))
    BY <2>1, LevelTakenIs
  <2> QED BY <2>1, <2>2, <2>3
<1>3. AllMultiplied(u, s2)
  BY <1>7, Zenon DEF AllMultiplied
<1> HIDE DEF u
<1>4. /\ Stocked(u) /\ Fits(u) /\ LogsFit(u, g.logs) /\ ReceivedTo(u, g.logs)
      /\ PhaseIs(u, e)
  BY <1>1, LevelRaised, Zenon
<1>5. h.phase = e /\ h.logs = g.logs + Len(Sched.ands[e])
  BY DEF LevelStage
<1>6. Longest(e, g.logs)
  BY <1>2 DEF Longest
<1> HIDE DEF e, h
<1>8. Levelled(h, s2) /\ Tidy(s2)
  BY <1>2, <1>3, <1>4, <1>5, <1>6, LevelEntered, Zenon
<1> QED BY <1>8 DEF e, h

(* Some round has an AND.                                                  *)
LEMMA AndSomewhere == \E f \in 0..(Sched.depth - 1) : Len(Sched.ands[f]) \in Nat \ {0}
<1> DEFINE avail == Available(Multiplier)
<1>1. PICK n \in Nat : DOMAIN Multiplier.gates = 1..n /\ \A i \in 1..n : IsGate(Multiplier, Multiplier.gates[i])
  BY MultiplierFormed, GatesAre
<1>2. PICK i \in 1..n : Multiplier.gates[i].op = "and"
  BY <1>1, MultiplierFormed
<1>3. IsSchedule(Schedule(Multiplier), Multiplier, avail, n)
  <2>1. n # 0
    BY <1>2
  <2> QED BY <1>1, <2>1, MultiplierFormed, ScheduleIs
<1>4. IsSchedule(Sched, Multiplier, avail, n)
  BY <1>3 DEF Sched
<1>5. IsAvailable(Multiplier, avail)
  BY MultiplierFormed, AvailableIs
<1> HIDE DEF avail
<1> DEFINE g == Multiplier.gates[i]
           f == ReadyAt(avail, g)
<1>6. f \in Nat /\ avail[g.out] = f + 1 /\ g.out \in Wires(Multiplier) /\ g.op = "and"
  <2>1. i \in DOMAIN Multiplier.gates
    BY <1>1, <1>2
  <2> QED BY <1>1, <1>2, <1>5, <2>1 DEF IsAvailable, IsGate
<1>7. Sched.depth \in Nat /\ avail[g.out] <= Sched.depth
  BY <1>4, <1>6 DEF IsSchedule
<1>8. Belongs(g, avail, f, TRUE)
  BY <1>6 DEF Belongs
<1> HIDE DEF g, f
<1>9. f \in 0..(Sched.depth - 1) /\ f \in 0..Sched.depth
  BY <1>6, <1>7
<1>10. InOrder(Sched.ands[f], Multiplier, avail, f, TRUE, n)
  BY <1>4, <1>9 DEF IsSchedule
<1>11. \E k \in 1..Len(Sched.ands[f]) : Sched.ands[f][k] = g
  BY <1>8, <1>10 DEF InOrder, g
<1>12. Len(Sched.ands[f]) \in Nat
  BY <1>9, ScheduleGates
<1> QED BY <1>9, <1>11, <1>12

(* There are as many entries as g says, all complete.                      *)
Logs(g, st) == g.logs \in Nat \ {0} /\ LogsFit(st, g.logs) /\ ReceivedTo(st, g.logs)

(* The last round.                                                         *)
LEMMA LastLevel ==
    ASSUME NEW g, NEW st, Stocked(st), Levelled(g, st), ~(g.phase + 1 < Sched.depth),
           InRound(st, g.phase), NEW s2, AllLevel(g, st, s2)
    PROVE  Logs(g, s2) /\ Fits(s2) /\ Tidy(s2)
<1> DEFINE u == [p \in Parties |-> Raised(st[p], InBodies(g, st, p))]
<1>1. AllRaised(st, u, g.phase, Before(g))
  BY Zenon DEF AllRaised, InBodies
<1>2. /\ g.phase \in 0..(Sched.depth - 1) /\ g.logs \in Nat
      /\ \A f \in 0..g.phase : Len(Sched.ands[f]) <= g.logs
  BY Zenon DEF Levelled
<1>3. ASSUME NEW p \in Parties PROVE s2[p] = Finished(p, u[p])
  <2> DEFINE s == st[p]
             b == InBodies(g, st, p)
  <2>1. IsState(s) /\ s.at = "level" /\ ~(s.phase + 1 < Sched.depth)
    BY Zenon DEF Stocked, InRound
  <2>2. u[p] = Raised(s, b) /\ s2[p] = LevelTaken(p, s, b).s
    BY Zenon DEF AllLevel
  <2> HIDE DEF s, b, u
  <2>3. LevelTaken(p, s, b) = IF s.phase + 1 < Sched.depth THEN Multiplied(p, Raised(s, b))
             ELSE Then(Finished(p, Raised(s, b)), CoinShares(p, "seed", Finished(p, Raised(s, b))))
    BY <2>1, LevelTakenIs
  <2> QED BY <2>1, <2>2, <2>3 DEF Then
<1>4. AllFinished(u, s2)
  BY <1>3, Zenon DEF AllFinished
<1> HIDE DEF u
<1>5. Stocked(u) /\ Fits(u) /\ LogsFit(u, g.logs) /\ ReceivedTo(u, g.logs)
  BY <1>1, LevelRaised, Zenon
<1>6. Fits(s2) /\ LogsFit(s2, g.logs) /\ ReceivedTo(s2, g.logs) /\ Tidy(s2)
  BY <1>4, <1>5, FinishedFits, Zenon
<1>7. g.logs # 0
  <2>1. PICK f \in 0..(Sched.depth - 1) : Len(Sched.ands[f]) \in Nat \ {0}
    BY AndSomewhere
  <2>2. f \in 0..g.phase
    BY <1>2, <2>1, ScheduleFacts
  <2> DEFINE l == Len(Sched.ands[f])
  <2>3. l \in Nat \ {0} /\ l <= g.logs
    BY <1>2, <2>1, <2>2
  <2> HIDE DEF l
  <2> QED BY <1>2, <2>3
<1> QED BY <1>2, <1>6, <1>7 DEF Logs

-----------------------------------------------------------------------------
(* Two vectors that share the values of h.                                 *)
Split(a, b, h, n) == Vector(a, n) /\ Vector(b, n) /\ Vector(h, n) /\ SharesOf(a, b, h, n)

(* The masks of a proof are elements.                                      *)
LEMMA MasksVector ==
    ASSUME NEW p, NEW s, NEW n \in Nat
    PROVE  Vector(Masks(p, s, n), n) /\ DOMAIN Masks(p, s, n) = 1..n
<1> DEFINE f == Masks(p, s, n)
<1>1. f = [j \in 1..n |-> Gf64(random.prng[p][s.prng + j])]
  BY DEF Masks
<1>2. \A j \in 1..n : f[j] \in Elements
  BY <1>1 DEF Gf64, Elements
<1>3. f = [j \in 1..n |-> f[j]]
  BY <1>1
<1> HIDE DEF f
<1>4. f \in [1..n -> Elements] /\ DOMAIN f = 1..n
  BY <1>2, <1>3
<1>5. f \in Seq(Elements) /\ Len(f) = n
  BY <1>4
<1> QED BY <1>4, <1>5 DEF Vector, f

(* A vector's values hidden by masks.                                      *)
LEMMA HiddenShares ==
    ASSUME NEW n \in Nat, NEW h, Vector(h, n), DOMAIN h = 1..n, NEW masks, Vector(masks, n)
    PROVE  Split(masks, Hidden(h, masks), h, n)
<1> DEFINE f == Hidden(h, masks)
<1>1. f = [j \in 1..n |-> h[j] ## masks[j]]
  BY DEF Hidden
<1>2. \A j \in 1..n : h[j] \in Elements /\ masks[j] \in Elements
  BY DEF Vector
<1>3. \A j \in 1..n : f[j] = h[j] ## masks[j]
  BY <1>1
<1>4. f = [j \in 1..n |-> f[j]]
  BY <1>1
<1> HIDE DEF f
<1>5. \A j \in 1..n : f[j] \in Elements
  BY <1>2, <1>3, AddType
<1>6. f \in [1..n -> Elements]
  BY <1>4, <1>5
<1>7. f \in Seq(Elements) /\ Len(f) = n
  BY <1>6
<1>8. SharesOf(masks, f, h, n)
  <2> SUFFICES ASSUME NEW j \in 1..n PROVE masks[j] ## f[j] = h[j]
    BY DEF SharesOf
  <2>1. f[j] = masks[j] ## h[j]
    BY <1>3, AddCommutes
  <2>2. masks[j] ## (masks[j] ## h[j]) = (masks[j] ## masks[j]) ## h[j]
    BY AddAssoc
  <2>3. masks[j] ## masks[j] = Zero
    BY AddSelf
  <2> QED BY <2>1, <2>2, <2>3, AddZero
<1> QED BY <1>7, <1>8 DEF Split, Vector, f

(* The end of a vector.                                                    *)
LEMMA RestVector ==
    ASSUME NEW m \in Nat, NEW n \in Nat, NEW r, Vector(r, m + n)
    PROVE  /\ Vector(SubSeq(r, m + 1, m + n), n)
           /\ \A j \in 1..n : SubSeq(r, m + 1, m + n)[j] = r[m + j]
<1>1. r \in Seq(Elements) /\ Len(r) = m + n
  BY DEF Vector
<1>2. m + 1 \in 1..(Len(r) + 1) /\ m + n \in ((m + 1) - 1)..Len(r)
  BY <1>1
<1> DEFINE w == SubSeq(r, m + 1, m + n)
<1>3. /\ w \in Seq(Elements) /\ Len(w) = (m + n) - (m + 1) + 1
      /\ \A i \in 1..((m + n) - (m + 1) + 1) : w[i] = r[(m + 1) + i - 1]
  BY <1>1, <1>2, SubSeqProperties
<1> HIDE DEF w
<1>4. (m + n) - (m + 1) + 1 = n /\ \A i \in 1..n : (m + 1) + i - 1 = m + i
  OBVIOUS
<1>5. Len(w) = n /\ \A i \in 1..n : w[i] = r[m + i]
  BY <1>3, <1>4
<1> QED BY <1>3, <1>5 DEF Vector, w

(* What is left of a base proof without its first two items.               *)
LEMMA TwoFirst ==
    ASSUME NEW n \in Nat, NEW w, Vector(w, n), NEW x \in Elements, NEW y \in Elements
    PROVE  LET body == <<x, y>> \o w
           IN body[1] = x /\ body[2] = y /\ SubSeq(body, 3, Len(body)) = w
<1> DEFINE body == <<x, y>> \o w
           v == SubSeq(body, 3, Len(body))
<1>1. w \in Seq(Elements) /\ Len(w) = n /\ <<x, y>> \in Seq(Elements) /\ Len(<<x, y>>) = 2
  BY DEF Vector
<1>2. /\ body \in Seq(Elements) /\ Len(body) = 2 + n /\ body[1] = x /\ body[2] = y
      /\ \A j \in 1..n : body[2 + j] = w[j]
  BY <1>1
<1> HIDE DEF body
<1>3. Vector(body, 2 + n)
  BY <1>2 DEF Vector
<1>4. Vector(SubSeq(body, 2 + 1, 2 + n), n) /\ \A j \in 1..n : SubSeq(body, 2 + 1, 2 + n)[j] = body[2 + j]
  BY <1>3, RestVector
<1>5. 2 + 1 = 3
  OBVIOUS
<1>6. Vector(v, n) /\ \A j \in 1..n : v[j] = w[j]
  BY <1>2, <1>4, <1>5
<1> HIDE DEF v
<1>7. v \in Seq(Elements) /\ Len(v) = Len(w)
  BY <1>1, <1>6 DEF Vector
<1>8. v = w
  BY <1>1, <1>6, <1>7
<1> QED BY <1>2, <1>8 DEF body, v

(* A state's vectors.                                                      *)
Vectors(s) == s.len \in Nat \ {0} /\ Vector(s.u, s.len) /\ Vector(s.v, s.len)

(* The values of a proof are so many elements.                             *)
LEMMA ProductValues ==
    ASSUME NEW L \in Nat, NEW u, NEW v, Vector(u, L), Vector(v, L), NEW n, NEW N, Enough(n, N)
    PROVE  LET h == ProductAt(u, v, n, N)
           IN Vector(h, N) /\ DOMAIN h = 1..N /\ n \in 0..N /\ N \in Nat
<1> DEFINE h == ProductAt(u, v, n, N)
<1>1. Proven(h, u, v, n, N)
  BY ProductsAt
<1>2. n \in 0..N /\ N \in Nat
  BY DzkpSizes DEF Enough, ProofPoints
<1> HIDE DEF h
<1>3. Vector(h, N) /\ DOMAIN h = 1..N
  BY <1>1 DEF Proven
<1> QED BY <1>2, <1>3 DEF h

(* The points of a proof.                                                  *)
LEMMA PointsFit ==
    ASSUME NEW s, s.len \in Nat \ {0}
    PROVE  /\ Enough(B, ProofPoints)
           /\ IsBase(s) => /\ Enough(BasePoints(s.len), BaseProofPoints(s.len))
                           /\ BasePoints(s.len) = s.len + 1
BY DzkpSizes DEF ProofPoints, BasePoints, BaseProofPoints, IsBase, Enough

(* A proof of many blocks shares the products' values.                     *)
LEMMA PlainProof ==
    ASSUME NEW p, NEW s, Vectors(s), ~IsBase(s)
    PROVE  LET f == ProofOf(p, s)
           IN Split(f.left, f.right, ProductAt(s.u, s.v, B, ProofPoints), ProofPoints)
<1> DEFINE t == [s EXCEPT !.prng = @ - ProofPoints]
           N == ProofPoints
           h == ProductAt(s.u, s.v, B, N)
           m == Masks(p, t, N)
<1>1. ProofOf(p, s) = Proof(p, t)
  BY DEF ProofOf
<1>2. t.u = s.u /\ t.v = s.v
  OBVIOUS
<1>3. Proof(p, t) = [left |-> m, right |-> Hidden(h, m), drawn |-> N]
  BY <1>2, Zenon DEF Proof
<1>4. Enough(B, N)
  BY PointsFit DEF Vectors
<1> HIDE DEF N
<1>5. Vector(h, N) /\ DOMAIN h = 1..N /\ N \in Nat
  <2> DEFINE u == s.u
             v == s.v
             L == s.len
  <2>1. L \in Nat /\ Vector(u, L) /\ Vector(v, L)
    BY DEF Vectors
  <2> HIDE DEF u, v, L
  <2>2. Vector(ProductAt(u, v, B, N), N) /\ DOMAIN ProductAt(u, v, B, N) = 1..N /\ N \in Nat
    BY <1>4, <2>1, ProductValues
  <2> QED BY <2>2 DEF u, v
<1>6. Vector(m, N)
  BY <1>5, MasksVector
<1> HIDE DEF h, m, N, t
<1>7. Split(m, Hidden(h, m), h, N)
  BY <1>5, <1>6, HiddenShares
<1>8. ProofOf(p, s).left = m /\ ProofOf(p, s).right = Hidden(h, m)
  BY <1>1, <1>3
<1> QED BY <1>7, <1>8 DEF h, N

(* What the last proof of an instance says: a random coordinate for either *)
(* vector, and the shares.                                                 *)
BaseSaid(f, s, x, y, z, a, b) ==
    /\ x \in Elements /\ y \in Elements /\ z \in Elements
    /\ f.left = <<x, z>> \o a /\ f.right = <<y, (x \otimes y) ## z>> \o b
    /\ Split(a, b, ProductAt(Append(s.u, x), Append(s.v, y), BasePoints(s.len), BaseProofPoints(s.len)),
             BaseProofPoints(s.len))

(* The last proof shares the values of the products' single block.         *)
LEMMA LastProof ==
    ASSUME NEW p, NEW s, Vectors(s), IsBase(s)
    PROVE  \E x, y, z, a, b : BaseSaid(ProofOf(p, s), s, x, y, z, a, b)
<1> DEFINE N == BaseProofPoints(s.len)
           n == BasePoints(s.len)
           d == 3 + N
           t == [s EXCEPT !.prng = @ - d]
           r == Masks(p, t, d)
           x == r[1]
           y == r[2]
           z == r[3]
           h == ProductAt(Append(s.u, x), Append(s.v, y), n, N)
           a == SubSeq(r, 4, d)
           b == Hidden(h, a)
<1>1. ProofOf(p, s) = BaseProof(p, t)
  BY DEF ProofOf
<1>2. t.u = s.u /\ t.v = s.v /\ t.len = s.len
  OBVIOUS
<1>3. BaseProof(p, t) = [left |-> <<x, z>> \o a, right |-> <<y, (x \otimes y) ## z>> \o b, drawn |-> d]
  BY <1>2, Zenon DEF BaseProof
<1>4. Enough(n, N) /\ n = s.len + 1 /\ N \in Nat /\ d \in Nat
  <2>1. Enough(n, N) /\ n = s.len + 1
    BY PointsFit DEF Vectors
  <2> QED BY <2>1, DzkpSizes DEF Enough, ProofPoints
<1>5. Vector(r, 3 + N)
  BY <1>4, MasksVector
<1> HIDE DEF r, t, n, N
<1>6. x \in Elements /\ y \in Elements /\ z \in Elements
  BY <1>4, <1>5 DEF Vector
<1>7. Vector(a, N)
  <2>1. Vector(SubSeq(r, 3 + 1, 3 + N), N)
    BY <1>4, <1>5, RestVector
  <2>2. 3 + 1 = 4
    OBVIOUS
  <2> QED BY <2>1, <2>2
<1> HIDE DEF x, y, z
<1>8. Vector(h, N) /\ DOMAIN h = 1..N
  <2> DEFINE u == Append(s.u, x)
             v == Append(s.v, y)
  <2>1. s.len \in Nat /\ Vector(s.u, s.len) /\ Vector(s.v, s.len)
    BY DEF Vectors
  <2>2. Vector(u, s.len + 1) /\ Vector(v, s.len + 1)
    BY <1>6, <2>1, DotAppend
  <2>3. Vector(u, n) /\ Vector(v, n) /\ n \in Nat
    BY <1>4, <2>1, <2>2
  <2> HIDE DEF u, v
  <2>4. Vector(ProductAt(u, v, n, N), N) /\ DOMAIN ProductAt(u, v, n, N) = 1..N
    BY <1>4, <2>3, ProductValues
  <2> QED BY <2>4 DEF u, v
<1> HIDE DEF h, a
<1>9. Split(a, b, h, N)
  BY <1>4, <1>7, <1>8, HiddenShares
<1> HIDE DEF b
<1>10. ProofOf(p, s).left = <<x, z>> \o a /\ ProofOf(p, s).right = <<y, (x \otimes y) ## z>> \o b
  BY <1>1, <1>3
<1>11. BaseSaid(ProofOf(p, s), s, x, y, z, a, b)
  BY <1>6, <1>9, <1>10 DEF BaseSaid, h, n, N
<1> QED BY <1>11

-----------------------------------------------------------------------------
(* A prover s and its verifiers l and r when a round's proof is made: each *)
(* verifier knows a vector of the prover's and a part of the target.       *)
Proving(s, l, r) ==
    /\ Vectors(s) /\ l.u = s.u /\ r.v = s.v
    /\ l.tau \in Elements /\ r.tau \in Elements /\ l.tau ## r.tau = Dot(s.u, s.v)

(* The number of a proof's values.                                         *)
ValuesIn(s) == IF IsBase(s) THEN BaseProofPoints(s.len) ELSE ProofPoints

(* When the verifiers have the proof: they share its values, and know a    *)
(* vector each, in the last proof one with a random coordinate more.       *)
Certified(s, l, r) ==
    /\ Vectors(s)
    /\ Split(l.pi, r.pi, ProductAt(l.u, r.v, DataPoints(s), ValuesIn(s)), ValuesIn(s))
    /\ IsBase(s) => Vector(l.u, s.len + 1) /\ Vector(r.v, s.len + 1)
    /\ ~IsBase(s) => l.u = s.u /\ r.v = s.v

(* What the verifiers found adds up to nothing.                            *)
NothingLeft(l, r) == l.mine[1] ## r.mine[1] = Zero

(* What two verifiers found, part by part.                                 *)
LEMMA PartsAdd ==
    ASSUME NEW t, NEW a, NEW z, NEW u, NEW b, NEW w
    PROVE  (t ## a ## z) ## (u ## b ## w) = ((t ## u) ## (a ## b)) ## (z ## w)
<1>1. (t ## a ## z) ## (u ## b ## w) = ((t ## a) ## (u ## b)) ## (z ## w)
  BY AddPairs
<1>2. (t ## a) ## (u ## b) = (t ## u) ## (a ## b)
  BY AddPairs
<1> QED BY <1>1, <1>2

(* The proof of many blocks passes.                                        *)
LEMMA PlainPasses ==
    ASSUME NEW k \in Parties, NEW s, NEW l, NEW r, Proving(s, l, r), ~IsBase(s),
           IsState(l), IsState(r), l.prover = k, r.prover = k, l.len = s.len, r.len = s.len,
           NEW l2, l2 = ProofTaken(PrevOf(k), l, ProofOf(k, s).left).s,
           NEW r2, r2 = ProofTaken(NextOf(k), r, ProofOf(k, s).right).s
    PROVE  Certified(s, l2, r2) /\ NothingLeft(l2, r2)
<1> DEFINE a == ProofOf(k, s).left
           b == ProofOf(k, s).right
           h == ProductAt(s.u, s.v, B, ProofPoints)
<1>1. Vectors(s) /\ l.u = s.u /\ r.v = s.v /\ l.tau ## r.tau = Dot(s.u, s.v)
  BY DEF Proving
<1>2. Split(a, b, h, ProofPoints)
  BY <1>1, PlainProof
<1>3. ~IsBase(l) /\ ~IsBase(r)
  BY DEF IsBase
<1>4. PrevOf(k) \in Parties /\ NextOf(k) \in Parties /\ k # PrevOf(k) /\ k # NextOf(k)
  BY Neighbours
<1> HIDE DEF a, b
<1>5. l2.pi = a /\ l2.mine = <<DeltaOf(l, a)>> /\ l2.u = l.u
  <2>1. l2 = ProofTaken(PrevOf(k), l, a).s /\ l.prover # PrevOf(k)
    BY <1>4 DEF a
  <2>2. l2.pi = SharesIn(l, a) /\ l2.mine = <<DeltaOf(l, a)>> /\ l2.u = Extra(l, l.u, a)
    BY <1>4, <2>1, ProofTakenIs
  <2> QED BY <1>3, <2>2 DEF SharesIn, Extra
<1>6. r2.pi = b /\ r2.mine = <<DeltaOf(r, b)>> /\ r2.v = r.v
  <2>1. r2 = ProofTaken(NextOf(k), r, b).s /\ r.prover # NextOf(k)
    BY <1>4 DEF b
  <2>2. r2.pi = SharesIn(r, b) /\ r2.mine = <<DeltaOf(r, b)>> /\ r2.v = Extra(r, r.v, b)
    BY <1>4, <2>1, ProofTakenIs
  <2> QED BY <1>3, <2>2 DEF SharesIn, Extra
<1>7. DataPoints(s) = B /\ ValuesIn(s) = ProofPoints
  BY DEF DataPoints, ValuesIn
<1>8. Certified(s, l2, r2)
  BY <1>1, <1>2, <1>5, <1>6, <1>7 DEF Certified
<1>9. DeltaOf(l, a) = l.tau ## SumTo(a, B) ## Zero /\ DeltaOf(r, b) = r.tau ## SumTo(b, B) ## Zero
  BY <1>3 DEF DeltaOf, DataPoints, SharesIn, SumTo
<1>10. SumTo(a, B) ## SumTo(b, B) = Dot(s.u, s.v)
  <2> DEFINE u == s.u
             v == s.v
             L == s.len
             N == ProofPoints
  <2>1. L \in Nat /\ Vector(u, L) /\ Vector(v, L) /\ Enough(B, N)
    BY <1>1, PointsFit DEF Vectors
  <2> HIDE DEF u, v, L, N
  <2>2. Proven(ProductAt(u, v, B, N), u, v, B, N) /\ B \in 0..N /\ N \in Nat
    BY <2>1, ProductsAt, ProductValues
  <2>3. SumTo(ProductAt(u, v, B, N), B) = Dot(u, v)
    BY <2>2 DEF Proven
  <2>4. h = ProductAt(u, v, B, N) /\ Split(a, b, h, N)
    BY <1>2 DEF u, v, N
  <2> HIDE DEF h
  <2>5. SumTo(a, B) ## SumTo(b, B) = SumTo(h, B)
    BY <2>2, <2>4, FirstShares DEF Split
  <2> QED BY <2>3, <2>4, <2>5 DEF u, v
<1>11. DeltaOf(l, a) ## DeltaOf(r, b) = Zero
  <2> DEFINE D == Dot(s.u, s.v)
  <2>1. DeltaOf(l, a) ## DeltaOf(r, b)
          = ((l.tau ## r.tau) ## (SumTo(a, B) ## SumTo(b, B))) ## (Zero ## Zero)
    BY <1>9, PartsAdd
  <2>2. DeltaOf(l, a) ## DeltaOf(r, b) = (D ## D) ## (Zero ## Zero)
    BY <1>1, <1>10, <2>1
  <2> HIDE DEF D
  <2>3. D ## D = Zero /\ Zero ## Zero = Zero
    BY AddSelf
  <2> QED BY <2>2, <2>3
<1>12. NothingLeft(l2, r2)
  BY <1>5, <1>6, <1>11 DEF NothingLeft
<1> QED BY <1>8, <1>12

(* A verifier takes the last proof of an instance, and what comes of it.   *)
TakesLast(p, s, c, d, w, t) == t = ProofTaken(p, s, <<c, d>> \o w).s
TookLast(s, c, d, w, t) ==
    /\ t.pi = w /\ t.mine = <<s.tau ## SumTo(w, BasePoints(s.len)) ## d>>
    /\ s.u # << >> => t.u = Append(s.u, c)
    /\ s.v # << >> => t.v = Append(s.v, c)

(* A verifier's state with the last proof.                                 *)
LEMMA LastTaken ==
    ASSUME NEW p \in Parties, NEW s, IsState(s), s.prover # p, s.len \in Nat, IsBase(s),
           NEW c \in Elements, NEW d \in Elements, NEW w, Vector(w, BaseProofPoints(s.len)),
           NEW t, TakesLast(p, s, c, d, w, t)
    PROVE  TookLast(s, c, d, w, t)
<1> DEFINE body == <<c, d>> \o w
           n == BaseProofPoints(s.len)
           m == BasePoints(s.len)
<1>1. n \in Nat
  BY DEF BaseProofPoints, BasePoints
<1>2. Vector(w, n)
  OBVIOUS
<1>3. t = ProofTaken(p, s, body).s
  BY DEF TakesLast
<1> HIDE DEF n
<1>4. body[1] = c /\ body[2] = d /\ SubSeq(body, 3, Len(body)) = w
  BY <1>1, <1>2, TwoFirst
<1> HIDE DEF body
<1>5. /\ t.pi = SharesIn(s, body) /\ t.mine = <<DeltaOf(s, body)>>
      /\ t.u = Extra(s, s.u, body) /\ t.v = Extra(s, s.v, body)
  BY <1>3, ProofTakenIs
<1>6. SharesIn(s, body) = w
  BY <1>4 DEF SharesIn
<1>7. DataPoints(s) = m
  BY DEF DataPoints
<1> HIDE DEF m
<1>8. DeltaOf(s, body) = s.tau ## SumTo(w, m) ## d
  BY <1>4, <1>6, <1>7 DEF DeltaOf, SumTo
<1>9. /\ s.u # << >> => t.u = Append(s.u, c)
      /\ s.v # << >> => t.v = Append(s.v, c)
  BY <1>4, <1>5 DEF Extra
<1> QED BY <1>5, <1>6, <1>8, <1>9 DEF TookLast, m

(* The last proof of an instance passes.                                   *)
LEMMA LastPasses ==
    ASSUME NEW k \in Parties, NEW s, NEW l, NEW r, Proving(s, l, r), IsBase(s),
           IsState(l), IsState(r), l.prover = k, r.prover = k, l.len = s.len, r.len = s.len,
           NEW l2, l2 = ProofTaken(PrevOf(k), l, ProofOf(k, s).left).s,
           NEW r2, r2 = ProofTaken(NextOf(k), r, ProofOf(k, s).right).s
    PROVE  Certified(s, l2, r2) /\ NothingLeft(l2, r2)
<1> DEFINE n == BasePoints(s.len)
           N == BaseProofPoints(s.len)
           D == Dot(s.u, s.v)
<1>1. Vectors(s) /\ l.u = s.u /\ r.v = s.v /\ l.tau ## r.tau = D /\ s.len \in Nat \ {0}
  BY DEF Proving, Vectors
<1>2. PICK x, y, z, a, b : BaseSaid(ProofOf(k, s), s, x, y, z, a, b)
  BY <1>1, LastProof
<1> DEFINE xy == x \otimes y
           U == Append(s.u, x)
           V == Append(s.v, y)
           h == ProductAt(U, V, n, N)
<1>3. /\ x \in Elements /\ y \in Elements /\ z \in Elements /\ Split(a, b, h, N)
      /\ ProofOf(k, s).left = <<x, z>> \o a /\ ProofOf(k, s).right = <<y, xy ## z>> \o b
  BY <1>2 DEF BaseSaid
<1>4. xy \in Elements /\ xy ## z \in Elements
  BY <1>3, TimesType, AddType
<1>5. IsBase(l) /\ IsBase(r)
  BY DEF IsBase
<1>6. PrevOf(k) \in Parties /\ NextOf(k) \in Parties /\ k # PrevOf(k) /\ k # NextOf(k)
  BY Neighbours
<1>7. s.u # << >> /\ s.v # << >>
  BY <1>1 DEF Vectors, Vector
<1>8. BasePoints(l.len) = n /\ BasePoints(r.len) = n /\ BaseProofPoints(l.len) = N /\ BaseProofPoints(r.len) = N
  OBVIOUS
<1>9. /\ Vector(U, s.len + 1) /\ Vector(V, s.len + 1) /\ Dot(U, V) = D ## xy /\ D \in Elements
  <2> DEFINE u == s.u
             v == s.v
             L == s.len
  <2>1. L \in Nat /\ Vector(u, L) /\ Vector(v, L)
    BY <1>1 DEF Vectors
  <2> HIDE DEF u, v, L
  <2>2. /\ Vector(Append(u, x), L + 1) /\ Vector(Append(v, y), L + 1) /\ Dot(u, v) \in Elements
        /\ Dot(Append(u, x), Append(v, y)) = Dot(u, v) ## (x \otimes y)
    BY <1>3, <2>1, DotAppend
  <2> QED BY <2>2 DEF u, v, L
<1>10. Enough(n, N) /\ n = s.len + 1
  BY <1>1, PointsFit
<1> HIDE DEF n, N, D, U, V
<1>11. Proven(h, U, V, n, N) /\ n \in 0..N /\ N \in Nat
  <2>1. Vector(U, n) /\ Vector(V, n) /\ n \in Nat
    BY <1>1, <1>9, <1>10
  <2> QED BY <1>10, <2>1, ProductsAt, ProductValues
<1> HIDE DEF h, xy
<1>12. Vector(a, N) /\ Vector(b, N)
  BY <1>3 DEF Split
<1>13. l2.pi = a /\ l2.mine = <<l.tau ## SumTo(a, n) ## z>> /\ l2.u = U
  <2>1. /\ TakesLast(PrevOf(k), l, x, z, a, l2) /\ l.len \in Nat /\ l.prover # PrevOf(k)
        /\ Vector(a, BaseProofPoints(l.len))
    BY <1>1, <1>3, <1>6, <1>8, <1>12 DEF TakesLast
  <2>2. TookLast(l, x, z, a, l2)
    BY <1>3, <1>5, <1>6, <2>1, LastTaken
  <2> QED BY <1>1, <1>7, <1>8, <2>2 DEF U, TookLast
<1>14. r2.pi = b /\ r2.mine = <<r.tau ## SumTo(b, n) ## (xy ## z)>> /\ r2.v = V
  <2> DEFINE d == xy ## z
  <2>1. /\ TakesLast(NextOf(k), r, y, d, b, r2) /\ r.len \in Nat /\ r.prover # NextOf(k)
        /\ Vector(b, BaseProofPoints(r.len))
    BY <1>1, <1>3, <1>6, <1>8, <1>12 DEF TakesLast
  <2>2. d \in Elements
    BY <1>4
  <2> HIDE DEF d
  <2>3. TookLast(r, y, d, b, r2)
    BY <1>3, <1>5, <1>6, <2>1, <2>2, LastTaken
  <2> QED BY <1>1, <1>7, <1>8, <2>3 DEF V, d, TookLast
<1>15. DataPoints(s) = n /\ ValuesIn(s) = N
  BY DEF DataPoints, ValuesIn, n, N
<1>16. Certified(s, l2, r2)
  BY <1>1, <1>3, <1>9, <1>13, <1>14, <1>15 DEF Certified, h
<1>17. SumTo(a, n) ## SumTo(b, n) = D ## xy
  <2>1. SumTo(a, n) ## SumTo(b, n) = SumTo(h, n)
    BY <1>3, <1>11, FirstShares DEF Split
  <2> QED BY <1>9, <1>11, <2>1 DEF Proven
<1>18. (l.tau ## SumTo(a, n) ## z) ## (r.tau ## SumTo(b, n) ## (xy ## z)) = Zero
  <2>1. (l.tau ## SumTo(a, n) ## z) ## (r.tau ## SumTo(b, n) ## (xy ## z))
          = ((l.tau ## r.tau) ## (SumTo(a, n) ## SumTo(b, n))) ## (z ## (xy ## z))
    BY PartsAdd
  <2>2. z ## (xy ## z) = xy
    <3>1. z ## (xy ## z) = xy ## (z ## z)
      BY AddLeft
    <3> QED BY <3>1, AddSelf, AddZero
  <2>3. D ## (D ## xy) = xy
    <3>1. D ## (D ## xy) = (D ## D) ## xy
      BY AddAssoc
    <3> QED BY <3>1, AddSelf, AddZero
  <2>4. ((l.tau ## r.tau) ## (SumTo(a, n) ## SumTo(b, n))) ## (z ## (xy ## z)) = xy ## xy
    BY <1>1, <1>17, <2>2, <2>3
  <2> QED BY <2>1, <2>4, AddSelf
<1>19. NothingLeft(l2, r2)
  BY <1>13, <1>14, <1>18 DEF NothingLeft
<1> QED BY <1>16, <1>19

(* Every proof passes.                                                     *)
LEMMA ProofPasses ==
    ASSUME NEW k \in Parties, NEW s, NEW l, NEW r, Proving(s, l, r),
           IsState(l), IsState(r), l.prover = k, r.prover = k, l.len = s.len, r.len = s.len,
           NEW l2, l2 = ProofTaken(PrevOf(k), l, ProofOf(k, s).left).s,
           NEW r2, r2 = ProofTaken(NextOf(k), r, ProofOf(k, s).right).s
    PROVE  Certified(s, l2, r2) /\ NothingLeft(l2, r2)
BY PlainPasses, LastPasses

(* A party's state after the coin that folds.                              *)
WasFolded(p, s, t, coin) ==
    /\ t.len = Blocks(s.len, B) /\ t.u = Folded(s.u, B, coin) /\ t.v = Folded(s.v, B, coin)
    /\ s.prover # p => t.tau = At(s.pi, coin)

(* The coin that folds, taken.                                             *)
LEMMA FoldedIs ==
    ASSUME NEW p \in Parties, NEW s, IsState(s), Counted(s), NEW coin
    PROVE  WasFolded(p, s, FoldCoinTaken(p, s, coin).s, coin)
<1> DEFINE t == FoldedAt(p, s, coin)
           f == StartRound(p, t).s
<1>1. /\ t.len = Blocks(s.len, B) /\ t.u = Folded(s.u, B, coin) /\ t.v = Folded(s.v, B, coin)
      /\ t.tau = IF IsProver(p, s.prover) THEN Zero ELSE At(s.pi, coin)
      /\ IsState(t) /\ Counted(t) /\ FoldCoinTaken(p, s, coin) = StartRound(p, t)
  BY FoldTakenIs
<1> HIDE DEF t
<1>2. Same(t, f, {"at", "prng"})
  <2>1. Same(t, f, {"at"}) \/ Same(t, f, {"at", "prng"})
    BY <1>1, StartRoundIs
  <2> QED BY <2>1 DEF Same
<1> HIDE DEF f
<1>3. f.len = t.len /\ f.u = t.u /\ f.v = t.v /\ f.tau = t.tau
  BY <1>2 DEF Same, Fields
<1>4. WasFolded(p, s, f, coin)
  BY <1>1, <1>3 DEF WasFolded, IsProver
<1> QED BY <1>1, <1>4 DEF f

(* Folding keeps what a proof is about.                                    *)
LEMMA FoldKeeps ==
    ASSUME NEW k \in Parties, NEW s, NEW l, NEW r, Certified(s, l, r), ~IsBase(s),
           l.prover = k, r.prover = k, NEW coin \in Elements,
           NEW s2, NEW l2, NEW r2, WasFolded(k, s, s2, coin), WasFolded(PrevOf(k), l, l2, coin),
           WasFolded(NextOf(k), r, r2, coin)
    PROVE  Proving(s2, l2, r2) /\ s2.len = Blocks(s.len, B)
<1> DEFINE u == s.u
           v == s.v
           L == s.len
           N == ProofPoints
           h == ProductAt(u, v, B, N)
           a == l.pi
           b == r.pi
           M == Blocks(L, B)
<1>1. /\ L \in Nat \ {0} /\ Vector(u, L) /\ Vector(v, L) /\ Split(a, b, h, N)
      /\ l.u = u /\ r.v = v
  BY DEF Certified, DataPoints, ValuesIn, Vectors
<1>2. /\ s2.len = M /\ s2.u = Folded(u, B, coin) /\ s2.v = Folded(v, B, coin)
      /\ l2.u = Folded(u, B, coin) /\ r2.v = Folded(v, B, coin)
      /\ l2.tau = At(a, coin) /\ r2.tau = At(b, coin)
  <2>1. PrevOf(k) # k /\ NextOf(k) # k
    BY Neighbours
  <2> QED BY <1>1, <2>1 DEF WasFolded
<1>3. Enough(B, N)
  BY <1>1, PointsFit
<1>4. B \in 2..ProofPoints /\ N \in 2..ProofPoints /\ B \in Nat \ {0}
  BY <1>3, DzkpSizes DEF Enough
<1> HIDE DEF u, v, L, N
<1>5. Proven(h, u, v, B, N)
  BY <1>1, <1>3, ProductsAt
<1>6. M \in Nat \ {0}
  <2>1. M \in Nat /\ (L > 0 => M > 0)
    BY <1>1, <1>4, BlocksCover
  <2> HIDE DEF M
  <2> QED BY <1>1, <2>1
<1>7. Vector(Folded(u, B, coin), M) /\ Vector(Folded(v, B, coin), M)
  BY <1>1, <1>4, FoldedVector
<1> HIDE DEF M, h, a, b
<1>8. /\ At(a, coin) ## At(b, coin) = At(h, coin)
      /\ At(a, coin) \in Elements /\ At(b, coin) \in Elements
  <2>1. Vector(a, N) /\ Vector(b, N) /\ Vector(h, N) /\ SharesOf(a, b, h, N)
    BY <1>1 DEF Split
  <2> QED BY <1>4, <2>1, AtShares
<1>9. At(h, coin) = Dot(Folded(u, B, coin), Folded(v, B, coin))
  BY <1>5 DEF Proven
<1>10. Vectors(s2)
  BY <1>2, <1>6, <1>7 DEF Vectors
<1>11. Proving(s2, l2, r2)
  BY <1>2, <1>8, <1>9, <1>10 DEF Proving
<1> QED BY <1>2, <1>11 DEF M, L

(* The verifiers' opened values make a product, in either order.           *)
Balanced(l, r) ==
    /\ l.mine[1] \otimes r.mine[1] = l.mine[2] ## r.mine[2]
    /\ r.mine[1] \otimes l.mine[1] = r.mine[2] ## l.mine[2]

(* The last coin of an instance leaves a true product.                     *)
LEMMA LastBalances ==
    ASSUME NEW k \in Parties, NEW s, NEW l, NEW r, Certified(s, l, r), IsBase(s),
           l.prover = k, r.prover = k, NEW coin \in Elements,
           NEW l2, NEW r2, l2.mine = Blinded(PrevOf(k), l, coin), r2.mine = Blinded(NextOf(k), r, coin)
    PROVE  Balanced(l2, r2)
<1> DEFINE u == l.u
           v == r.v
           n == BasePoints(s.len)
           N == BaseProofPoints(s.len)
           h == ProductAt(u, v, n, N)
           a == l.pi
           b == r.pi
<1>1. /\ s.len \in Nat \ {0} /\ Vector(u, s.len + 1) /\ Vector(v, s.len + 1) /\ Split(a, b, h, N)
  BY DEF Certified, DataPoints, ValuesIn, Vectors
<1>2. Enough(n, N) /\ n = s.len + 1 /\ n \in Nat
  BY <1>1, PointsFit
<1>3. Vector(u, n) /\ Vector(v, n) /\ n \in 2..ProofPoints /\ N \in 2..ProofPoints
  BY <1>1, <1>2 DEF Enough
<1>4. l2.mine = <<At(u, coin), At(a, coin)>> /\ r2.mine = <<At(v, coin), At(b, coin)>>
  <2>1. NextOf(k) # PrevOf(k)
    BY Neighbours
  <2> QED BY <2>1 DEF Blinded, IsLeft
<1> HIDE DEF u, v, n, N
<1>5. Proven(h, u, v, n, N)
  BY <1>2, <1>3, ProductsAt
<1>6. Dot(Folded(u, n, coin), Folded(v, n, coin)) = At(u, coin) \otimes At(v, coin)
  BY <1>3, OneBlock
<1>7. At(u, coin) \in Elements /\ At(v, coin) \in Elements
  BY <1>3, AtIs
<1> HIDE DEF h, a, b
<1>8. At(a, coin) ## At(b, coin) = At(h, coin)
  <2>1. Vector(a, N) /\ Vector(b, N) /\ Vector(h, N) /\ SharesOf(a, b, h, N)
    BY <1>1 DEF Split
  <2> QED BY <1>3, <2>1, AtShares
<1>9. At(h, coin) = Dot(Folded(u, n, coin), Folded(v, n, coin))
  BY <1>5 DEF Proven
<1>10. At(u, coin) \otimes At(v, coin) = At(a, coin) ## At(b, coin)
  BY <1>6, <1>8, <1>9
<1>11. At(v, coin) \otimes At(u, coin) = At(b, coin) ## At(a, coin)
  BY <1>7, <1>10, TimesCommutes, AddCommutes
<1> QED BY <1>4, <1>10, <1>11 DEF Balanced

(* The three entries of an instance make a true statement.                 *)
LEMMA InstanceProves ==
    ASSUME NEW k \in Parties, NEW s, NEW l, NEW r, NEW n \in Nat \ {0},
           IsState(s), IsState(l), IsState(r),
           Ready(k, s, k), Ready(PrevOf(k), l, k), Ready(NextOf(k), r, k),
           LogPair(l.log, s.log, n), LogPair(s.log, r.log, n), Received(l.log, s.log, n),
           l.seed = s.seed, r.seed = s.seed
    PROVE  Proving(s, l, r) /\ s.len = 2 * (LaneWidth * n)
<1> DEFINE before == l.log
           prover == s.log
           after == r.log
           lambda == LambdaOf(s, k)
<1>1. Len(before) = n /\ Len(prover) = n /\ Len(after) = n
  <2>1. IsSeq(before) /\ IsSeq(prover) /\ IsSeq(after)
    BY DEF IsState
  <2>2. DOMAIN before = 1..n /\ DOMAIN prover = 1..n /\ DOMAIN after = 1..n
    BY DEF LogPair
  <2>3. \A w : IsSeq(w) /\ DOMAIN w = 1..n => Len(w) = n
    <3> SUFFICES ASSUME NEW w, IsSeq(w), DOMAIN w = 1..n PROVE Len(w) = n
      OBVIOUS
    <3>1. Len(w) \in Nat /\ 1..n = 1..Len(w)
      BY SeqLength
    <3> QED BY <3>1, SameEnd
  <2> QED BY <2>1, <2>2, <2>3
<1>2. LambdaOf(l, k) = lambda /\ LambdaOf(r, k) = lambda
  BY <1>1 DEF LambdaOf, Bits
<1>3. Vector(lambda, LaneWidth * n)
  <2> DEFINE m == LaneWidth * n
             f == [g \in 1..m |-> Gf64(Lambda(s.seed, k, g))]
  <2>1. lambda = f
    BY <1>1 DEF LambdaOf, Bits
  <2>2. m \in Nat
    BY DzkpSizes
  <2> HIDE DEF m
  <2>3. \A g \in 1..m : f[g] \in Elements
    BY DEF Gf64, Elements
  <2>4. f = [g \in 1..m |-> f[g]]
    OBVIOUS
  <2> HIDE DEF f
  <2>5. f \in [1..m -> Elements]
    BY <2>3, <2>4
  <2>6. f \in Seq(Elements) /\ Len(f) = m
    BY <2>2, <2>5
  <2> HIDE DEF lambda
  <2>7. Vector(lambda, m)
    BY <2>1, <2>6 DEF Vector
  <2> QED BY <2>7 DEF m
<1>4. k # PrevOf(k) /\ k # NextOf(k) /\ PrevOf(k) # NextOf(k)
  BY Neighbours
<1>5. s.u = VectorU(prover, lambda, 1) /\ s.v = VectorV(prover, 2) /\ s.len = 2 * (LaneWidth * n)
  BY <1>1, <1>4 DEF Ready, StatementU, StatementV, IsRight, IsLeft, IsProver, Bits
<1>6. l.u = VectorU(before, lambda, 2) /\ l.tau = TargetLeft(before, lambda)
  BY <1>2, <1>4 DEF Ready, StatementU, StatementTau, IsRight, IsLeft, IsProver
<1>7. r.v = VectorV(after, 1) /\ r.tau = TargetRight(after, lambda)
  BY <1>2, <1>4 DEF Ready, StatementV, StatementTau, IsRight, IsLeft, IsProver
<1> HIDE DEF lambda, before, prover, after
<1>8. LogPair(before, prover, n) /\ LogPair(prover, after, n) /\ Received(before, prover, n) /\ n \in Nat
  BY DEF before, prover, after
<1>9. /\ VectorU(before, lambda, 2) = VectorU(prover, lambda, 1)
      /\ VectorV(after, 1) = VectorV(prover, 2)
      /\ Vector(VectorU(prover, lambda, 1), 2 * (LaneWidth * n))
      /\ Vector(VectorV(prover, 2), 2 * (LaneWidth * n))
      /\ TargetLeft(before, lambda) ## TargetRight(after, lambda)
           = Dot(VectorU(prover, lambda, 1), VectorV(prover, 2))
      /\ TargetLeft(before, lambda) \in Elements /\ TargetRight(after, lambda) \in Elements
  BY <1>3, <1>8, Statement
<1>10. s.len \in Nat \ {0}
  <2> DEFINE m == LaneWidth * n
  <2>1. m \in Nat \ {0}
    BY DzkpSizes
  <2>2. s.len = 2 * m
    BY <1>5
  <2> HIDE DEF m
  <2> QED BY <2>1, <2>2
<1>11. Vectors(s)
  BY <1>5, <1>9, <1>10 DEF Vectors
<1> QED BY <1>5, <1>6, <1>7, <1>9, <1>11 DEF Proving

-----------------------------------------------------------------------------
(* What all three parties come to when nobody aborts and every message is  *)
(* the one owed: st has what each party's state is at a stage g.           *)
Source(g, p) == IF g.at = "proof" THEN g.prover ELSE NextOf(p)
Told(g, st, p) == Owed(g, st[Source(g, p)], Source(g, p), p)
CoinOf(s) == TrueCoin(random.coin, s.coins)
AfterOf(g, st, p) ==
    IF g.at \in Kinds /\ TakesPart(g, p) THEN Went(p, st[p], Told(g, st, p), CoinOf(st[p])).s ELSE st[p]
After(g, st) == [p \in Parties |-> AfterOf(g, st, p)]

(* Whoever takes part in a stage is there.                                 *)
AtStage(g, st) == \A p \in Parties : TakesPart(g, p) => ControlOf(st[p]) = g

SeedsEqual(st) == \A p \in Parties : st[p].seed = st[NextOf(p)].seed

(* Stages that an instance needs the logs in, this one or the next.        *)
Instanced(g) == g.at \in {"proof", "residual", "coin"} \/ (g.at = "evals" /\ g.prover < LastProver)

(* What is true of the states at a stage.                                  *)
GoodAt(g, st) ==
    LET k == g.prover
        s == st[k]
        l == st[PrevOf(k)]
        r == st[NextOf(k)]
    IN /\ Stocked(st)
       /\ g.at = "start" => Fits(st) /\ LogsFit(st, 0) /\ ReceivedTo(st, 0)
       /\ g.at = "level" => Levelled(g, st)
       /\ g.at \in {"seed", "proof", "residual", "coin", "evals", "open"} => Fits(st)
       /\ g.at = "seed" \/ Instanced(g) => Logs(g, st)
       /\ Instanced(g) => SeedsEqual(st)
       /\ g.at \in {"proof", "residual", "coin", "evals"} => k \in Parties
       /\ g.at \in {"proof", "residual", "coin"} => s.len = g.len
       /\ g.at = "proof" => Proving(s, l, r)
       /\ g.at \in {"residual", "coin"} => Certified(s, l, r)
       /\ g.at = "residual" => NothingLeft(l, r)
       /\ g.at = "evals" => Balanced(l, r) /\ (k < LastProver => Ready(k, s, k + 1))

(* A coin is an element.                                                   *)
LEMMA CoinType == \A s : CoinOf(s) \in Elements
BY DEF CoinOf, TrueCoin, Gf64, Elements

(* What a stage says of a party in it.                                     *)
LEMMA InStage ==
    ASSUME NEW g, NEW st, Stocked(st), AtStage(g, st), NEW p \in Parties, TakesPart(g, p)
    PROVE  /\ IsState(st[p]) /\ Counted(st[p]) /\ st[p].at = g.at /\ st[p].phase = g.phase
           /\ st[p].prover = g.prover /\ st[p].coins = g.coins /\ st[p].len = g.len
           /\ Len(st[p].log) = g.logs /\ TakesPart(st[p], p) /\ g.prover \in Parties
<1>1. IsState(st[p]) /\ Counted(st[p])
  BY DEF Stocked
<1>2. ControlOf(st[p]) = g
  BY DEF AtStage
<1> DEFINE s == st[p]
<1>3. IsState(s) /\ Counted(s) /\ ControlOf(s) = g
  BY <1>1, <1>2
<1> HIDE DEF s
<1>4. /\ g.at = s.at /\ g.phase = s.phase /\ g.prover = s.prover /\ g.coins = s.coins /\ g.len = s.len
      /\ g.logs = Len(s.log)
  BY <1>3 DEF ControlOf
<1>5. TakesPart(s, p) /\ g.prover \in Parties
  BY <1>3, <1>4 DEF TakesPart, IsState
<1> QED BY <1>3, <1>4, <1>5 DEF s

(* Who takes part goes on, who does not stays.                             *)
LEMMA AfterIs ==
    ASSUME NEW g, g.at \in Kinds, NEW st, NEW p \in Parties
    PROVE  /\ TakesPart(g, p) => After(g, st)[p] = Went(p, st[p], Told(g, st, p), CoinOf(st[p])).s
           /\ ~TakesPart(g, p) => After(g, st)[p] = st[p]
BY Zenon DEF After, AfterOf

AllStates(st) == \A p \in Parties : IsState(st[p])
Later == {"seed", "proof", "residual", "coin", "evals"}

(* After the evaluation no step of a party disturbs the tapes.             *)
LEMMA TapesKept ==
    ASSUME NEW g, g.at \in Later, NEW st, Stocked(st), AtStage(g, st), Fits(st),
           AllStates(After(g, st))
    PROVE  Stocked(After(g, st)) /\ Fits(After(g, st))
<1> DEFINE s2 == After(g, st)
<1>1. ASSUME NEW p \in Parties
      PROVE  s2[p].tape = st[p].tape /\ s2[p].draws = st[p].draws /\ Counted(s2[p])
  <2>1. CASE TakesPart(g, p)
    <3> DEFINE s == st[p]
               body == Told(g, st, p)
               coin == CoinOf(st[p])
               t == Went(p, s, body, coin).s
    <3>1. IsState(s) /\ Counted(s) /\ s.at \in {"seed", "proof", "residual", "coin", "evals"} /\ TakesPart(s, p)
      BY <2>1, InStage DEF Later
    <3>2. s2[p] = t
      BY <2>1, AfterIs DEF Kinds, Later
    <3> HIDE DEF s, body, coin, s2
    <3>3. t.tape = s.tape /\ t.draws = s.draws /\ Counted(t)
      BY <3>1, WentKeeps
    <3> QED BY <3>2, <3>3 DEF s
  <2>2. CASE ~TakesPart(g, p)
    <3>1. s2[p] = st[p]
      BY <2>2, AfterIs DEF Kinds, Later
    <3> QED BY <3>1 DEF Stocked
  <2> QED BY <2>1, <2>2
<1>2. \A p \in Parties : NextOf(p) \in Parties
  BY Neighbours, Zenon
<1> HIDE DEF s2
<1>3. ASSUME NEW p \in Parties
      PROVE  Counted(s2[p]) /\ Tape(s2[p].tape, Wires(Multiplier)) /\ s2[p].draws = s2[NextOf(p)].draws
  <2>1. Tape(st[p].tape, Wires(Multiplier)) /\ st[p].draws = st[NextOf(p)].draws
    BY DEF Stocked
  <2> QED BY <1>1, <1>2, <2>1
<1>4. ASSUME NEW p \in Parties
      PROVE  Fitting(s2[p].tape, s2[NextOf(p)].tape, Wires(Multiplier))
  <2>1. Fitting(st[p].tape, st[NextOf(p)].tape, Wires(Multiplier))
    BY DEF Fits
  <2> QED BY <1>1, <1>2, <2>1
<1>5. \A p \in Parties : IsState(s2[p])
  BY Zenon DEF s2, AllStates
<1>6. Stocked(s2) /\ Fits(s2)
  BY <1>3, <1>4, <1>5, Zenon DEF Stocked, Fits
<1> QED BY <1>6 DEF s2

(* Nobody leaves the last instance.                                        *)
Stays(g, st) ==
    \A p \in Parties : TakesPart(g, p) /\ Leaving(p, st[p], CoinOf(st[p])) => g.prover < LastProver

(* Until the last instance is left the logs and the seed stay.             *)
LEMMA LogsKept ==
    ASSUME NEW g, g.at \in Later, NEW st, Stocked(st), AtStage(g, st), Stays(g, st), Logs(g, st),
           g.at # "seed" => SeedsEqual(st), NEW h, h.logs = g.logs
    PROVE  Logs(h, After(g, st)) /\ SeedsEqual(After(g, st))
<1> DEFINE s2 == After(g, st)
<1>1. ASSUME NEW p \in Parties
      PROVE  /\ s2[p].log = st[p].log
             /\ s2[p].seed = IF g.at = "seed" THEN CoinOf(st[p]) ELSE st[p].seed
  <2>1. CASE TakesPart(g, p)
    <3> DEFINE s == st[p]
               body == Told(g, st, p)
               coin == CoinOf(st[p])
               t == Went(p, s, body, coin).s
    <3>1. /\ IsState(s) /\ Counted(s) /\ s.at \in {"seed", "proof", "residual", "coin", "evals"}
          /\ TakesPart(s, p) /\ s.prover = g.prover /\ s.at = g.at
      BY <2>1, InStage DEF Later
    <3>2. s2[p] = t
      BY <2>1, AfterIs DEF Kinds, Later
    <3>3. Leaving(p, s, coin) => s.prover < LastProver
      BY <2>1, <3>1, Zenon DEF Stays
    <3>4. Leaving(p, s, coin) => s.at # "seed"
      BY DEF Leaving
    <3> HIDE DEF s, body, coin, s2
    <3>5. /\ Leaving(p, s, coin) => (s.prover < LastProver => t.log = s.log /\ t.seed = s.seed)
          /\ ~Leaving(p, s, coin) => t.log = s.log /\ t.seed = IF s.at = "seed" THEN coin ELSE s.seed
      BY <3>1, WentKeeps
    <3> QED BY <3>1, <3>2, <3>3, <3>4, <3>5 DEF s, coin
  <2>2. CASE ~TakesPart(g, p)
    <3>1. s2[p] = st[p] /\ g.at # "seed"
      BY <2>2, AfterIs DEF Kinds, Later, TakesPart
    <3> QED BY <3>1
  <2> QED BY <2>1, <2>2
<1>2. \A p \in Parties : NextOf(p) \in Parties
  BY Neighbours, Zenon
<1> HIDE DEF s2
<1>3. h.logs \in Nat \ {0} /\ LogsFit(st, h.logs) /\ ReceivedTo(st, h.logs)
  BY DEF Logs
<1>4. Logs(h, s2)
  <2>1. ASSUME NEW p \in Parties
        PROVE  /\ Entries(s2[p].log, h.logs) /\ LogPair(s2[p].log, s2[NextOf(p)].log, h.logs)
               /\ Received(s2[p].log, s2[NextOf(p)].log, h.logs)
    <3>1. /\ Entries(st[p].log, h.logs) /\ LogPair(st[p].log, st[NextOf(p)].log, h.logs)
          /\ Received(st[p].log, st[NextOf(p)].log, h.logs)
      BY <1>3, Zenon DEF LogsFit, ReceivedTo
    <3> QED BY <1>1, <1>2, <3>1
  <2> QED BY <1>3, <2>1, Zenon DEF Logs, LogsFit, ReceivedTo
<1>5. SeedsEqual(s2)
  <2> SUFFICES ASSUME NEW p \in Parties PROVE s2[p].seed = s2[NextOf(p)].seed
    BY Zenon DEF SeedsEqual
  <2>1. NextOf(p) \in Parties
    BY <1>2
  <2>2. CASE g.at = "seed"
    <3>1. TakesPart(g, p) /\ TakesPart(g, NextOf(p))
      BY <2>2 DEF TakesPart
    <3>2. st[p].coins = st[NextOf(p)].coins
      BY <2>1, <3>1, InStage
    <3>3. CoinOf(st[p]) = CoinOf(st[NextOf(p)])
      BY <3>2 DEF CoinOf
    <3> QED BY <1>1, <2>1, <2>2, <3>3
  <2>3. CASE g.at # "seed"
    <3>1. st[p].seed = st[NextOf(p)].seed
      BY <2>3 DEF SeedsEqual
    <3> QED BY <1>1, <2>1, <2>3, <3>1
  <2> QED BY <2>2, <2>3
<1> QED BY <1>4, <1>5 DEF s2

(* Where a state is well formed and tidy.                                  *)
LEMMA StockedFrom ==
    ASSUME NEW st, Tidy(st), AllStates(st)
    PROVE  Stocked(st)
BY Zenon DEF Tidy, AllStates, Stocked

(* The first round is entered.                                             *)
LEMMA GoodFirst ==
    ASSUME NEW g, g.at = "start", NEW st, GoodAt(g, st), AtStage(g, st), AllStates(After(g, st))
    PROVE  GoodAt(LevelStage(g, 0), After(g, st))
<1> DEFINE s2 == After(g, st)
           h == LevelStage(g, 0)
<1>1. Stocked(st) /\ Fits(st) /\ LogsFit(st, 0) /\ ReceivedTo(st, 0)
  BY DEF GoodAt
<1>2. ASSUME NEW p \in Parties
      PROVE  /\ s2[p] = Multiplied(p, st[p]).s /\ st[p].phase = 0 /\ g.phase = 0 /\ g.logs = 0
  <2>1. TakesPart(g, p)
    BY DEF TakesPart
  <2>2. IsState(st[p]) /\ st[p].at = "start" /\ st[p].phase = g.phase /\ Len(st[p].log) = g.logs
    BY <1>1, <2>1, InStage
  <2>3. s2[p] = Went(p, st[p], Told(g, st, p), CoinOf(st[p])).s
    BY <2>1, AfterIs DEF Kinds
  <2>4. s2[p] = Multiplied(p, st[p]).s
    BY <2>2, <2>3, WentIs
  <2>5. LogPair(st[p].log, st[NextOf(p)].log, 0)
    BY <1>1 DEF LogsFit
  <2>6. DOMAIN st[p].log = 1..0 /\ IsSeq(st[p].log)
    BY <2>2, <2>5 DEF LogPair, IsState
  <2> DEFINE w == st[p].log
  <2>7. IsSeq(w) /\ DOMAIN w = 1..0
    BY <2>6
  <2> HIDE DEF w
  <2>8. Len(w) = 0
    BY <2>7, SeqLength
  <2> QED BY <2>2, <2>4, <2>8 DEF IsState, w
<1>3. 0 \in Parties
  BY DEF Parties
<1>4. g.phase = 0 /\ g.logs = 0
  BY <1>2, <1>3
<1> HIDE DEF s2
<1>5. PhaseIs(st, 0) /\ AllMultiplied(st, s2)
  BY <1>2, Zenon DEF PhaseIs, AllMultiplied
<1>6. h.at = "level" /\ h.phase = 0 /\ h.logs = g.logs + Len(Sched.ands[0])
  BY DEF LevelStage
<1> DEFINE f == 0
           n == 0
<1>7. f \in 0..(Sched.depth - 1) /\ n \in Nat /\ Longest(f, n) /\ h.phase = f
      /\ h.logs = n + Len(Sched.ands[f])
  BY <1>4, <1>6, ScheduleFacts DEF Longest
<1>8. PhaseIs(st, f) /\ LogsFit(st, n) /\ ReceivedTo(st, n)
  BY <1>1, <1>5
<1> HIDE DEF f, n, h
<1>9. Levelled(h, s2) /\ Tidy(s2)
  BY <1>1, <1>5, <1>7, <1>8, LevelEntered, Zenon
<1>10. Stocked(s2)
  BY <1>9, StockedFrom DEF s2
<1>11. GoodAt(h, s2)
  BY <1>6, <1>9, <1>10 DEF GoodAt, Instanced, h
<1> QED BY <1>11 DEF h, s2

(* In a round everybody has what it is told.                               *)
LEMMA LevelStep ==
    ASSUME NEW g, g.at = "level", NEW st, GoodAt(g, st), AtStage(g, st)
    PROVE  InRound(st, g.phase) /\ AllLevel(g, st, After(g, st))
<1>1. ASSUME NEW p \in Parties
      PROVE  /\ st[p].phase = g.phase /\ st[p].at = "level"
             /\ After(g, st)[p] = LevelTaken(p, st[p], InBodies(g, st, p)).s
  <2> DEFINE q == NextOf(p)
             body == Told(g, st, p)
  <2>1. TakesPart(g, p) /\ TakesPart(g, q) /\ q \in Parties
    BY Neighbours DEF TakesPart
  <2>2. Stocked(st)
    BY DEF GoodAt
  <2>3. st[p].at = "level" /\ st[p].phase = g.phase /\ Len(st[q].log) = g.logs
    BY <2>1, <2>2, InStage
  <2>4. After(g, st)[p] = Went(p, st[p], body, CoinOf(st[p])).s
    BY <2>1, AfterIs DEF Kinds
  <2>5. After(g, st)[p] = LevelTaken(p, st[p], body).s
    BY <2>3, <2>4, WentIs
  <2>6. body = Owed(g, st[q], q, p)
    BY DEF Told, Source
  <2>7. body = [k \in DOMAIN Sched.ands[g.phase] |-> ProductOf(st[q].log[Logged(g, st[q]) + k])]
    BY <2>6, OwedLevel
  <2>8. Logged(g, st[q]) = Before(g)
    BY <2>3 DEF Logged, Before
  <2>9. body = InBodies(g, st, p)
    BY <2>7, <2>8, Zenon DEF InBodies, Received1
  <2> QED BY <2>3, <2>5, <2>9
<1> QED BY <1>1, Zenon DEF InRound, AllLevel

(* The next round is entered.                                              *)
LEMMA GoodRound ==
    ASSUME NEW g, g.at = "level", NEW st, GoodAt(g, st), AtStage(g, st), AllStates(After(g, st)),
           g.phase + 1 < Sched.depth
    PROVE  GoodAt(LevelStage(g, g.phase + 1), After(g, st))
<1> DEFINE s2 == After(g, st)
           h == LevelStage(g, g.phase + 1)
<1>1. Stocked(st) /\ Levelled(g, st)
  BY DEF GoodAt
<1>2. InRound(st, g.phase) /\ AllLevel(g, st, s2)
  BY LevelStep
<1> HIDE DEF s2
<1>3. Levelled(h, s2) /\ Tidy(s2)
  BY <1>1, <1>2, LaterLevel, Zenon
<1>4. Stocked(s2)
  BY <1>3, StockedFrom DEF s2
<1>5. h.at = "level"
  BY DEF LevelStage
<1> HIDE DEF h
<1>6. GoodAt(h, s2)
  BY <1>3, <1>4, <1>5 DEF GoodAt, Instanced
<1> QED BY <1>6 DEF h, s2

(* The coin for the seed is due.                                           *)
LEMMA GoodSeed ==
    ASSUME NEW g, g.at = "level", NEW st, GoodAt(g, st), AtStage(g, st), AllStates(After(g, st)),
           ~(g.phase + 1 < Sched.depth), NEW h, h.at = "seed", h.logs = g.logs
    PROVE  GoodAt(h, After(g, st))
<1> DEFINE s2 == After(g, st)
<1>1. Stocked(st) /\ Levelled(g, st)
  BY DEF GoodAt
<1>2. InRound(st, g.phase) /\ AllLevel(g, st, s2)
  BY LevelStep
<1> HIDE DEF s2
<1>3. Logs(g, s2) /\ Fits(s2) /\ Tidy(s2)
  BY <1>1, <1>2, LastLevel, Zenon
<1>4. Stocked(s2)
  BY <1>3, StockedFrom DEF s2
<1>5. Logs(h, s2)
  BY <1>3, Zenon DEF Logs
<1>6. GoodAt(h, s2)
  BY <1>3, <1>4, <1>5 DEF GoodAt, Instanced
<1> QED BY <1>6 DEF s2

(* All three are ready for the instance that k proves.                     *)
AllReady(st, k) == \A p \in Parties : Ready(p, st[p], k)

(* An instance begins with a statement that is true.                       *)
LEMMA InstanceGood ==
    ASSUME NEW h, h.at = "proof", NEW k \in Parties, h.prover = k, h.len = 2 * (LaneWidth * h.logs),
           NEW st, Stocked(st), Fits(st), Logs(h, st), SeedsEqual(st), AllReady(st, k)
    PROVE  GoodAt(h, st)
<1> DEFINE s == st[k]
           l == st[PrevOf(k)]
           r == st[NextOf(k)]
           n == h.logs
<1>1. PrevOf(k) \in Parties /\ NextOf(k) \in Parties /\ NextOf(PrevOf(k)) = k
  BY Neighbours
<1>2. IsState(s) /\ IsState(l) /\ IsState(r)
  BY <1>1 DEF Stocked
<1>3. Ready(k, s, k) /\ Ready(PrevOf(k), l, k) /\ Ready(NextOf(k), r, k)
  BY <1>1 DEF AllReady
<1>4. n \in Nat \ {0} /\ LogsFit(st, n) /\ ReceivedTo(st, n)
  BY DEF Logs
<1>5. LogPair(l.log, s.log, n) /\ LogPair(s.log, r.log, n)
  BY <1>1, <1>4 DEF LogsFit
<1>6. Received(l.log, s.log, n)
  BY <1>1, <1>4 DEF ReceivedTo
<1>7. l.seed = s.seed /\ r.seed = s.seed
  BY <1>1 DEF SeedsEqual
<1> HIDE DEF s, l, r, n
<1>8. Proving(s, l, r) /\ s.len = 2 * (LaneWidth * n)
  BY <1>2, <1>3, <1>4, <1>5, <1>6, <1>7, InstanceProves
<1> QED BY <1>8, Zenon DEF GoodAt, Instanced, s, l, r, n

(* The first instance is entered.                                          *)
LEMMA GoodBegun ==
    ASSUME NEW g, g.at = "seed", NEW st, GoodAt(g, st), AtStage(g, st), AllStates(After(g, st)),
           NEW h, h.at = "proof", h.prover = 0, h.logs = g.logs, h.len = 2 * (LaneWidth * h.logs)
    PROVE  GoodAt(h, After(g, st))
<1> DEFINE s2 == After(g, st)
<1>1. Stocked(st) /\ Fits(st) /\ Logs(g, st) /\ g.at \in Later
  BY DEF GoodAt, Later
<1>2. Stocked(s2) /\ Fits(s2)
  BY <1>1, TapesKept
<1>3. ASSUME NEW p \in Parties PROVE ~Leaving(p, st[p], CoinOf(st[p])) /\ Ready(p, s2[p], 0)
  <2> DEFINE s == st[p]
             coin == CoinOf(st[p])
             body == Told(g, st, p)
  <2>1. TakesPart(g, p)
    BY DEF TakesPart
  <2>2. IsState(s) /\ Counted(s) /\ s.at = "seed"
    BY <1>1, <2>1, InStage
  <2>3. s2[p] = Went(p, s, body, coin).s
    BY <2>1, AfterIs DEF Kinds
  <2>4. 0 \in Parties
    BY DEF Parties
  <2> HIDE DEF s, coin, body, s2
  <2>5. s2[p] = SeedTaken(p, s, coin).s
    BY <2>2, <2>3, WentIs
  <2>6. /\ IsState(Seeded(s, coin)) /\ Seeded(s, coin).prng \in Nat
        /\ SeedTaken(p, s, coin) = StartRound(p, Entered(p, Seeded(s, coin), 0))
    BY <2>2, SeedTakenIs DEF Counted
  <2> DEFINE t == Seeded(s, coin)
             k == 0
  <2>7. IsState(t) /\ t.prng \in Nat /\ k \in Parties /\ SeedTaken(p, s, coin) = StartRound(p, Entered(p, t, k))
    BY <2>4, <2>6
  <2> HIDE DEF t, k
  <2>8. Ready(p, StartRound(p, Entered(p, t, k)).s, k)
    BY <2>7, InstanceKeeps
  <2>9. Ready(p, s2[p], k)
    BY <2>5, <2>7, <2>8
  <2>10. ~Leaving(p, s, coin)
    BY <2>2 DEF Leaving
  <2> QED BY <2>9, <2>10 DEF k, s, coin
<1>4. Stays(g, st)
  BY <1>3, Zenon DEF Stays
<1>5. Logs(h, s2) /\ SeedsEqual(s2)
  BY <1>1, <1>4, LogsKept
<1>6. AllReady(s2, 0)
  BY <1>3, Zenon DEF AllReady
<1>7. 0 \in Parties
  BY DEF Parties
<1> DEFINE k == 0
<1>8. AllReady(s2, k) /\ k \in Parties /\ h.prover = k
  BY <1>6, <1>7
<1> HIDE DEF s2, k
<1>9. GoodAt(h, s2)
  BY <1>2, <1>5, <1>8, InstanceGood
<1> QED BY <1>9 DEF s2

(* While the verifiers check, nobody leaves the instance.                  *)
LEMMA StaysInside ==
    ASSUME NEW g, g.at \in {"seed", "proof", "residual"}, NEW st, Stocked(st), AtStage(g, st)
    PROVE  Stays(g, st)
<1> SUFFICES ASSUME NEW p \in Parties, TakesPart(g, p), Leaving(p, st[p], CoinOf(st[p]))
             PROVE  FALSE
  BY Zenon DEF Stays
<1>1. st[p].at = g.at
  BY InStage
<1> QED BY <1>1 DEF Leaving

(* What an instance keeps from stage to stage.                             *)
LEMMA InstanceStays ==
    ASSUME NEW g, g.at \in {"proof", "residual", "coin", "evals"}, NEW st, GoodAt(g, st),
           AtStage(g, st), AllStates(After(g, st)), Stays(g, st), Instanced(g),
           NEW h, h.logs = g.logs
    PROVE  /\ Stocked(After(g, st)) /\ Fits(After(g, st)) /\ Logs(h, After(g, st))
           /\ SeedsEqual(After(g, st))
<1>1. /\ Stocked(st) /\ Fits(st) /\ g.at \in Later /\ Logs(g, st) /\ SeedsEqual(st)
  BY DEF GoodAt, Later
<1>2. Stocked(After(g, st)) /\ Fits(After(g, st))
  BY <1>1, TapesKept
<1> QED BY <1>1, <1>2, LogsKept

(* The three roles in the instance of k.                                   *)
LEMMA Roles ==
    ASSUME NEW g, g.at \in {"proof", "residual", "evals"}, g.prover \in Parties
    PROVE  LET k == g.prover
           IN /\ PrevOf(k) \in Parties /\ NextOf(k) \in Parties /\ ~TakesPart(g, k)
              /\ TakesPart(g, PrevOf(k)) /\ TakesPart(g, NextOf(k))
              /\ PrevOf(k) # k /\ NextOf(k) # k /\ PrevOf(k) # NextOf(k)
              /\ NextOf(NextOf(k)) = PrevOf(k) /\ NextOf(PrevOf(k)) = k /\ PrevOf(PrevOf(k)) = NextOf(k)
BY Neighbours DEF TakesPart

(* The proof is read by the verifiers.                                     *)
LEMMA GoodProved ==
    ASSUME NEW g, g.at = "proof", NEW st, GoodAt(g, st), AtStage(g, st), AllStates(After(g, st)),
           NEW h, h.at = "residual", h.prover = g.prover, h.logs = g.logs, h.len = g.len
    PROVE  GoodAt(h, After(g, st))
<1> DEFINE s2 == After(g, st)
           k == g.prover
           s == st[k]
           l == st[PrevOf(k)]
           r == st[NextOf(k)]
<1>1. Stocked(st) /\ k \in Parties /\ Proving(s, l, r) /\ s.len = g.len
  BY DEF GoodAt
<1>2. /\ PrevOf(k) \in Parties /\ NextOf(k) \in Parties /\ ~TakesPart(g, k)
      /\ TakesPart(g, PrevOf(k)) /\ TakesPart(g, NextOf(k)) /\ PrevOf(k) # k /\ PrevOf(k) # NextOf(k)
  BY <1>1, Roles
<1>3. Stays(g, st) /\ Instanced(g)
  BY <1>1, StaysInside DEF Instanced
<1>4. Stocked(s2) /\ Fits(s2) /\ Logs(h, s2) /\ SeedsEqual(s2)
  BY <1>3, InstanceStays
<1>5. /\ IsState(l) /\ l.prover = k /\ l.len = g.len /\ l.at = "proof"
  BY <1>1, <1>2, InStage
<1>6. /\ IsState(r) /\ r.prover = k /\ r.len = g.len /\ r.at = "proof"
  BY <1>1, <1>2, InStage
<1>7. s2[k] = s
  BY <1>1, <1>2, AfterIs DEF Kinds
<1>8. Told(g, st, PrevOf(k)) = ProofOf(k, s).left /\ Told(g, st, NextOf(k)) = ProofOf(k, s).right
  BY <1>2, OwedProof DEF Told, Source
<1>9. s2[PrevOf(k)] = ProofTaken(PrevOf(k), l, ProofOf(k, s).left).s
  <2>1. s2[PrevOf(k)] = Went(PrevOf(k), l, Told(g, st, PrevOf(k)), CoinOf(l)).s
    BY <1>2, AfterIs DEF Kinds
  <2> QED BY <1>5, <1>8, <2>1, WentIs
<1>10. s2[NextOf(k)] = ProofTaken(NextOf(k), r, ProofOf(k, s).right).s
  <2>1. s2[NextOf(k)] = Went(NextOf(k), r, Told(g, st, NextOf(k)), CoinOf(r)).s
    BY <1>2, AfterIs DEF Kinds
  <2> QED BY <1>6, <1>8, <2>1, WentIs
<1> DEFINE l2 == s2[PrevOf(k)]
           r2 == s2[NextOf(k)]
<1>11. h.prover = k /\ h.len = g.len
  OBVIOUS
<1> HIDE DEF s2, k, s, l, r
<1>12. Certified(s, l2, r2) /\ NothingLeft(l2, r2)
  BY <1>1, <1>5, <1>6, <1>9, <1>10, ProofPasses
<1>13. GoodAt(h, s2)
  BY <1>1, <1>4, <1>7, <1>11, <1>12, Zenon DEF GoodAt, Instanced
<1> QED BY <1>13 DEF s2

(* What is left of the targets is nothing.                                 *)
LEMMA GoodResidual ==
    ASSUME NEW g, g.at = "residual", NEW st, GoodAt(g, st), AtStage(g, st), AllStates(After(g, st)),
           NEW h, h.at = "coin", h.prover = g.prover, h.logs = g.logs, h.len = g.len
    PROVE  GoodAt(h, After(g, st))
<1> DEFINE s2 == After(g, st)
           k == g.prover
           s == st[k]
           l == st[PrevOf(k)]
           r == st[NextOf(k)]
<1>1. Stocked(st) /\ k \in Parties /\ Certified(s, l, r) /\ s.len = g.len
  BY DEF GoodAt
<1>2. /\ PrevOf(k) \in Parties /\ NextOf(k) \in Parties /\ ~TakesPart(g, k)
      /\ TakesPart(g, PrevOf(k)) /\ TakesPart(g, NextOf(k))
  BY <1>1, Roles
<1>3. Stays(g, st) /\ Instanced(g)
  BY <1>1, StaysInside DEF Instanced
<1>4. Stocked(s2) /\ Fits(s2) /\ Logs(h, s2) /\ SeedsEqual(s2)
  BY <1>3, InstanceStays
<1>5. s2[k] = s
  BY <1>1, <1>2, AfterIs DEF Kinds
<1>6. ASSUME NEW p \in Parties, TakesPart(g, p)
      PROVE  s2[p].u = st[p].u /\ s2[p].v = st[p].v /\ s2[p].pi = st[p].pi
  <2>1. IsState(st[p]) /\ st[p].at = "residual"
    BY <1>1, <1>6, InStage
  <2>2. s2[p] = Went(p, st[p], Told(g, st, p), CoinOf(st[p])).s
    BY <1>6, AfterIs DEF Kinds
  <2>3. s2[p] = ResidualTaken(p, st[p]).s
    BY <2>1, <2>2, WentIs
  <2>4. Same(st[p], s2[p], {"at", "mine"})
    BY <2>1, <2>3, ResidualTakenIs
  <2> QED BY <2>4 DEF Same, Fields
<1> DEFINE l2 == s2[PrevOf(k)]
           r2 == s2[NextOf(k)]
<1>7. /\ l2.u = l.u /\ l2.v = l.v /\ l2.pi = l.pi
      /\ r2.u = r.u /\ r2.v = r.v /\ r2.pi = r.pi
  BY <1>2, <1>6
<1>8. h.prover = k /\ h.len = g.len
  OBVIOUS
<1> HIDE DEF s2, k, s, l, r, l2, r2
<1>9. Certified(s, l2, r2)
  BY <1>1, <1>7, Zenon DEF Certified
<1>10. GoodAt(h, s2)
  BY <1>1, <1>4, <1>5, <1>8, <1>9, Zenon DEF GoodAt, Instanced, l2, r2
<1> QED BY <1>10 DEF s2

(* All three draw the same coin, and use it in the same way.               *)
LEMMA SameCoin ==
    ASSUME NEW g, g.at = "coin", NEW st, GoodAt(g, st), AtStage(g, st), NEW p \in Parties
    PROVE  LET coin == TrueCoin(random.coin, g.coins)
               s == st[p]
           IN /\ CoinOf(s) = coin /\ coin \in Elements /\ After(g, st)[p] = CoinTaken(p, s, coin).s
              /\ IsState(s) /\ Counted(s) /\ s.at = "coin" /\ s.prover = g.prover /\ s.len = g.len
              /\ TakesPart(g, p) /\ g.prover \in Parties
              /\ MustRedraw(p, s, coin) <=> MustRedraw(0, g, coin)
              /\ IsBase(s) <=> IsBase(g)
<1> DEFINE coin == TrueCoin(random.coin, g.coins)
           s == st[p]
<1>1. TakesPart(g, p) /\ Stocked(st)
  BY DEF TakesPart, GoodAt
<1>2. /\ IsState(s) /\ Counted(s) /\ s.at = "coin" /\ s.prover = g.prover /\ s.len = g.len
      /\ s.coins = g.coins /\ g.prover \in Parties
  BY <1>1, InStage
<1>3. CoinOf(s) = coin
  BY <1>2 DEF CoinOf
<1>4. coin \in Elements
  BY <1>3, CoinType
<1>5. After(g, st)[p] = Went(p, s, Told(g, st, p), coin).s
  BY <1>1, <1>3, AfterIs DEF Kinds
<1> HIDE DEF coin, s
<1>6. After(g, st)[p] = CoinTaken(p, s, coin).s
  BY <1>2, <1>5, WentIs
<1>7. IsBase(s) <=> IsBase(g)
  BY <1>2 DEF IsBase
<1>8. MustRedraw(p, s, coin) <=> MustRedraw(0, g, coin)
  BY <1>2, <1>7, Zenon DEF MustRedraw
<1> QED BY <1>1, <1>2, <1>3, <1>4, <1>6, <1>7, <1>8 DEF coin, s

(* A coin that will not do is drawn again.                                 *)
LEMMA GoodAgain ==
    ASSUME NEW g, g.at = "coin", NEW st, GoodAt(g, st), AtStage(g, st), AllStates(After(g, st)),
           MustRedraw(0, g, TrueCoin(random.coin, g.coins)),
           NEW h, h.at = "coin", h.prover = g.prover, h.logs = g.logs, h.len = g.len
    PROVE  GoodAt(h, After(g, st))
<1> DEFINE coin == TrueCoin(random.coin, g.coins)
           s2 == After(g, st)
           k == g.prover
           s == st[k]
           l == st[PrevOf(k)]
           r == st[NextOf(k)]
<1>1. k \in Parties /\ Certified(s, l, r) /\ s.len = g.len
  BY DEF GoodAt
<1>2. PrevOf(k) \in Parties /\ NextOf(k) \in Parties
  BY <1>1, Neighbours
<1>3. ASSUME NEW p \in Parties
      PROVE  /\ ~Leaving(p, st[p], CoinOf(st[p])) /\ s2[p].u = st[p].u /\ s2[p].v = st[p].v
             /\ s2[p].pi = st[p].pi /\ s2[p].len = st[p].len
  <2>1. /\ CoinOf(st[p]) = coin /\ s2[p] = CoinTaken(p, st[p], coin).s /\ IsState(st[p])
        /\ st[p].at = "coin" /\ MustRedraw(p, st[p], coin)
    BY SameCoin
  <2>2. s2[p] = CoinAgain(p, st[p]).s
    BY <2>1 DEF CoinTaken
  <2>3. Same(st[p], s2[p], {"coins"})
    BY <2>1, <2>2, CoinAgainIs
  <2>4. ~Leaving(p, st[p], CoinOf(st[p]))
    BY <2>1 DEF Leaving
  <2> QED BY <2>3, <2>4 DEF Same, Fields
<1>4. Stays(g, st) /\ Instanced(g)
  BY <1>3, Zenon DEF Stays, Instanced
<1>5. Stocked(s2) /\ Fits(s2) /\ Logs(h, s2) /\ SeedsEqual(s2)
  BY <1>4, InstanceStays
<1> DEFINE t == s2[k]
           l2 == s2[PrevOf(k)]
           r2 == s2[NextOf(k)]
<1>6. /\ l2.u = l.u /\ l2.v = l.v /\ l2.pi = l.pi /\ r2.u = r.u /\ r2.v = r.v /\ r2.pi = r.pi
      /\ t.u = s.u /\ t.v = s.v /\ t.len = s.len
  BY <1>1, <1>2, <1>3
<1>7. h.prover = k /\ h.len = g.len
  OBVIOUS
<1> HIDE DEF s2, k, s, l, r, l2, r2, t
<1>8. Certified(t, l2, r2)
  <2>1. IsBase(t) = IsBase(s) /\ Vectors(t) = Vectors(s) /\ DataPoints(t) = DataPoints(s) /\ ValuesIn(t) = ValuesIn(s)
    BY <1>6, Zenon DEF IsBase, Vectors, DataPoints, ValuesIn
  <2> QED BY <1>1, <1>6, <2>1, Zenon DEF Certified
<1>9. GoodAt(h, s2)
  BY <1>1, <1>5, <1>6, <1>7, <1>8, Zenon DEF GoodAt, Instanced, t, l2, r2
<1> QED BY <1>9 DEF s2

(* A round is folded at the coin.                                          *)
LEMMA GoodFolded ==
    ASSUME NEW g, g.at = "coin", NEW st, GoodAt(g, st), AtStage(g, st), AllStates(After(g, st)),
           ~MustRedraw(0, g, TrueCoin(random.coin, g.coins)), ~IsBase(g),
           NEW h, h.at = "proof", h.prover = g.prover, h.logs = g.logs, h.len = Blocks(g.len, B)
    PROVE  GoodAt(h, After(g, st))
<1> DEFINE coin == TrueCoin(random.coin, g.coins)
           s2 == After(g, st)
           k == g.prover
           s == st[k]
           l == st[PrevOf(k)]
           r == st[NextOf(k)]
<1>1. k \in Parties /\ Certified(s, l, r) /\ s.len = g.len
  BY DEF GoodAt
<1>2. PrevOf(k) \in Parties /\ NextOf(k) \in Parties
  BY <1>1, Neighbours
<1>3. ASSUME NEW p \in Parties
      PROVE  /\ ~Leaving(p, st[p], CoinOf(st[p])) /\ WasFolded(p, st[p], s2[p], coin)
             /\ st[p].prover = k /\ coin \in Elements /\ ~IsBase(st[p])
  <2>1. /\ CoinOf(st[p]) = coin /\ s2[p] = CoinTaken(p, st[p], coin).s /\ IsState(st[p])
        /\ st[p].at = "coin" /\ ~MustRedraw(p, st[p], coin) /\ ~IsBase(st[p]) /\ Counted(st[p])
        /\ st[p].prover = k /\ coin \in Elements
    BY SameCoin
  <2>2. s2[p] = FoldCoinTaken(p, st[p], coin).s
    BY <2>1 DEF CoinTaken
  <2>3. WasFolded(p, st[p], s2[p], coin)
    BY <2>1, <2>2, FoldedIs
  <2>4. ~Leaving(p, st[p], CoinOf(st[p]))
    BY <2>1 DEF Leaving
  <2> QED BY <2>1, <2>3, <2>4
<1>4. Stays(g, st) /\ Instanced(g)
  BY <1>3, Zenon DEF Stays, Instanced
<1>5. Stocked(s2) /\ Fits(s2) /\ Logs(h, s2) /\ SeedsEqual(s2)
  BY <1>4, InstanceStays
<1> DEFINE t == s2[k]
           l2 == s2[PrevOf(k)]
           r2 == s2[NextOf(k)]
<1>6. /\ WasFolded(k, s, t, coin) /\ WasFolded(PrevOf(k), l, l2, coin) /\ WasFolded(NextOf(k), r, r2, coin)
      /\ l.prover = k /\ r.prover = k /\ coin \in Elements /\ ~IsBase(s)
  BY <1>1, <1>2, <1>3
<1>7. h.prover = k /\ h.len = Blocks(g.len, B)
  OBVIOUS
<1> HIDE DEF s2, k, s, l, r, l2, r2, t, coin
<1>8. Proving(t, l2, r2) /\ t.len = Blocks(s.len, B)
  BY <1>1, <1>6, FoldKeeps
<1>9. t.len = h.len
  BY <1>1, <1>7, <1>8
<1>10. GoodAt(h, s2)
  BY <1>1, <1>5, <1>7, <1>8, <1>9, Zenon DEF GoodAt, Instanced, t, l2, r2
<1> QED BY <1>10 DEF s2

(* The verifiers have what they open at the last coin, and the prover goes *)
(* on to the next instance.                                                *)
LEMMA GoodBlinded ==
    ASSUME NEW g, g.at = "coin", NEW st, GoodAt(g, st), AtStage(g, st), AllStates(After(g, st)),
           ~MustRedraw(0, g, TrueCoin(random.coin, g.coins)), IsBase(g),
           NEW h, h.at = "evals", h.prover = g.prover, h.logs = g.logs
    PROVE  GoodAt(h, After(g, st))
<1> DEFINE coin == TrueCoin(random.coin, g.coins)
           s2 == After(g, st)
           k == g.prover
           s == st[k]
           l == st[PrevOf(k)]
           r == st[NextOf(k)]
<1>1. k \in Parties /\ Certified(s, l, r) /\ s.len = g.len /\ Stocked(st) /\ Fits(st) /\ g.at \in Later
  BY DEF GoodAt, Later
<1>2. PrevOf(k) \in Parties /\ NextOf(k) \in Parties /\ PrevOf(k) # k /\ NextOf(k) # k
  BY <1>1, Neighbours
<1>3. ASSUME NEW p \in Parties
      PROVE  /\ s2[p] = BaseCoinTaken(p, st[p], coin).s /\ IsState(st[p]) /\ st[p].prover = k
             /\ coin \in Elements /\ IsBase(st[p])
             /\ p = k /\ k < LastProver => Ready(p, s2[p], k + 1)
  <2>1. /\ CoinOf(st[p]) = coin /\ s2[p] = CoinTaken(p, st[p], coin).s /\ IsState(st[p])
        /\ st[p].at = "coin" /\ ~MustRedraw(p, st[p], coin) /\ IsBase(st[p]) /\ Counted(st[p])
        /\ st[p].prover = k /\ coin \in Elements /\ TakesPart(g, p)
    BY SameCoin
  <2>2. s2[p] = BaseCoinTaken(p, st[p], coin).s
    BY <2>1 DEF CoinTaken
  <2>3. s2[p] = Went(p, st[p], Told(g, st, p), coin).s
    BY <2>1, AfterIs DEF Kinds
  <2>4. TakesPart(st[p], p)
    BY <2>1 DEF TakesPart
  <2>5. ASSUME p = k, k < LastProver PROVE Ready(p, s2[p], k + 1)
    <3>1. Leaving(p, st[p], coin)
      BY <2>1, <2>5 DEF Leaving
    <3> DEFINE w == st[p]
               body == Told(g, st, p)
    <3>2. IsState(w) /\ Counted(w) /\ TakesPart(w, p) /\ Leaving(p, w, coin) /\ w.at = "coin" /\ w.prover = k
      BY <2>1, <2>4, <3>1
    <3>3. s2[p] = Went(p, w, body, coin).s
      BY <2>3
    <3> HIDE DEF w, body, coin, s2, k
    <3>4. Ready(p, Went(p, w, body, coin).s, w.prover + 1)
      BY <2>5, <3>2, WentKeeps
    <3> QED BY <3>2, <3>3, <3>4
  <2> QED BY <2>1, <2>2, <2>5
<1>4. Stocked(s2) /\ Fits(s2)
  BY <1>1, TapesKept
<1>5. ASSUME k < LastProver PROVE Logs(h, s2) /\ SeedsEqual(s2)
  <2>1. Stays(g, st) /\ Instanced(g)
    BY <1>5 DEF Stays, Instanced
  <2> QED BY <2>1, InstanceStays
<1> DEFINE t == s2[k]
           l2 == s2[PrevOf(k)]
           r2 == s2[NextOf(k)]
<1>6. /\ l2 = BaseCoinTaken(PrevOf(k), l, coin).s /\ r2 = BaseCoinTaken(NextOf(k), r, coin).s
      /\ IsState(l) /\ IsState(r)
      /\ l.prover = k /\ r.prover = k /\ coin \in Elements /\ IsBase(s)
      /\ k < LastProver => Ready(k, t, k + 1)
  BY <1>1, <1>2, <1>3
<1>7. h.prover = k
  OBVIOUS
<1> HIDE DEF s2, k, s, l, r, l2, r2, t, coin
<1>8. l2.mine = Blinded(PrevOf(k), l, coin) /\ r2.mine = Blinded(NextOf(k), r, coin)
  BY <1>2, <1>6, BaseTakenIs
<1>9. Balanced(l2, r2)
  BY <1>1, <1>6, <1>8, LastBalances
<1>10. GoodAt(h, s2)
  BY <1>1, <1>4, <1>5, <1>6, <1>7, <1>9, Zenon DEF GoodAt, Instanced, t, l2, r2
<1> QED BY <1>10 DEF s2

(* The next instance is entered.                                           *)
LEMMA GoodNext ==
    ASSUME NEW g, g.at = "evals", NEW st, GoodAt(g, st), AtStage(g, st), AllStates(After(g, st)),
           g.prover < LastProver, NEW h, h.at = "proof", h.prover = g.prover + 1,
           h.logs = g.logs, h.len = 2 * (LaneWidth * h.logs)
    PROVE  GoodAt(h, After(g, st))
<1> DEFINE s2 == After(g, st)
           k == g.prover
<1>1. k \in Parties /\ Ready(k, st[k], k + 1) /\ Stocked(st)
  BY DEF GoodAt
<1>2. k + 1 \in Parties
  BY <1>1 DEF Parties, LastProver
<1>3. Stays(g, st) /\ Instanced(g)
  BY DEF Stays, Instanced
<1>4. Stocked(s2) /\ Fits(s2) /\ Logs(h, s2) /\ SeedsEqual(s2)
  BY <1>3, InstanceStays
<1>5. ASSUME NEW p \in Parties PROVE Ready(p, s2[p], k + 1)
  <2>1. CASE p = k
    <3>1. ~TakesPart(g, p)
      BY <2>1 DEF TakesPart
    <3>2. s2[p] = st[p]
      BY <3>1, AfterIs DEF Kinds
    <3> QED BY <1>1, <2>1, <3>2
  <2>2. CASE p # k
    <3>1. TakesPart(g, p)
      BY <2>2 DEF TakesPart
    <3> DEFINE w == st[p]
               body == Told(g, st, p)
               coin == CoinOf(w)
    <3>2. IsState(w) /\ Counted(w) /\ w.at = "evals" /\ TakesPart(w, p) /\ w.prover = k
      BY <1>1, <3>1, InStage
    <3>3. s2[p] = Went(p, w, body, coin).s
      BY <3>1, AfterIs DEF Kinds
    <3>4. Leaving(p, w, coin)
      BY <3>2 DEF Leaving
    <3>5. w.prover < LastProver
      BY <3>2
    <3> HIDE DEF w, body, coin, s2, k
    <3>6. Ready(p, Went(p, w, body, coin).s, w.prover + 1)
      BY <3>2, <3>4, <3>5, WentKeeps
    <3> QED BY <3>2, <3>3, <3>6
  <2> QED BY <2>1, <2>2
<1>6. AllReady(s2, k + 1)
  BY <1>5, Zenon DEF AllReady
<1> DEFINE j == k + 1
<1>7. AllReady(s2, j) /\ j \in Parties /\ h.prover = j
  BY <1>2, <1>6
<1> HIDE DEF s2, k, j
<1>8. GoodAt(h, s2)
  BY <1>4, <1>7, InstanceGood
<1> QED BY <1>8 DEF s2

(* The outputs are opened.                                                 *)
LEMMA GoodOpened ==
    ASSUME NEW g, g.at = "evals", NEW st, GoodAt(g, st), AtStage(g, st), AllStates(After(g, st)),
           NEW h, h.at = "open"
    PROVE  GoodAt(h, After(g, st))
<1>1. Stocked(st) /\ Fits(st) /\ g.at \in Later
  BY DEF GoodAt, Later
<1>2. Stocked(After(g, st)) /\ Fits(After(g, st))
  BY <1>1, TapesKept
<1> QED BY <1>2, Zenon DEF GoodAt, Instanced

(* The stages as they follow one another.                                  *)
StageForm(g) ==
    /\ DOMAIN g = DOMAIN FirstStage
    /\ g.at \in Kinds \cup {"open", "done"}
    /\ g.phase \in Nat /\ g.prover \in Parties /\ g.coins \in Nat
    /\ g.at \in {"start", "level", "seed"} => g.prover = 0
    /\ g.at = "start" => g.phase = 0

(* Along the course every stage but the last is good after a good one.     *)
LEMMA GoodStep ==
    ASSUME NEW c, Course(c, random.coin), NEW k \in Nat, StageForm(c[k]), c[k].at \in Kinds,
           NEW st, GoodAt(c[k], st), AtStage(c[k], st), AllStates(After(c[k], st))
    PROVE  GoodAt(c[k + 1], After(c[k], st))
<1> DEFINE g == c[k]
           h == c[k + 1]
           coin == TrueCoin(random.coin, g.coins)
<1>1. CASE g.at = "start"
  <2>1. h = LevelStage(g, 0)
    BY <1>1, AfterStart
  <2> HIDE DEF g, h
  <2> QED BY <1>1, <2>1, GoodFirst DEF g, h
<1>2. CASE g.at = "level" /\ g.phase + 1 < Sched.depth
  <2>1. h = LevelStage(g, g.phase + 1)
    BY <1>2, AfterLevel
  <2> QED BY <1>2, <2>1, GoodRound
<1>3. CASE g.at = "level" /\ ~(g.phase + 1 < Sched.depth)
  <2>1. h = [g EXCEPT !.at = "seed", !.phase = @ + 1]
    BY <1>3, AfterLastLevel
  <2>2. h.at = "seed" /\ h.logs = g.logs
    BY <2>1 DEF StageForm, FirstStage
  <2> QED BY <1>3, <2>2, GoodSeed
<1>4. CASE g.at = "seed"
  <2>1. h = InstanceStage([g EXCEPT !.coins = @ + 1], 0)
    BY <1>4, AfterSeed
  <2>2. h.at = "proof" /\ h.prover = 0 /\ h.logs = g.logs /\ h.len = 2 * (LaneWidth * h.logs)
    BY <2>1 DEF StageForm, FirstStage, InstanceStage
  <2> QED BY <1>4, <2>2, GoodBegun
<1>5. CASE g.at = "proof"
  <2>1. h = [g EXCEPT !.at = "residual"]
    BY <1>5, AfterProof
  <2>2. h.at = "residual" /\ h.prover = g.prover /\ h.logs = g.logs /\ h.len = g.len
    BY <2>1 DEF StageForm, FirstStage
  <2> QED BY <1>5, <2>2, GoodProved
<1>6. CASE g.at = "residual"
  <2>1. h = [g EXCEPT !.at = "coin"]
    BY <1>6, AfterResidual
  <2>2. h.at = "coin" /\ h.prover = g.prover /\ h.logs = g.logs /\ h.len = g.len
    BY <2>1 DEF StageForm, FirstStage
  <2> QED BY <1>6, <2>2, GoodResidual
<1>7. CASE g.at = "coin"
  <2>1. h = CoinStage(g, coin)
    BY <1>7, AfterCoin
  <2>2. CASE MustRedraw(0, g, coin)
    <3>1. h = [g EXCEPT !.coins = @ + 1]
      BY <2>1, <2>2 DEF CoinStage
    <3>2. h.at = "coin" /\ h.prover = g.prover /\ h.logs = g.logs /\ h.len = g.len
      BY <1>7, <3>1 DEF StageForm, FirstStage
    <3> QED BY <1>7, <2>2, <3>2, GoodAgain
  <2>3. CASE ~MustRedraw(0, g, coin) /\ IsBase(g)
    <3>1. h = [g EXCEPT !.at = "evals", !.coins = @ + 1]
      BY <2>1, <2>3 DEF CoinStage
    <3>2. h.at = "evals" /\ h.prover = g.prover /\ h.logs = g.logs
      BY <3>1 DEF StageForm, FirstStage
    <3> QED BY <1>7, <2>3, <3>2, GoodBlinded
  <2>4. CASE ~MustRedraw(0, g, coin) /\ ~IsBase(g)
    <3>1. h = [g EXCEPT !.at = "proof", !.coins = @ + 1, !.round = @ + 1, !.len = Blocks(@, B)]
      BY <2>1, <2>4 DEF CoinStage
    <3>2. h.at = "proof" /\ h.prover = g.prover /\ h.logs = g.logs /\ h.len = Blocks(g.len, B)
      BY <3>1 DEF StageForm, FirstStage
    <3> QED BY <1>7, <2>4, <3>2, GoodFolded
  <2> QED BY <2>2, <2>3, <2>4
<1>8. CASE g.at = "evals" /\ g.prover < LastProver
  <2>1. h = InstanceStage(g, g.prover + 1)
    BY <1>8, AfterEvals
  <2>2. h.at = "proof" /\ h.prover = g.prover + 1 /\ h.logs = g.logs /\ h.len = 2 * (LaneWidth * h.logs)
    BY <2>1 DEF StageForm, FirstStage, InstanceStage
  <2> QED BY <1>8, <2>2, GoodNext
<1>9. CASE g.at = "evals" /\ ~(g.prover < LastProver)
  <2>1. h = [g EXCEPT !.at = "open", !.len = 0, !.logs = 0]
    BY <1>9, AfterLastEvals
  <2>2. h.at = "open"
    BY <2>1 DEF StageForm, FirstStage
  <2> QED BY <1>9, <2>2, GoodOpened
<1> QED BY <1>1, <1>2, <1>3, <1>4, <1>5, <1>6, <1>7, <1>8, <1>9 DEF Kinds

(* How far a stage is: the numbers of its tag, and its kind.               *)
Rank(at) ==
    CASE at = "start" -> 0 [] at = "level" -> 1 [] at = "seed" -> 2 [] at = "proof" -> 3
      [] at = "residual" -> 4 [] at = "coin" -> 5 [] at = "evals" -> 6 [] at = "open" -> 7
      [] OTHER -> 8
Far(g) == 10 * (g.phase + g.prover + g.coins) + Rank(g.at)

(* The kinds, in order.                                                    *)
LEMMA Ranks ==
    /\ Rank("start") = 0 /\ Rank("level") = 1 /\ Rank("seed") = 2 /\ Rank("proof") = 3
    /\ Rank("residual") = 4 /\ Rank("coin") = 5 /\ Rank("evals") = 6 /\ Rank("open") = 7
    /\ Rank("done") = 8
BY Zenon DEF Rank

(* The end is the end.                                                     *)
LEMMA AfterDone ==
    ASSUME NEW c, NEW coin, Course(c, coin), NEW k \in Nat, c[k].at = "done"
    PROVE  c[k + 1] = [c[k] EXCEPT !.at = "done"]
<1>1. c[k + 1] = NextStage(coin, c[k])
  BY DEF Course
<1> QED BY <1>1, Zenon DEF NextStage

(* A stage moves on, and further, until the end.                           *)
Onward(g, h) ==
    /\ StageForm(h) /\ h.at # "start"
    /\ g.at = "done" => h.at = "done"
    /\ g.at # "done" => Far(g) < Far(h)

(* Each stage is farther than the one before.                              *)
LEMMA StageOnward ==
    ASSUME NEW c, Course(c, random.coin), NEW k \in Nat, StageForm(c[k])
    PROVE  Onward(c[k], c[k + 1])
<1> DEFINE g == c[k]
           h == c[k + 1]
           coin == TrueCoin(random.coin, g.coins)
<1>0. /\ DOMAIN g = DOMAIN FirstStage /\ g.at \in Kinds \cup {"open", "done"}
      /\ g.phase \in Nat /\ g.prover \in Parties /\ g.coins \in Nat
      /\ g.at \in {"start", "level", "seed"} => g.prover = 0
      /\ g.at = "start" => g.phase = 0
  BY DEF StageForm
<1> SUFFICES /\ DOMAIN h = DOMAIN FirstStage /\ h.at \in Kinds \cup {"open", "done"} /\ h.at # "start"
                /\ h.phase \in Nat /\ h.prover \in Parties /\ h.coins \in Nat
                /\ (h.at \in {"level", "seed"} => h.prover = 0)
                /\ (g.at = "done" => h.at = "done")
                /\ (g.at # "done" => 10 * (g.phase + g.prover + g.coins) + Rank(g.at)
                                    < 10 * (h.phase + h.prover + h.coins) + Rank(h.at))
  BY DEF Onward, StageForm, Far
<1>1. CASE g.at = "start"
  <2>1. h = LevelStage(g, 0)
    BY <1>1, AfterStart
  <2> HIDE DEF h
  <2>2. /\ h.at = "level" /\ h.phase = 0 /\ h.prover = g.prover /\ h.coins = g.coins
        /\ DOMAIN h = DOMAIN FirstStage
    BY <1>0, <1>1, <2>1 DEF LevelStage, InstanceStage, FirstStage
  <2> QED BY <1>0, <1>1, <2>2, Ranks DEF Kinds, Parties, LastProver
<1>2. CASE g.at = "level" /\ g.phase + 1 < Sched.depth
  <2>1. h = LevelStage(g, g.phase + 1)
    BY <1>2, AfterLevel
  <2> HIDE DEF h
  <2>2. /\ h.at = "level" /\ h.phase = g.phase + 1 /\ h.prover = g.prover /\ h.coins = g.coins
        /\ DOMAIN h = DOMAIN FirstStage
    BY <1>0, <1>2, <2>1 DEF LevelStage, InstanceStage, FirstStage
  <2> QED BY <1>0, <1>2, <2>2, Ranks DEF Kinds, Parties, LastProver
<1>3. CASE g.at = "level" /\ ~(g.phase + 1 < Sched.depth)
  <2>1. h = [g EXCEPT !.at = "seed", !.phase = @ + 1]
    BY <1>3, AfterLastLevel, Zenon
  <2> HIDE DEF h
  <2>2. /\ h.at = "seed" /\ h.phase = g.phase + 1 /\ h.prover = g.prover /\ h.coins = g.coins
        /\ DOMAIN h = DOMAIN FirstStage
    BY <1>0, <1>3, <2>1 DEF LevelStage, InstanceStage, FirstStage
  <2> QED BY <1>0, <1>3, <2>2, Ranks DEF Kinds, Parties, LastProver
<1>4. CASE g.at = "seed"
  <2>1. h = InstanceStage([g EXCEPT !.coins = @ + 1], 0)
    BY <1>4, AfterSeed
  <2> HIDE DEF h
  <2>2. /\ h.at = "proof" /\ h.phase = g.phase /\ h.prover = 0 /\ h.coins = g.coins + 1
        /\ DOMAIN h = DOMAIN FirstStage
    BY <1>0, <1>4, <2>1 DEF LevelStage, InstanceStage, FirstStage
  <2> QED BY <1>0, <1>4, <2>2, Ranks DEF Kinds, Parties, LastProver
<1>5. CASE g.at = "proof"
  <2>1. h = [g EXCEPT !.at = "residual"]
    BY <1>5, AfterProof
  <2> HIDE DEF h
  <2>2. /\ h.at = "residual" /\ h.phase = g.phase /\ h.prover = g.prover /\ h.coins = g.coins
        /\ DOMAIN h = DOMAIN FirstStage
    BY <1>0, <1>5, <2>1 DEF LevelStage, InstanceStage, FirstStage
  <2> QED BY <1>0, <1>5, <2>2, Ranks DEF Kinds, Parties, LastProver
<1>6. CASE g.at = "residual"
  <2>1. h = [g EXCEPT !.at = "coin"]
    BY <1>6, AfterResidual
  <2> HIDE DEF h
  <2>2. /\ h.at = "coin" /\ h.phase = g.phase /\ h.prover = g.prover /\ h.coins = g.coins
        /\ DOMAIN h = DOMAIN FirstStage
    BY <1>0, <1>6, <2>1 DEF LevelStage, InstanceStage, FirstStage
  <2> QED BY <1>0, <1>6, <2>2, Ranks DEF Kinds, Parties, LastProver
<1>7. CASE g.at = "coin"
  <2>1. h = CoinStage(g, coin)
    BY <1>7, AfterCoin
  <2>2. CASE MustRedraw(0, g, coin)
    <3>1. h = [g EXCEPT !.coins = @ + 1]
      BY <2>1, <2>2 DEF CoinStage
    <3> HIDE DEF h
    <3>2. /\ h.at = "coin" /\ h.phase = g.phase /\ h.prover = g.prover /\ h.coins = g.coins + 1
          /\ DOMAIN h = DOMAIN FirstStage
      BY <1>0, <1>7, <2>2, <3>1 DEF LevelStage, InstanceStage, FirstStage
    <3> QED BY <1>0, <1>7, <2>2, <3>2, Ranks DEF Kinds, Parties, LastProver
  <2>3. CASE ~MustRedraw(0, g, coin) /\ IsBase(g)
    <3>1. h = [g EXCEPT !.at = "evals", !.coins = @ + 1]
      BY <2>1, <2>3 DEF CoinStage
    <3> HIDE DEF h
    <3>2. /\ h.at = "evals" /\ h.phase = g.phase /\ h.prover = g.prover /\ h.coins = g.coins + 1
          /\ DOMAIN h = DOMAIN FirstStage
      BY <1>0, <1>7, <2>3, <3>1 DEF LevelStage, InstanceStage, FirstStage
    <3> QED BY <1>0, <1>7, <2>3, <3>2, Ranks DEF Kinds, Parties, LastProver
  <2>4. CASE ~MustRedraw(0, g, coin) /\ ~IsBase(g)
    <3>1. h = [g EXCEPT !.at = "proof", !.coins = @ + 1, !.round = @ + 1, !.len = Blocks(@, B)]
      BY <2>1, <2>4 DEF CoinStage
    <3> HIDE DEF h
    <3>2. /\ h.at = "proof" /\ h.phase = g.phase /\ h.prover = g.prover /\ h.coins = g.coins + 1
          /\ DOMAIN h = DOMAIN FirstStage
      BY <1>0, <1>7, <2>4, <3>1 DEF LevelStage, InstanceStage, FirstStage
    <3> QED BY <1>0, <1>7, <2>4, <3>2, Ranks DEF Kinds, Parties, LastProver
  <2> QED BY <2>2, <2>3, <2>4
<1>8. CASE g.at = "evals" /\ g.prover < LastProver
  <2>1. h = InstanceStage(g, g.prover + 1)
    BY <1>8, AfterEvals
  <2> HIDE DEF h
  <2>2. /\ h.at = "proof" /\ h.phase = g.phase /\ h.prover = g.prover + 1 /\ h.coins = g.coins
        /\ DOMAIN h = DOMAIN FirstStage
    BY <1>0, <1>8, <2>1 DEF LevelStage, InstanceStage, FirstStage
  <2> QED BY <1>0, <1>8, <2>2, Ranks DEF Kinds, Parties, LastProver
<1>9. CASE g.at = "evals" /\ ~(g.prover < LastProver)
  <2>1. h = [g EXCEPT !.at = "open", !.len = 0, !.logs = 0]
    BY <1>9, AfterLastEvals, Zenon
  <2> HIDE DEF h
  <2>2. /\ h.at = "open" /\ h.phase = g.phase /\ h.prover = g.prover /\ h.coins = g.coins
        /\ DOMAIN h = DOMAIN FirstStage
    BY <1>0, <1>9, <2>1 DEF LevelStage, InstanceStage, FirstStage
  <2> QED BY <1>0, <1>9, <2>2, Ranks DEF Kinds, Parties, LastProver
<1>10. CASE g.at = "open"
  <2>1. h = [g EXCEPT !.at = "done"]
    BY <1>10, AfterOpen
  <2> HIDE DEF h
  <2>2. /\ h.at = "done" /\ h.phase = g.phase /\ h.prover = g.prover /\ h.coins = g.coins
        /\ DOMAIN h = DOMAIN FirstStage
    BY <1>0, <1>10, <2>1 DEF LevelStage, InstanceStage, FirstStage
  <2> QED BY <1>0, <1>10, <2>2, Ranks DEF Kinds, Parties, LastProver
<1>11. CASE g.at = "done"
  <2>1. h = [g EXCEPT !.at = "done"]
    BY <1>11, AfterDone
  <2> HIDE DEF h
  <2>2. /\ h.at = "done" /\ h.phase = g.phase /\ h.prover = g.prover /\ h.coins = g.coins
        /\ DOMAIN h = DOMAIN FirstStage
    BY <1>0, <1>11, <2>1 DEF LevelStage, InstanceStage, FirstStage
  <2> QED BY <1>0, <1>11, <2>2, Ranks DEF Kinds, Parties, LastProver
<1> QED BY <1>0, <1>1, <1>2, <1>3, <1>4, <1>5, <1>6, <1>7, <1>8, <1>9, <1>10, <1>11 DEF Kinds

(* The numbers of a later stage.                                           *)
LEMMA FormedAlong ==
    ASSUME NEW c, Course(c, random.coin)
    PROVE  \A k \in Nat : StageForm(c[k]) /\ Onward(c[k], c[k + 1])
<1> DEFINE S == {k \in Nat : StageForm(c[k])}
<1>1. 0 \in S
  <2>1. c[0] = FirstStage
    BY DEF Course
  <2> QED BY <2>1 DEF StageForm, FirstStage, Kinds, Parties
<1>2. ASSUME NEW k \in Nat, k \in S PROVE k + 1 \in S
  BY <1>2, StageOnward DEF Onward
<1> HIDE DEF S
<1>3. ASSUME NEW k \in Nat PROVE k \in S
  <2>1. \A j \in 0..(k - 1) : j \in S => j + 1 \in S
    BY <1>2
  <2>2. \A j \in 0..k : j \in S
    BY <1>1, <2>1, UpTo
  <2> QED BY <2>2
<1> QED BY <1>3, StageOnward DEF S

(* So it is of any later one.                                              *)
LEMMA FartherOn ==
    ASSUME NEW c, Course(c, random.coin), NEW i \in Nat, NEW j \in Nat, i < j
    PROVE  /\ StageForm(c[j]) /\ c[j].at # "start"
           /\ c[i].at = "done" => c[j].at = "done"
           /\ c[j].at # "done" => Far(c[i]) < Far(c[j])
<1> DEFINE S == {m \in Nat : /\ c[i].at = "done" => c[i + 1 + m].at = "done"
                             /\ c[i + 1 + m].at # "done" => Far(c[i]) < Far(c[i + 1 + m])}
<1>1. \A k \in Nat : StageForm(c[k]) /\ Onward(c[k], c[k + 1])
  BY FormedAlong
<1>2. 0 \in S
  <2>1. Onward(c[i], c[i + 1]) /\ i + 1 + 0 = i + 1
    BY <1>1
  <2> QED BY <2>1 DEF Onward
<1>3. ASSUME NEW m \in Nat, m \in S PROVE m + 1 \in S
  <2> DEFINE k == i + 1 + m
  <2>1. k \in Nat /\ i + 1 + (m + 1) = k + 1
    OBVIOUS
  <2>2. Onward(c[k], c[k + 1]) /\ StageForm(c[k]) /\ StageForm(c[i]) /\ StageForm(c[k + 1])
    BY <1>1, <2>1
  <2>3. /\ c[i].at = "done" => c[k].at = "done"
        /\ c[k].at # "done" => Far(c[i]) < Far(c[k])
    BY <1>3
  <2>4. \A n \in Nat : Far(c[n]) \in Int
    <3> SUFFICES ASSUME NEW n \in Nat PROVE Far(c[n]) \in Int
      OBVIOUS
    <3>1. StageForm(c[n])
      BY <1>1
    <3>2. Rank(c[n].at) \in Int
      BY <3>1, Ranks DEF StageForm, Kinds
    <3> QED BY <3>1, <3>2 DEF StageForm, Far, Parties
  <2>5. Far(c[i]) \in Int /\ Far(c[k]) \in Int /\ Far(c[k + 1]) \in Int
    BY <2>1, <2>4
  <2> HIDE DEF k
  <2>6. /\ c[i].at = "done" => c[k + 1].at = "done"
        /\ c[k + 1].at # "done" => Far(c[i]) < Far(c[k + 1])
    BY <2>2, <2>3, <2>5 DEF Onward
  <2> QED BY <2>1, <2>6
<1> HIDE DEF S
<1> DEFINE n == j - i - 1
<1>4. n \in Nat /\ i + 1 + n = j
  OBVIOUS
<1> HIDE DEF n
<1>5. \A m \in 0..(n - 1) : m \in S => m + 1 \in S
  BY <1>3, <1>4
<1>6. \A m \in 0..n : m \in S
  BY <1>2, <1>4, <1>5, UpTo
<1>7. n \in S
  BY <1>4, <1>6
<1>8. j - 1 \in Nat /\ (j - 1) + 1 = j
  OBVIOUS
<1>9. Onward(c[j - 1], c[j])
  BY <1>1, <1>8
<1> QED BY <1>4, <1>7, <1>9 DEF S, Onward

(* A tag tells the stage.                                                  *)
LEMMA TagOnce ==
    ASSUME NEW c, Course(c, random.coin), NEW i \in Nat, NEW j \in Nat, c[i].at # "done",
           Tag(c[j].at, c[j]) = Tag(c[i].at, c[i])
    PROVE  i = j
<1>1. c[i].at = c[j].at /\ Far(c[i]) = Far(c[j])
  BY TagTells DEF Far
<1>2. Far(c[i]) \in Int /\ Far(c[j]) \in Int
  <2>1. \A n \in Nat : StageForm(c[n])
    BY FormedAlong
  <2>2. StageForm(c[i]) /\ StageForm(c[j])
    BY <2>1
  <2>3. Rank(c[i].at) \in Int /\ Rank(c[j].at) \in Int
    BY <2>2, Ranks DEF StageForm, Kinds
  <2> QED BY <2>2, <2>3 DEF StageForm, Far, Parties
<1>3. ~(i < j)
  BY <1>1, <1>2, FartherOn
<1>4. ~(j < i)
  BY <1>1, <1>2, FartherOn
<1> QED BY <1>3, <1>4

(* Who takes part in a stage after the first reads something in it.        *)
LEMMA PartReads ==
    ASSUME NEW g, StageForm(g), g.at \in Kinds, g.at # "start", NEW p \in Parties, TakesPart(g, p)
    PROVE  \E q \in Parties : Sends(g, q, p)
<1>1. NextOf(p) \in Parties /\ PrevOf(p) \in Parties /\ NextOf(p) # p
  BY Neighbours
<1>2. g.prover \in Parties
  BY DEF StageForm
<1>3. CASE g.at \in {"level", "seed", "coin"}
  BY <1>1, <1>3 DEF Sends
<1>4. CASE g.at = "proof"
  BY <1>2, <1>4 DEF Sends, TakesPart
<1>5. CASE g.at \in {"residual", "evals"}
  <2>1. p # g.prover
    BY <1>5 DEF TakesPart
  <2>2. OtherVerifier(p, g.prover) \in Parties /\ OtherVerifier(p, g.prover) # p
        /\ OtherVerifier(p, g.prover) # g.prover
    BY <1>2, <2>1, Verifiers
  <2> QED BY <1>5, <2>1, <2>2 DEF Sends
<1> QED BY <1>3, <1>4, <1>5 DEF Kinds

(* Where the three would be if each stage were taken by all of them        *)
(* before the next: the run of an honest evaluation.                       *)
IsRun(r, c) == \A k \in Nat : r[k + 1] = After(c[k], r[k])
Begins(st) == GoodAt(FirstStage, st) /\ \A p \in Parties : ControlOf(st[p]) = FirstStage

(* In state s party p is to take part next in stage d, and in none from k  *)
(* to there.                                                               *)
PlacedAt(c, k, d, s, p) ==
    /\ d \in Nat /\ k <= d /\ ControlOf(s) = c[d] /\ TakesPart(c[d], p)
    /\ s.at \notin {"done", "aborted"} /\ IsState(s)
    /\ \A j \in k..(d - 1) : \A q \in Parties : ~Sends(c[j], q, p)
Placed(c, k, st) == \A p \in Parties : \E d : PlacedAt(c, k, d, st[p], p)

(* Who takes part in a stage is there.                                     *)
LEMMA PlacedHere ==
    ASSUME NEW c, Course(c, random.coin), NEW k \in Nat \ {0}, c[k].at \in Kinds,
           NEW p \in Parties, NEW s, NEW d, PlacedAt(c, k, d, s, p)
    PROVE  IF TakesPart(c[k], p) THEN d = k ELSE k < d
<1>1. StageForm(c[k]) /\ c[k].at # "start"
  <2>1. Course(c, random.coin) /\ 0 \in Nat /\ k \in Nat /\ 0 < k
    OBVIOUS
  <2> DEFINE i == 0
  <2>2. i \in Nat /\ i < k
    BY <2>1
  <2> HIDE DEF i
  <2> QED BY <2>2, FartherOn
<1>2. d \in Nat /\ k <= d /\ TakesPart(c[d], p) /\ \A j \in k..(d - 1) : \A q \in Parties : ~Sends(c[j], q, p)
  BY DEF PlacedAt
<1>3. CASE TakesPart(c[k], p)
  <2>1. \E q \in Parties : Sends(c[k], q, p)
    BY <1>1, <1>3, PartReads
  <2>2. k \notin k..(d - 1)
    BY <1>2, <2>1
  <2> QED BY <1>2, <1>3, <2>2
<1>4. CASE ~TakesPart(c[k], p)
  <2>1. k # d
    BY <1>2, <1>4
  <2> QED BY <1>2, <1>4, <2>1
<1> QED BY <1>3, <1>4

(* At a stage that all have reached, those who take part are there.        *)
LEMMA RunAtStage ==
    ASSUME NEW c, Course(c, random.coin), NEW k \in Nat, c[k].at \in Kinds, NEW st,
           Placed(c, k, st), k = 0 => Begins(st)
    PROVE  AtStage(c[k], st)
<1> SUFFICES ASSUME NEW p \in Parties, TakesPart(c[k], p) PROVE ControlOf(st[p]) = c[k]
  BY Zenon DEF AtStage
<1>1. CASE k = 0
  BY <1>1 DEF Begins, Course
<1>2. CASE k # 0
  <2>1. PICK d : PlacedAt(c, k, d, st[p], p)
    BY DEF Placed
  <2>2. d = k
    BY <1>2, <2>1, PlacedHere
  <2> QED BY <2>1, <2>2 DEF PlacedAt
<1> QED BY <1>1, <1>2

(* From a stage all come to the next.                                      *)
LEMMA PlacedNext ==
    ASSUME NEW c, Course(c, random.coin), NEW k \in Nat, c[k].at \in Kinds, NEW st,
           Placed(c, k, st), k = 0 => Begins(st)
    PROVE  Placed(c, k + 1, After(c[k], st))
<1> SUFFICES ASSUME NEW p \in Parties
             PROVE  \E d : PlacedAt(c, k + 1, d, After(c[k], st)[p], p)
  BY Zenon DEF Placed
<1>1. PICK e : PlacedAt(c, k, e, st[p], p)
  BY DEF Placed
<1>2. CASE TakesPart(c[k], p)
  <2> DEFINE s == st[p]
             body == Told(c[k], st, p)
             next == Went(p, s, body, CoinOf(s))
  <2>1. ControlOf(s) = c[k]
    BY <1>2, RunAtStage DEF AtStage
  <2>2. IsState(s)
    BY <1>1 DEF PlacedAt
  <2>3. s.at \in Kinds
    BY <2>1 DEF ControlOf
  <2>4. After(c[k], st)[p] = next.s
    BY <1>2, AfterIs
  <2> HIDE DEF s, body
  <2>5. Advances(p, next, c, random.coin, k)
    BY <1>2, <2>1, <2>2, <2>3, WentAdvances DEF CoinOf
  <2> HIDE DEF next
  <2>6. PICK d \in Nat : /\ k < d /\ ControlOf(next.s) = c[d] /\ TakesPart(c[d], p)
                         /\ next.s.at \notin {"done", "aborted"}
                         /\ \A j \in (k + 1)..(d - 1) : \A q \in Parties : ~Sends(c[j], q, p)
    BY <2>5 DEF Advances
  <2>7. IsState(next.s) /\ k + 1 <= d
    BY <2>5, <2>6 DEF Advances
  <2>8. PlacedAt(c, k + 1, d, next.s, p)
    BY <2>6, <2>7, Zenon DEF PlacedAt
  <2> QED BY <2>4, <2>8
<1>3. CASE ~TakesPart(c[k], p)
  <2>1. k # 0
    <3>1. c[0].at = "start"
      BY DEF Course, FirstStage
    <3> QED BY <1>3, <3>1 DEF TakesPart
  <2>2. k < e
    BY <1>1, <1>3, <2>1, PlacedHere
  <2>3. After(c[k], st)[p] = st[p]
    BY <1>3, AfterIs
  <2>4. PlacedAt(c, k + 1, e, st[p], p)
    BY <1>1, <2>2 DEF PlacedAt
  <2> QED BY <2>3, <2>4
<1> QED BY <1>2, <1>3

(* Every state of the run is as it should be.                              *)
LEMMA RunGood ==
    ASSUME NEW c, Course(c, random.coin), NEW r, IsRun(r, c), Begins(r[0]), NEW k \in Nat,
           c[k].at # "done"
    PROVE  Placed(c, k, r[k]) /\ GoodAt(c[k], r[k])
<1> DEFINE Sound(j) == Placed(c, j, r[j]) /\ GoodAt(c[j], r[j])
           S == {j \in Nat : c[j].at = "done" \/ Sound(j)}
<1>1. 0 \in S
  <2>1. c[0] = FirstStage /\ GoodAt(c[0], r[0])
    BY DEF Course, Begins
  <2>2. ASSUME NEW p \in Parties PROVE PlacedAt(c, 0, 0, r[0][p], p)
    <3>1. ControlOf(r[0][p]) = c[0] /\ TakesPart(c[0], p) /\ r[0][p].at = "start"
      BY <2>1 DEF Begins, FirstStage, TakesPart, ControlOf
    <3>2. IsState(r[0][p])
      BY <2>1 DEF GoodAt, Stocked
    <3> QED BY <3>1, <3>2 DEF PlacedAt
  <2> QED BY <2>1, <2>2, Zenon DEF Placed
<1>2. ASSUME NEW j \in Nat, j \in S PROVE j + 1 \in S
  <2> HIDE DEF Sound
  <2>1. Onward(c[j], c[j + 1]) /\ StageForm(c[j])
    BY FormedAlong
  <2>2. CASE c[j].at \in {"open", "done"}
    <3>1. c[j + 1].at = "done"
      <4>1. CASE c[j].at = "open"
        <5>1. c[j + 1] = [c[j] EXCEPT !.at = "done"]
          BY <4>1, AfterOpen
        <5> QED BY <2>1, <5>1 DEF StageForm, FirstStage
      <4>2. CASE c[j].at = "done"
        BY <2>1, <4>2 DEF Onward
      <4> QED BY <2>2, <4>1, <4>2
    <3> QED BY <3>1
  <2>3. CASE c[j].at \notin {"open", "done"}
    <3>1. c[j].at \in Kinds
      BY <2>1, <2>3 DEF StageForm
    <3>2. Sound(j)
      BY <1>2, <2>3
    <3>3. Placed(c, j, r[j]) /\ GoodAt(c[j], r[j]) /\ (j = 0 => Begins(r[j]))
      BY <3>2 DEF Sound
    <3>4. r[j + 1] = After(c[j], r[j])
      BY DEF IsRun
    <3>5. Placed(c, j + 1, r[j + 1])
      BY <3>1, <3>3, <3>4, PlacedNext
    <3>6. AllStates(After(c[j], r[j]))
      BY <3>4, <3>5 DEF Placed, PlacedAt, AllStates
    <3>7. GoodAt(c[j + 1], r[j + 1])
      BY <2>1, <3>1, <3>3, <3>4, <3>6, RunAtStage, GoodStep
    <3> QED BY <3>5, <3>7 DEF Sound
  <2> QED BY <2>2, <2>3
<1> HIDE DEF S
<1>3. \A j \in 0..(k - 1) : j \in S => j + 1 \in S
  BY <1>2
<1>4. \A j \in 0..k : j \in S
  BY <1>1, <1>3, UpTo
<1> QED BY <1>4 DEF S

(* A run up to stage N, ...                                                *)
RunTo(r, c, st, N) == r[0] = st /\ \A k \in 0..(N - 1) : r[k + 1] = After(c[k], r[k])

(* The run exists up to any stage.                                         *)
LEMMA RunUpTo ==
    ASSUME NEW c, NEW st, NEW N \in Nat
    PROVE  \E r : RunTo(r, c, st, N)
<1> DEFINE Good == {n \in 0..N : \E r : RunTo(r, c, st, n)}
<1>1. 0 \in Good
  <2> DEFINE r == [n \in {0} |-> st]
  <2>1. r[0] = st /\ 0..(0 - 1) = {} /\ 0 \in 0..N
    OBVIOUS
  <2> HIDE DEF r
  <2>2. RunTo(r, c, st, 0)
    BY <2>1 DEF RunTo
  <2> QED BY <2>1, <2>2
<1>2. ASSUME NEW n \in 0..(N - 1), n \in Good PROVE n + 1 \in Good
  <2>1. PICK r : RunTo(r, c, st, n)
    BY <1>2
  <2> DEFINE next == After(c[n], r[n])
             d == [k \in 0..(n + 1) |-> IF k = n + 1 THEN next ELSE r[k]]
  <2> HIDE DEF next
  <2>2. \A k \in 0..n : d[k] = r[k]
    OBVIOUS
  <2>3. d[n + 1] = next
    OBVIOUS
  <2> HIDE DEF d
  <2>4. ASSUME NEW k \in 0..((n + 1) - 1) PROVE d[k + 1] = After(c[k], d[k])
    <3>1. CASE k = n
      BY <2>2, <2>3, <3>1 DEF next
    <3>2. CASE k # n
      <4>1. k \in 0..(n - 1) /\ k \in 0..n /\ k + 1 \in 0..n
        BY <3>2
      <4>2. r[k + 1] = After(c[k], r[k])
        BY <2>1, <4>1 DEF RunTo
      <4> QED BY <2>2, <4>1, <4>2
    <3> QED BY <3>1, <3>2
  <2>5. d[0] = st
    BY <2>1, <2>2 DEF RunTo
  <2>6. RunTo(d, c, st, n + 1) /\ n + 1 \in 0..N
    BY <2>4, <2>5 DEF RunTo
  <2> QED BY <2>6
<1> HIDE DEF Good
<1>3. \A n \in 0..N : n \in Good
  BY <1>1, <1>2, UpTo
<1>4. N \in Good
  BY <1>3
<1> QED BY <1>4 DEF Good

(* ... of which two agree, ...                                             *)
LEMMA RunsAgree ==
    ASSUME NEW c, NEW st, NEW N \in Nat, NEW M \in Nat, NEW r, NEW d,
           RunTo(r, c, st, N), RunTo(d, c, st, M), NEW n \in Nat, n <= N, n <= M
    PROVE  r[n] = d[n]
<1> DEFINE S == {k \in 0..n : r[k] = d[k]}
<1>1. 0 \in S
  BY DEF RunTo
<1>2. ASSUME NEW k \in 0..(n - 1), k \in S PROVE k + 1 \in S
  <2>1. k \in 0..(N - 1) /\ k \in 0..(M - 1) /\ k + 1 \in 0..n
    OBVIOUS
  <2>2. r[k + 1] = After(c[k], r[k]) /\ d[k + 1] = After(c[k], d[k])
    BY <2>1 DEF RunTo
  <2> QED BY <1>2, <2>1, <2>2
<1> HIDE DEF S
<1>3. \A k \in 0..n : k \in S
  BY <1>1, <1>2, UpTo
<1>4. n \in S
  BY <1>3
<1> QED BY <1>4 DEF S

(* ... and so one without an end.                                          *)
LEMMA RunExists ==
    ASSUME NEW c, NEW st
    PROVE  \E r : IsRun(r, c) /\ r[0] = st
<1> DEFINE Upto(n) == CHOOSE d : RunTo(d, c, st, n)
           r == [n \in Nat |-> Upto(n)[n]]
<1>1. \A n \in Nat : RunTo(Upto(n), c, st, n)
  BY RunUpTo
<1> HIDE DEF Upto
<1>2. \A n \in Nat : r[n] = Upto(n)[n]
  OBVIOUS
<1> HIDE DEF r
<1>3. r[0] = st
  BY <1>1, <1>2 DEF RunTo
<1>4. ASSUME NEW k \in Nat PROVE r[k + 1] = After(c[k], r[k])
  <2> DEFINE m == k + 1
  <2>1. m \in Nat /\ k <= k /\ k <= m /\ k \in 0..(m - 1)
    OBVIOUS
  <2> HIDE DEF m
  <2>2. RunTo(Upto(m), c, st, m) /\ RunTo(Upto(k), c, st, k)
    BY <1>1, <2>1
  <2>3. Upto(m)[k] = Upto(k)[k]
    BY <2>1, <2>2, RunsAgree
  <2>4. Upto(m)[k + 1] = After(c[k], Upto(m)[k])
    BY <2>1, <2>2 DEF RunTo
  <2>5. r[k] = Upto(k)[k] /\ r[m] = Upto(m)[m]
    BY <1>2, <2>1
  <2> QED BY <2>3, <2>4, <2>5 DEF m
<1>5. IsRun(r, c)
  BY <1>4 DEF IsRun
<1> QED BY <1>3, <1>5

(* A party that takes no part keeps its state.                             *)
LEMMA RunStill ==
    ASSUME NEW c, Course(c, random.coin), NEW r, IsRun(r, c), NEW a \in Nat \ {0}, NEW d \in Nat, a <= d,
           NEW p \in Parties, \A j \in a..(d - 1) : \A q \in Parties : ~Sends(c[j], q, p)
    PROVE  \A j \in a..d : r[j][p] = r[a][p]
<1> DEFINE N == d - a
           S == {m \in 0..N : r[a + m][p] = r[a][p]}
<1>1. 0 \in S /\ N \in Nat
  OBVIOUS
<1>2. ASSUME NEW m \in 0..(N - 1), m \in S PROVE m + 1 \in S
  <2> DEFINE j == a + m
  <2>1. j \in Nat /\ j \in a..(d - 1) /\ a + (m + 1) = j + 1 /\ m + 1 \in 0..N
    OBVIOUS
  <2>2. r[j + 1] = After(c[j], r[j])
    BY <2>1 DEF IsRun
  <2>3. StageForm(c[j]) /\ c[j].at # "start"
    <3> DEFINE i == 0
    <3>1. i \in Nat /\ i < j
      OBVIOUS
    <3> HIDE DEF i
    <3> QED BY <2>1, <3>1, FartherOn
  <2>4. ~(c[j].at \in Kinds /\ TakesPart(c[j], p))
    BY <2>1, <2>3, PartReads
  <2>5. r[j + 1][p] = r[j][p]
    BY <2>2, <2>4 DEF After, AfterOf
  <2>6. r[j][p] = r[a][p]
    BY <1>2
  <2> QED BY <2>1, <2>5, <2>6
<1> HIDE DEF S
<1>3. \A m \in 0..N : m \in S
  BY <1>1, <1>2, UpTo
<1>4. ASSUME NEW j \in a..d PROVE r[j][p] = r[a][p]
  <2>1. j - a \in 0..N /\ a + (j - a) = j
    OBVIOUS
  <2>2. j - a \in S
    BY <1>3, <2>1
  <2> QED BY <2>1, <2>2 DEF S
<1> QED BY <1>4

-----------------------------------------------------------------------------
(* The streams stay, and so does what is computed from them. *)

(* The masks.                                                              *)
LEMMA MasksKept ==
    ASSUME random' = random, NEW p, NEW s, NEW n
    PROVE  Masks(p, s, n)' = Masks(p, s, n)
BY DEF Masks

(* The proofs.                                                             *)
LEMMA ProofsKept ==
    ASSUME random' = random, NEW p, NEW s
    PROVE  /\ Proof(p, s)' = Proof(p, s) /\ BaseProof(p, s)' = BaseProof(p, s)
           /\ ProofOf(p, s)' = ProofOf(p, s)
<1>1. ASSUME NEW t PROVE Proof(p, t)' = Proof(p, t) /\ BaseProof(p, t)' = BaseProof(p, t)
  BY MasksKept DEF Proof, BaseProof
<1> QED BY <1>1, Zenon DEF ProofOf

(* The shares of a coin.                                                   *)
LEMMA SharesKept ==
    ASSUME random' = random, NEW p, NEW kind, NEW s
    PROVE  CoinShares(p, kind, s)' = CoinShares(p, kind, s)
BY DEF CoinShares, CoinPairs, Double, Halves

(* A round, and an instance.                                               *)
LEMMA RoundKept ==
    ASSUME random' = random, NEW p, NEW s
    PROVE  StartRound(p, s)' = StartRound(p, s)
BY ProofsKept, SharesKept DEF StartRound

(* An instance.                                                            *)
LEMMA InstanceKept ==
    ASSUME random' = random, NEW p, NEW s
    PROVE  /\ \A k : StartInstance(p, s, k)' = StartInstance(p, s, k)
           /\ NextInstance(p, s)' = NextInstance(p, s)
<1>1. ASSUME NEW k PROVE StartInstance(p, s, k)' = StartInstance(p, s, k)
  BY RoundKept DEF StartInstance
<1> QED BY <1>1, Zenon DEF NextInstance

(* What a party does next.                                                 *)
LEMMA LevelKept ==
    ASSUME random' = random, NEW p, NEW s, NEW body
    PROVE  /\ Multiplied(p, s)' = Multiplied(p, s)
           /\ LevelTaken(p, s, body)' = LevelTaken(p, s, body)
<1>1. ASSUME NEW t PROVE Multiplied(p, t)' = Multiplied(p, t)
  BY DEF Multiplied
<1> QED BY <1>1, SharesKept, Zenon DEF LevelTaken

(* A coin.                                                                 *)
LEMMA CoinKept ==
    ASSUME random' = random, NEW p, NEW s, NEW coin
    PROVE  CoinTaken(p, s, coin)' = CoinTaken(p, s, coin)
<1>1. CoinAgain(p, s)' = CoinAgain(p, s)
  BY SharesKept DEF CoinAgain
<1>2. FoldCoinTaken(p, s, coin)' = FoldCoinTaken(p, s, coin)
  BY RoundKept DEF FoldCoinTaken
<1>3. BaseCoinTaken(p, s, coin)' = BaseCoinTaken(p, s, coin)
  BY InstanceKept DEF BaseCoinTaken
<1> QED BY <1>1, <1>2, <1>3, Zenon DEF CoinTaken

(* A whole step.                                                           *)
LEMMA WentKept ==
    ASSUME random' = random, NEW p, NEW s, NEW body, NEW coin
    PROVE  Went(p, s, body, coin)' = Went(p, s, body, coin)
<1>1. Multiplied(p, s)' = Multiplied(p, s) /\ LevelTaken(p, s, body)' = LevelTaken(p, s, body)
  BY LevelKept
<1>2. SeedTaken(p, s, coin)' = SeedTaken(p, s, coin)
  BY InstanceKept DEF SeedTaken
<1>3. ResidualTaken(p, s)' = ResidualTaken(p, s)
  BY SharesKept DEF ResidualTaken
<1>4. CoinTaken(p, s, coin)' = CoinTaken(p, s, coin)
  BY CoinKept
<1>5. EvalsTaken(p, s)' = EvalsTaken(p, s)
  BY InstanceKept DEF EvalsTaken
<1> QED BY <1>1, <1>2, <1>3, <1>4, <1>5, Zenon DEF Went

(* What is owed.                                                           *)
LEMMA OwedKept ==
    ASSUME random' = random, NEW g, NEW s, NEW q, NEW p
    PROVE  Owed(g, s, q, p)' = Owed(g, s, q, p)
<1>1. ProofOf(q, s)' = ProofOf(q, s)
  BY ProofsKept
<1> QED BY <1>1, Zenon DEF Owed

(* The run.                                                                *)
LEMMA AfterKept ==
    ASSUME random' = random, NEW g, NEW st
    PROVE  After(g, st)' = After(g, st)
<1>1. ASSUME NEW p PROVE AfterOf(g, st, p)' = AfterOf(g, st, p)
  <2>1. Told(g, st, p)' = Told(g, st, p)
    BY OwedKept DEF Told
  <2>2. CoinOf(st[p])' = CoinOf(st[p])
    BY DEF CoinOf
  <2> QED BY <2>1, <2>2, WentKept, Zenon DEF AfterOf
<1> QED BY <1>1, Zenon DEF After

(* A run stays one.                                                        *)
LEMMA RunKept ==
    ASSUME random' = random, NEW r, NEW c, IsRun(r, c)
    PROVE  IsRun(r, c)'
<1>1. \A k \in Nat : After(c[k], r[k])' = After(c[k], r[k])
  BY AfterKept
<1> QED BY <1>1, Zenon DEF IsRun

-----------------------------------------------------------------------------
(* Without a changed item the parties are where the run has them. *)

(* There is one course.                                                    *)
LEMMA OneCourse ==
    ASSUME NEW coin, NEW c, NEW d, Course(c, coin), Course(d, coin), NEW k \in Nat
    PROVE  c[k] = d[k]
<1>1. CourseTo(c, coin, k) /\ CourseTo(d, coin, k)
  BY DEF Course, CourseTo
<1> QED BY <1>1, CoursesAgree

(* What a link holds of a course it holds of the same course.              *)
LEMMA HoldsSame ==
    ASSUME NEW c, NEW d, \A k \in Nat : c[k] = d[k], NEW w, NEW coin, NEW q, NEW p, NEW a \in Nat, NEW b \in Nat,
           Holds(w, c, coin, q, p, a, b)
    PROVE  Holds(w, d, coin, q, p, a, b)
<1>1. PICK f \in [1..Len(w) -> Nat] :
        /\ \A i \in 1..Len(w) :
            /\ f[i] \in a..b /\ IsMessage(w[i], c[f[i]], coin, q, p)
            /\ \A j \in 1..Len(w) : i < j => f[i] < f[j]
        /\ \A k \in a..b : Sends(c[k], q, p) => \E i \in 1..Len(w) : f[i] = k
  BY Zenon DEF Holds
<1>2. \A i \in 1..Len(w) : c[f[i]] = d[f[i]]
  BY <1>1
<1>3. \A k \in a..b : c[k] = d[k]
  OBVIOUS
<1> QED BY <1>1, <1>2, <1>3, Zenon DEF Holds

(* Whichever course is taken, the parties follow it.                       *)
LEMMA FollowsAny ==
    ASSUME NEW c, NEW d, NEW n, Follows(d, n), Course(c, random.coin)
    PROVE  Follows(c, n)
<1>1. \A k \in Nat : d[k] = c[k]
  BY OneCourse DEF Follows
<1>2. n \in [Parties -> Nat]
  BY DEF Follows
<1>3. ASSUME NEW p \in Parties PROVE OnCourse(c, n, p)
  <2>1. OnCourse(d, n, p) /\ n[p] \in Nat
    BY <1>2 DEF Follows
  <2> QED BY <1>1, <2>1 DEF OnCourse
<1>4. ASSUME NEW q \in Parties, NEW p \in Parties, q # p, ~Ended(p) PROVE Link(c, n, q, p)
  <2>1. Link(d, n, q, p) /\ n[p] \in Nat
    BY <1>2, <1>4 DEF Follows
  <2>2. PICK b \in Nat :
          /\ Holds(wire[<<q, p>>], d, random.coin, q, p, n[p], b)
          /\ \A k \in 0..(n[p] - 1) : Sends(d[k], q, p) => k <= b
          /\ me[q].at # "aborted" => b = n[q]
    BY <2>1 DEF Link
  <2>3. Holds(wire[<<q, p>>], c, random.coin, q, p, n[p], b)
    BY <1>1, <2>1, <2>2, HoldsSame
  <2>4. \A k \in 0..(n[p] - 1) : Sends(c[k], q, p) => k <= b
    BY <1>1, <2>1, <2>2
  <2> QED BY <2>2, <2>3, <2>4 DEF Link
<1> QED BY <1>2, <1>3, <1>4 DEF Follows

(* What a party that has not opened yet is at.                             *)
InPlace(c, r, p) ==
    me[p].at # "done" => \A k \in Nat : ControlOf(me[p]) = c[k] => me[p] = r[k][p]

(* A message of a stage says what its sender owes there.                   *)
Truthful(w, c, r, q, p) ==
    \A i \in 1..Len(w) : \A k \in Nat :
        Sends(c[k], q, p) /\ w[i].tag = Tag(c[k].at, c[k]) => w[i].body = Owed(c[k], r[k][q], q, p)

Honest(c, r) ==
    /\ Course(c, random.coin) /\ IsRun(r, c) /\ Begins(r[0]) /\ reset = {}
    /\ \A p \in Parties : me[p].at # "aborted" /\ InPlace(c, r, p)
    /\ \A p, q \in Parties : me[q].at = "done" => me[p].at \in {"open", "done"}
    /\ \A q, p \in Parties : q # p => Truthful(wire[<<q, p>>], c, r, q, p)

HonestInv == flips \in Nat /\ (flips = 0 => \E c, r : Honest(c, r))

(* A party at a stage is where the run has it.                             *)
LEMMA HonestPlace ==
    ASSUME FormInv, NEW c, NEW n, Follows(c, n), NEW r, Honest(c, r), NEW p \in Parties, ~Ended(p)
    PROVE  LET k == n[p]
           IN /\ k \in Nat /\ me[p] = r[k][p] /\ c[k].at = me[p].at /\ ControlOf(me[p]) = c[k]
              /\ c[k].prover = me[p].prover /\ TakesPart(c[k], p) /\ StageForm(c[k])
              /\ GoodAt(c[k], r[k]) /\ IsState(me[p])
<1> DEFINE k == n[p]
<1>1. /\ IsState(me[p]) /\ ControlOf(me[p]) = c[k] /\ TakesPart(c[k], p) /\ k \in Nat
      /\ c[k].at = me[p].at /\ c[k].prover = me[p].prover
  BY PlaceOf
<1>2. me[p].at # "done"
  BY DEF Ended
<1>3. me[p] = r[k][p]
  BY <1>1, <1>2 DEF Honest, InPlace
<1>4. GoodAt(c[k], r[k])
  BY <1>1, <1>2, RunGood DEF Honest
<1>5. StageForm(c[k])
  BY <1>1, FormedAlong DEF Honest
<1> QED BY <1>1, <1>3, <1>4, <1>5

(* What a party finds is what is owed to it.                               *)
LEMMA FoundBody ==
    ASSUME FormInv, NEW c, NEW n, Follows(c, n), NEW r, Honest(c, r), NEW p \in Parties, ~Ended(p),
           NEW q \in Parties, q # p, Sends(c[n[p]], q, p), Readable(q, p)
    PROVE  Incoming(q, p).body = Owed(c[n[p]], r[n[p]][q], q, p)
<1> DEFINE k == n[p]
           w == wire[<<q, p>>]
<1>1. k \in Nat
  BY HonestPlace
<1>2. IsMessage(Incoming(q, p), c[k], random.coin, q, p)
  BY FoundMessage
<1>3. IsSeq(w) /\ w # << >> /\ Incoming(q, p) = Head(w)
  BY DEF FormInv, Links, Readable, Incoming
<1>4. Truthful(w, c, r, q, p)
  BY DEF Honest
<1> HIDE DEF w
<1>5. Head(w) = w[1] /\ 1 \in 1..Len(w)
  BY <1>3, TailIsSeq, SeqLength
<1>6. Incoming(q, p).tag = Tag(c[k].at, c[k])
  BY <1>2 DEF IsMessage
<1> HIDE DEF k
<1>7. Sends(c[k], q, p)
  BY DEF k
<1>8. w[1].body = Owed(c[k], r[k][q], q, p)
  BY <1>1, <1>3, <1>4, <1>5, <1>6, <1>7 DEF Truthful
<1> QED BY <1>3, <1>5, <1>8 DEF k

(* What a party reads is what its neighbour owes it.                       *)
LEMMA BodyOwed ==
    ASSUME FormInv, NEW c, NEW n, Follows(c, n), NEW r, Honest(c, r), NEW p \in Parties, ~Ended(p),
           CanRead(p), NEW i \in DOMAIN Awaited(p)
    PROVE  Body(p, i) = Owed(c[n[p]], r[n[p]][Awaited(p)[i]], Awaited(p)[i], p)
<1> DEFINE q == Awaited(p)[i]
<1>1. IsState(me[p]) /\ ControlOf(me[p]) = c[n[p]] /\ TakesPart(c[n[p]], p)
  BY HonestPlace
<1>2. q \in Parties /\ q # p /\ Sends(c[n[p]], q, p)
  BY <1>1, AwaitedSend
<1>3. Readable(q, p)
  BY <1>2, CanReadAll
<1> QED BY <1>2, <1>3, FoundBody DEF Body

(* What is done next does not depend on what is not read.                  *)
LEMMA WentReads ==
    ASSUME NEW p, NEW s, NEW a, NEW b, NEW coin, s.at \in Kinds, s.at \in {"level", "proof"} => a = b
    PROVE  Went(p, s, a, coin) = Went(p, s, b, coin)
BY WentIs DEF Kinds

(* A party that goes on goes on along the run.                             *)
LEMMA HonestGoes ==
    ASSUME FormInv, NEW c, NEW n, Follows(c, n), NEW r, Honest(c, r), NEW p \in Parties,
           CanRead(p), me[p].at \in Kinds
    PROVE  Went(p, me[p], Body(p, 1), TrueCoin(random.coin, me[p].coins)).s = r[n[p] + 1][p]
<1> DEFINE k == n[p]
           s == me[p]
           g == c[k]
           st == r[k]
<1>1. ~Ended(p)
  BY DEF Ended, Kinds
<1>2. /\ k \in Nat /\ s = st[p] /\ g.at = s.at /\ ControlOf(s) = g /\ g.prover = s.prover
      /\ TakesPart(g, p) /\ StageForm(g) /\ GoodAt(g, st) /\ IsState(s)
  BY <1>1, HonestPlace
<1>3. r[k + 1] = After(g, st)
  BY <1>2 DEF Honest, IsRun
<1>4. r[k + 1][p] = Went(p, s, Told(g, st, p), TrueCoin(random.coin, s.coins)).s
  BY <1>2, <1>3, AfterIs DEF CoinOf
<1>5. s.at = "level" => Body(p, 1) = Told(g, st, p)
  <2> SUFFICES ASSUME s.at = "level" PROVE Body(p, 1) = Told(g, st, p)
    OBVIOUS
  <2>1. Awaited(p) = <<NextOf(p)>>
    BY DEF Awaited
  <2>2. 1 \in DOMAIN Awaited(p) /\ Awaited(p)[1] = NextOf(p)
    BY <2>1
  <2>3. Body(p, 1) = Owed(g, st[NextOf(p)], NextOf(p), p)
    BY <1>1, <2>2, BodyOwed
  <2> QED BY <1>2, <2>3 DEF Told, Source
<1>6. s.at = "proof" => Body(p, 1) = Told(g, st, p)
  <2> SUFFICES ASSUME s.at = "proof" PROVE Body(p, 1) = Told(g, st, p)
    OBVIOUS
  <2>1. Awaited(p) = <<ProofFrom(p, s.prover)>>
    BY DEF Awaited
  <2>2. s.prover \in Parties /\ p # s.prover
    BY <1>2 DEF TakesPart, IsState
  <2>3. 1 \in DOMAIN Awaited(p) /\ Awaited(p)[1] = s.prover
    BY <2>1, <2>2, Verifiers
  <2>4. Body(p, 1) = Owed(g, st[s.prover], s.prover, p)
    BY <1>1, <2>3, BodyOwed
  <2> QED BY <1>2, <2>4 DEF Told, Source
<1> HIDE DEF s, st, g, k
<1>7. Went(p, s, Body(p, 1), TrueCoin(random.coin, s.coins)) = Went(p, s, Told(g, st, p), TrueCoin(random.coin, s.coins))
  <2>1. s.at \in Kinds
    BY DEF s
  <2>2. s.at \in {"level", "proof"} => Body(p, 1) = Told(g, st, p)
    BY <1>5, <1>6
  <2> DEFINE coin == TrueCoin(random.coin, s.coins)
             a == Body(p, 1)
             b == Told(g, st, p)
  <2> HIDE DEF coin, a, b
  <2>3. Went(p, s, a, coin) = Went(p, s, b, coin)
    BY <2>1, <2>2, WentReads DEF a, b
  <2> QED BY <2>3 DEF a, b, coin
<1> QED BY <1>4, <1>7 DEF s, k

(* Two openings of the same coin agree.                                    *)
LEMMA CoinsConfirmed ==
    ASSUME FormInv, NEW c, NEW n, Follows(c, n), NEW r, Honest(c, r), NEW p \in Parties,
           me[p].at \in {"seed", "coin"}, CanRead(p)
    PROVE  Confirmed(Body(p, 1), Body(p, 2))
<1>1. ~Ended(p)
  BY DEF Ended
<1>2. c[n[p]].at \in {"seed", "coin"}
  BY <1>1, HonestPlace
<1>3. Awaited(p) = <<NextOf(p), PrevOf(p)>>
  BY DEF Awaited
<1>4. 1 \in DOMAIN Awaited(p) /\ 2 \in DOMAIN Awaited(p)
  BY <1>3
<1> DEFINE x == Awaited(p)[1]
           y == Awaited(p)[2]
           g == c[n[p]]
           s == r[n[p]][x]
           t == r[n[p]][y]
<1>5. Body(p, 1) = Owed(g, s, x, p) /\ Body(p, 2) = Owed(g, t, y, p)
  BY <1>1, <1>4, BodyOwed
<1> HIDE DEF x, y, g, s, t
<1>6. Owed(g, s, x, p) = Owed(g, t, y, p)
  BY <1>2, OwedCoin DEF g
<1> QED BY <1>5, <1>6 DEF Confirmed

(* Two openings of the outputs agree.                                      *)
LEMMA OpeningsConfirmed ==
    ASSUME FormInv, NEW c, NEW n, Follows(c, n), NEW r, Honest(c, r), NEW p \in Parties,
           me[p].at = "open", CanRead(p)
    PROVE  Confirmed(Body(p, 1), Body(p, 2))
<1> DEFINE x == NextOf(p)
           y == PrevOf(p)
           g == c[n[p]]
           st == r[n[p]]
           s == st[x]
           t == st[y]
<1>1. ~Ended(p)
  BY DEF Ended
<1>2. g.at = "open" /\ GoodAt(g, st)
  BY <1>1, HonestPlace
<1>3. Awaited(p) = <<x, y>>
  BY DEF Awaited
<1>4. 1 \in DOMAIN Awaited(p) /\ 2 \in DOMAIN Awaited(p) /\ Awaited(p)[1] = x /\ Awaited(p)[2] = y
  BY <1>3
<1>5. Body(p, 1) = Owed(g, s, x, p) /\ Body(p, 2) = Owed(g, t, y, p)
  BY <1>1, <1>4, BodyOwed
<1>6. /\ x \in Parties /\ PrevOf(x) = p /\ PrevOf(y) # p /\ NextOf(x) = y
  BY Neighbours
<1>7. Fitting(s.tape, t.tape, Wires(Multiplier))
  BY <1>2, <1>6 DEF GoodAt, Fits
<1> HIDE DEF g, s, t, st
<1>8. /\ Body(p, 1) = Parts([i \in DOMAIN Outputs |-> s.tape[Outputs[i]]], 2)
      /\ Body(p, 2) = Parts([i \in DOMAIN Outputs |-> t.tape[Outputs[i]]], 1)
  BY <1>2, <1>5, <1>6, OwedOpen DEF x, y
<1>9. \A i \in DOMAIN Outputs : Outputs[i] \in Wires(Multiplier)
  BY OutputsAreWires
<1>10. Parts([i \in DOMAIN Outputs |-> s.tape[Outputs[i]]], 2) = Parts([i \in DOMAIN Outputs |-> t.tape[Outputs[i]]], 1)
  BY <1>7, <1>9 DEF Parts, Fitting
<1> QED BY <1>8, <1>10 DEF Confirmed

(* What the verifiers tell each other.                                     *)
LEMMA VerifierHears ==
    ASSUME FormInv, NEW c, NEW n, Follows(c, n), NEW r, Honest(c, r), NEW p \in Parties,
           me[p].at \in {"residual", "evals"}, CanRead(p)
    PROVE  LET k == me[p].prover
               st == r[n[p]]
               q == OtherVerifier(p, k)
           IN /\ Body(p, 1) = st[q].mine /\ me[p] = st[p] /\ k \in Parties
              /\ (p = PrevOf(k) /\ q = NextOf(k)) \/ (p = NextOf(k) /\ q = PrevOf(k))
              /\ c[n[p]].at = me[p].at /\ c[n[p]].prover = k /\ GoodAt(c[n[p]], st)
<1> DEFINE k == me[p].prover
           g == c[n[p]]
           st == r[n[p]]
           q == OtherVerifier(p, k)
<1>1. ~Ended(p)
  BY DEF Ended
<1>2. /\ me[p] = st[p] /\ g.at = me[p].at /\ g.prover = k /\ TakesPart(g, p) /\ GoodAt(g, st)
      /\ IsState(me[p])
  BY <1>1, HonestPlace
<1>3. k \in Parties /\ p # k
  BY <1>2 DEF IsState, TakesPart
<1>4. Awaited(p) = <<q>>
  BY DEF Awaited
<1>5. 1 \in DOMAIN Awaited(p) /\ Awaited(p)[1] = q
  BY <1>4
<1>6. Body(p, 1) = Owed(g, st[q], q, p)
  BY <1>1, <1>5, BodyOwed
<1>7. (p = PrevOf(k) /\ q = NextOf(k)) \/ (p = NextOf(k) /\ q = PrevOf(k))
  <2>1. p = PrevOf(k) \/ p = NextOf(k)
    BY <1>3, Neighbours
  <2>2. PrevOf(k) # NextOf(k) /\ PrevOf(PrevOf(k)) = NextOf(k) /\ NextOf(NextOf(k)) = PrevOf(k)
    BY <1>3, Neighbours
  <2> QED BY <2>1, <2>2 DEF OtherVerifier, IsLeft
<1> HIDE DEF g, q, st, k
<1>8. Body(p, 1) = st[q].mine
  BY <1>2, <1>6, OwedMine
<1> QED BY <1>2, <1>3, <1>7, <1>8 DEF g, q, st, k

(* No check fails.                                                         *)
LEMMA ChecksPass ==
    ASSUME FormInv, NEW c, NEW n, Follows(c, n), NEW r, Honest(c, r), NEW p \in Parties
    PROVE  ~CheckFails(p)
<1> SUFFICES ASSUME CheckFails(p) PROVE FALSE
  OBVIOUS
<1>1. \A kind \in {"seed", "coin", "open"} : ~DoubleFails(p, kind)
  BY CoinsConfirmed, OpeningsConfirmed DEF DoubleFails, Waits
<1>2. \/ Waits(p, "residual") /\ ~SumsToZero(p)
      \/ Waits(p, "evals") /\ ~ProductHolds(p)
  BY <1>1 DEF CheckFails
<1>3. me[p].at \in {"residual", "evals"} /\ CanRead(p)
  BY <1>2 DEF Waits
<1> DEFINE k == me[p].prover
           g == c[n[p]]
           st == r[n[p]]
           q == OtherVerifier(p, k)
           l == st[PrevOf(k)]
           t == st[NextOf(k)]
<1>4. /\ Body(p, 1) = st[q].mine /\ me[p] = st[p] /\ k \in Parties
      /\ (p = PrevOf(k) /\ q = NextOf(k)) \/ (p = NextOf(k) /\ q = PrevOf(k))
      /\ g.at = me[p].at /\ g.prover = k /\ GoodAt(g, st)
  BY <1>3, VerifierHears
<1>5. \/ me[p].mine = l.mine /\ Body(p, 1) = t.mine
      \/ me[p].mine = t.mine /\ Body(p, 1) = l.mine
  BY <1>4
<1>6. g.at = "residual" => NothingLeft(l, t)
  BY <1>4 DEF GoodAt
<1>7. g.at = "evals" => Balanced(l, t)
  BY <1>4 DEF GoodAt
<1> HIDE DEF k, g, st, q, l, t
<1>8. CASE Waits(p, "residual") /\ ~SumsToZero(p)
  <2>1. g.at = "residual"
    BY <1>4, <1>8 DEF Waits
  <2>2. l.mine[1] ## t.mine[1] = Zero
    BY <1>6, <2>1 DEF NothingLeft
  <2>3. t.mine[1] ## l.mine[1] = Zero
    BY <2>2, XorLaws
  <2>4. me[p].mine[1] ## Body(p, 1)[1] = Zero
    BY <1>5, <2>2, <2>3, Zenon
  <2> QED BY <1>8, <2>4 DEF SumsToZero
<1>9. CASE Waits(p, "evals") /\ ~ProductHolds(p)
  <2>1. g.at = "evals"
    BY <1>4, <1>9 DEF Waits
  <2>2. ProductHolds(p)
    BY <1>5, <1>7, <2>1, Zenon DEF Balanced, ProductHolds
  <2> QED BY <1>9, <2>2
<1> QED BY <1>2, <1>8, <1>9

(* Nobody waits for a party that has gone and said nothing.                *)
LEMMA NobodyLost ==
    ASSUME FormInv, NEW c, NEW n, Follows(c, n), NEW r, Honest(c, r), NEW p \in Parties
    PROVE  ~Cascade(p)
<1> SUFFICES ASSUME Cascade(p) PROVE FALSE
  OBVIOUS
<1>1. ~Ended(p) /\ CannotRead(p)
  BY DEF Cascade
<1>2. PICK i \in DOMAIN Awaited(p) : ReadFails(Awaited(p)[i], p)
  BY <1>1 DEF CannotRead
<1> DEFINE q == Awaited(p)[i]
           k == n[p]
           w == wire[<<q, p>>]
<1>3. /\ k \in Nat /\ ControlOf(me[p]) = c[k] /\ c[k].at = me[p].at /\ TakesPart(c[k], p) /\ IsState(me[p])
  BY <1>1, HonestPlace
<1>4. q \in Parties /\ q # p /\ Sends(c[k], q, p)
  BY <1>3, AwaitedSend
<1>5. q \in gone /\ w = << >>
  <2>1. reset = {}
    BY DEF Honest
  <2> QED BY <1>2, <2>1 DEF ReadFails, Readable
<1>6. me[q].at = "done" /\ me[q].at # "aborted"
  BY <1>4, <1>5 DEF FormInv, Ended, Honest
<1>7. n[q] \in Nat /\ c[n[q]].at = "done"
  <2>1. ControlOf(me[q]) = c[n[q]] /\ n[q] \in Nat
    BY <1>4, <1>6 DEF Follows, OnCourse
  <2> QED BY <1>6, <2>1 DEF ControlOf
<1>8. c[k].at # "done"
  BY <1>1, <1>3 DEF Ended
<1>9. k <= n[q]
  <2>1. ~(n[q] < k)
    BY <1>3, <1>7, <1>8, FartherOn DEF Honest
  <2> QED BY <1>3, <1>7, <2>1
<1>10. Holds(w, c, random.coin, q, p, k, n[q])
  BY <1>1, <1>4, <1>6 DEF Follows, Link
<1>11. k \in k..n[q]
  BY <1>3, <1>7, <1>9
<1>12. Len(w) = 0
  BY <1>5, EmptyIsSeq
<1> HIDE DEF w, q, k
<1>13. \E j \in 1..Len(w) : TRUE
  BY <1>4, <1>10, <1>11 DEF Holds
<1> QED BY <1>12, <1>13

-----------------------------------------------------------------------------
(* Every step keeps to the run.                                            *)

(* What a party says as it goes on is what it owes at the stages it says   *)
(* it in.                                                                  *)
LEMMA SaidTruthful ==
    ASSUME NEW c, Course(c, random.coin), NEW r, IsRun(r, c), NEW p \in Parties, NEW k \in Nat,
           NEW next, Advances(p, next, c, random.coin, k), Speaks(next, p), next.s = r[k + 1][p],
           NEW q \in Parties, q # p
    PROVE  Truthful(next.said[q], c, r, p, q)
<1> DEFINE a == k + 1
           w == next.said[q]
           s == next.s
<1>1. PICK d \in Nat :
        /\ k < d
        /\ \A j \in (k + 1)..(d - 1) : \A x \in Parties : ~Sends(c[j], x, p)
        /\ \A x \in Parties : x # p => Holds(next.said[x], c, random.coin, p, x, k + 1, d)
  BY DEF Advances
<1>2. a \in Nat \ {0} /\ a <= d
  BY <1>1
<1>3. /\ \A j \in a..(d - 1) : \A x \in Parties : ~Sends(c[j], x, p)
      /\ Holds(w, c, random.coin, p, q, a, d)
  BY <1>1
<1>4. Right(w, s, p, q)
  BY DEF Speaks
<1>5. s = r[a][p]
  OBVIOUS
<1> HIDE DEF a, w, s
<1>6. \A j \in a..d : r[j][p] = r[a][p]
  BY <1>2, <1>3, RunStill
<1>7. PICK f \in [1..Len(w) -> Nat] :
        \A i \in 1..Len(w) : f[i] \in a..d /\ IsMessage(w[i], c[f[i]], random.coin, p, q)
  BY <1>3 DEF Holds
<1>8. ASSUME NEW i \in 1..Len(w), NEW j \in Nat, Sends(c[j], p, q), w[i].tag = Tag(c[j].at, c[j])
      PROVE  w[i].body = Owed(c[j], r[j][p], p, q)
  <2> DEFINE e == f[i]
  <2>1. e \in Nat /\ e \in a..d /\ IsMessage(w[i], c[e], random.coin, p, q)
    BY <1>7
  <2> HIDE DEF e
  <2>2. Sends(c[e], p, q) /\ w[i].tag = Tag(c[e].at, c[e])
    BY <2>1 DEF IsMessage
  <2>3. c[e].at # "done"
    BY <2>2 DEF Sends
  <2>4. Tag(c[j].at, c[j]) = Tag(c[e].at, c[e])
    BY <1>8, <2>2
  <2>5. e = j
    BY <2>1, <2>3, <2>4, TagOnce
  <2>6. r[j][p] = s
    BY <1>5, <1>6, <2>1, <2>5
  <2> QED BY <1>4, <1>8, <2>6 DEF Right
<1> QED BY <1>8 DEF Truthful, w

(* Truth survives reading and writing.                                     *)
LEMMA TruthRead ==
    ASSUME NEW c, NEW r, NEW q, NEW p, NEW w, IsSeq(w), w # << >>, Truthful(w, c, r, q, p)
    PROVE  Truthful(Tail(w), c, r, q, p)
<1>1. /\ IsSeq(Tail(w)) /\ Len(Tail(w)) = Len(w) - 1 /\ Len(w) \in Nat
      /\ \A i \in 1..(Len(w) - 1) : Tail(w)[i] = w[i + 1]
  BY TailIsSeq, SeqLength
<1>2. ASSUME NEW i \in 1..Len(Tail(w)) PROVE i + 1 \in 1..Len(w) /\ Tail(w)[i] = w[i + 1]
  BY <1>1
<1> QED BY <1>2 DEF Truthful

(* Truth survives saying more of it.                                       *)
LEMMA TruthWritten ==
    ASSUME NEW c, NEW r, NEW q, NEW p, NEW w, NEW v, IsSeq(w), IsSeq(v),
           Truthful(w, c, r, q, p), Truthful(v, c, r, q, p)
    PROVE  Truthful(w \o v, c, r, q, p)
<1>1. /\ Len(w \o v) = Len(w) + Len(v) /\ Len(w) \in Nat /\ Len(v) \in Nat
      /\ \A i \in 1..Len(w) : (w \o v)[i] = w[i]
      /\ \A i \in 1..Len(v) : (w \o v)[Len(w) + i] = v[i]
  BY ConcatIsSeq, SeqLength
<1>2. ASSUME NEW i \in 1..Len(w \o v)
      PROVE  \/ i \in 1..Len(w) /\ (w \o v)[i] = w[i]
             \/ \E j \in 1..Len(v) : (w \o v)[i] = v[j]
  <2>1. CASE i \in 1..Len(w)
    BY <1>1, <2>1
  <2>2. CASE i \notin 1..Len(w)
    <3>1. i - Len(w) \in 1..Len(v) /\ i = Len(w) + (i - Len(w))
      BY <1>1, <2>2
    <3> DEFINE j == i - Len(w)
    <3>2. (w \o v)[Len(w) + j] = v[j]
      BY <1>1, <3>1
    <3> QED BY <3>1, <3>2
  <2> QED BY <2>1, <2>2
<1> QED BY <1>2 DEF Truthful

(* While somebody still evaluates, nobody has left.                        *)
LEMMA NobodyGone ==
    ASSUME FormInv, NEW c, NEW r, Honest(c, r), NEW p \in Parties, me[p].at \in Kinds
    PROVE  gone = {} /\ \A q \in Parties : me[q].at # "done"
<1>1. me[p].at \notin {"open", "done"}
  BY DEF Kinds
<1>2. ASSUME NEW q \in Parties PROVE me[q].at # "done" /\ ~Ended(q)
  <2>1. me[q].at # "done" /\ me[q].at # "aborted"
    BY <1>1 DEF Honest
  <2> QED BY <2>1 DEF Ended
<1>3. \A q \in Parties : ~Ended(q)
  BY <1>2, Zenon
<1>4. gone = {q \in Parties : Ended(q)}
  BY DEF FormInv
<1> QED BY <1>2, <1>3, <1>4

(* Who has not yet come to the next stage it takes part in is where the    *)
(* run has it there.                                                       *)
LEMMA PlaceKept ==
    ASSUME NEW c, Course(c, random.coin), NEW r, IsRun(r, c), NEW p \in Parties, NEW k \in Nat,
           NEW next, Advances(p, next, c, random.coin, k), next.s = r[k + 1][p],
           NEW j \in Nat, ControlOf(next.s) = c[j]
    PROVE  next.s = r[j][p]
<1> DEFINE a == k + 1
           s == next.s
<1>1. PICK d \in Nat :
        /\ k < d /\ ControlOf(s) = c[d] /\ s.at \notin {"done", "aborted"}
        /\ \A i \in (k + 1)..(d - 1) : \A x \in Parties : ~Sends(c[i], x, p)
  BY DEF Advances
<1>2. a \in Nat \ {0} /\ a <= d /\ \A i \in a..(d - 1) : \A x \in Parties : ~Sends(c[i], x, p)
  BY <1>1
<1>3. s = r[a][p] /\ ControlOf(s) = c[j]
  OBVIOUS
<1> HIDE DEF a, s
<1>4. \A i \in a..d : r[i][p] = r[a][p]
  BY <1>1, <1>2, RunStill
<1>5. c[d].at = s.at
  BY <1>1 DEF ControlOf
<1>6. c[d].at # "done" /\ Tag(c[j].at, c[j]) = Tag(c[d].at, c[d])
  BY <1>1, <1>3, <1>5
<1>7. d = j
  BY <1>1, <1>6, TagOnce
<1>8. d \in a..d
  BY <1>1, <1>2
<1> QED BY <1>3, <1>4, <1>7, <1>8 DEF s

(* A party that goes on says what it owes and keeps its place.             *)
LEMMA GoesTruthful ==
    ASSUME FormInv, NEW c, NEW n, Follows(c, n), NEW r, Honest(c, r), NEW p \in Parties,
           CanRead(p), me[p].at \in Kinds
    PROVE  LET next == Went(p, me[p], Body(p, 1), TrueCoin(random.coin, me[p].coins))
           IN /\ \A q \in Parties : q # p => IsSeq(next.said[q]) /\ Truthful(next.said[q], c, r, p, q)
              /\ \A j \in Nat : ControlOf(next.s) = c[j] => next.s = r[j][p]
              /\ next.s.at \notin {"done", "aborted"}
<1> DEFINE k == n[p]
           s == me[p]
           next == Went(p, s, Body(p, 1), TrueCoin(random.coin, s.coins))
<1>1. ~Ended(p)
  BY DEF Ended, Kinds
<1>2. /\ k \in Nat /\ s = r[k][p] /\ ControlOf(s) = c[k] /\ c[k].prover = s.prover /\ c[k].at = s.at
      /\ TakesPart(c[k], p) /\ GoodAt(c[k], r[k]) /\ IsState(s)
  BY <1>1, HonestPlace
<1>3. next.s = r[k + 1][p]
  BY HonestGoes
<1>4. Counted(s)
  <2>1. Stocked(r[k])
    BY <1>2 DEF GoodAt
  <2> QED BY <1>2, <2>1 DEF Stocked
<1>5. TakesPart(s, p)
  BY <1>2 DEF TakesPart
<1>6. Course(c, random.coin) /\ IsRun(r, c)
  BY DEF Honest
<1>7. s.at \in Kinds
  OBVIOUS
<1> HIDE DEF k, s
<1>8. Speaks(next, p)
  BY <1>2, <1>4, <1>5, <1>7, WentSpeaks
<1>9. Advances(p, next, c, random.coin, k)
  BY <1>2, <1>6, <1>7, WentAdvances
<1> HIDE DEF next
<1>10. ASSUME NEW q \in Parties, q # p PROVE IsSeq(next.said[q]) /\ Truthful(next.said[q], c, r, p, q)
  BY <1>2, <1>3, <1>6, <1>8, <1>9, <1>10, SaidTruthful DEF Advances
<1>11. ASSUME NEW j \in Nat, ControlOf(next.s) = c[j] PROVE next.s = r[j][p]
  BY <1>2, <1>3, <1>6, <1>9, <1>11, PlaceKept
<1>12. next.s.at \notin {"done", "aborted"}
  BY <1>9 DEF Advances
<1> QED BY <1>10, <1>11, <1>12 DEF next, s

(* Messages go out as they are, or one changed item is counted.            *)
LEMMA OutgoingIs ==
    ASSUME NEW p \in Parties, NEW said, NEW o \in Outgoing(p, said)
    PROVE  o = [said |-> said, flips |-> flips] \/ \E v : o = [said |-> v, flips |-> flips + 1]
<1>1. CASE o # [said |-> said, flips |-> flips]
  <2>1. p = 1 /\ \E i \in Items(said) :
            o = [said |-> [said EXCEPT ![i[1]][i[2]].body[i[3]] = @ ## {0}], flips |-> flips + 1]
    BY <1>1, Zenon DEF Outgoing
  <2> QED BY <2>1, Zenon
<1> QED BY <1>1

(* Without a changed item the messages go out as they are.                 *)
LEMMA OutgoingTrue ==
    ASSUME NEW p \in Parties, NEW said, NEW o \in Outgoing(p, said), flips \in Nat, o.flips = 0
    PROVE  o.said = said
<1>1. CASE o = [said |-> said, flips |-> flips]
  BY <1>1
<1>2. CASE \E v : o = [said |-> v, flips |-> flips + 1]
  <2>1. PICK v : o = [said |-> v, flips |-> flips + 1]
    BY <1>2
  <2>2. o.flips = flips + 1
    BY <2>1
  <2> QED BY <2>2
<1> QED BY <1>1, <1>2, OutgoingIs

(* What p says goes on its links, and what it waited for goes off.         *)
LinkGoes(p, said, x, y) ==
    \/ x = p /\ wire'[<<x, y>>] = wire[<<x, y>>] \o said[y]
    \/ x # p /\ wire'[<<x, y>>] = wire[<<x, y>>]
    \/ x # p /\ wire[<<x, y>>] # << >> /\ wire'[<<x, y>>] = Tail(wire[<<x, y>>])
HasAll(p) == \A i \in DOMAIN Awaited(p) : Readable(Awaited(p)[i], p)

(* The links after a step in which p goes on.                              *)
LEMMA GoesLinks ==
    ASSUME flips \in Nat, NEW p \in Parties, NEW next, Goes(p, next), gone = {}, flips' = 0, HasAll(p)
    PROVE  /\ random' = random /\ reset' = reset /\ me' = [me EXCEPT ![p] = next.s]
           /\ \A x, y \in Parties : x # y => LinkGoes(p, next.said, x, y)
<1>1. ~\E q \in gone : next.said[q] # << >>
  OBVIOUS
<1>2. PICK o \in Outgoing(p, next.said) :
        /\ flips' = o.flips
        /\ wire' = [l \in Links |->
             IF l[1] = p THEN wire[l] \o o.said[l[2]]
             ELSE IF l[2] = p /\ \E i \in DOMAIN Awaited(p) : Awaited(p)[i] = l[1]
                    THEN Tail(wire[l]) ELSE wire[l]]
  BY <1>1 DEF Goes
<1>3. random' = random /\ reset' = reset /\ me' = [me EXCEPT ![p] = next.s]
  BY <1>1 DEF Goes
<1>4. o.said = next.said
  BY <1>2, OutgoingTrue
<1>5. ASSUME NEW x \in Parties, NEW y \in Parties, x # y
      PROVE  LinkGoes(p, next.said, x, y)
  <2>1. <<x, y>> \in Links
    BY <1>5 DEF Links
  <2>2. wire'[<<x, y>>] = IF x = p THEN wire[<<x, y>>] \o next.said[y]
                          ELSE IF y = p /\ \E i \in DOMAIN Awaited(p) : Awaited(p)[i] = x
                            THEN Tail(wire[<<x, y>>]) ELSE wire[<<x, y>>]
    BY <1>2, <1>4, <2>1
  <2>3. y = p /\ (\E i \in DOMAIN Awaited(p) : Awaited(p)[i] = x) => wire[<<x, y>>] # << >>
    BY DEF HasAll, Readable
  <2> QED BY <2>2, <2>3 DEF LinkGoes
<1> QED BY <1>3, <1>5

(* Going on without a changed item is honest.                              *)
LEMMA HonestStep ==
    ASSUME FormInv, NEW c, NEW n, Follows(c, n), NEW r, Honest(c, r), flips \in Nat,
           NEW p \in Parties, CanRead(p), me[p].at \in Kinds, GoesOn(p), flips' = 0
    PROVE  Honest(c, r)'
<1> DEFINE next == Went(p, me[p], Body(p, 1), TrueCoin(random.coin, me[p].coins))
           s == next.s
<1>1. /\ \A q \in Parties : q # p => IsSeq(next.said[q]) /\ Truthful(next.said[q], c, r, p, q)
      /\ \A j \in Nat : ControlOf(s) = c[j] => s = r[j][p]
      /\ s.at \notin {"done", "aborted"}
  BY GoesTruthful
<1>2. gone = {} /\ \A q \in Parties : me[q].at # "done"
  BY NobodyGone
<1>3. Goes(p, next)
  BY DEF GoesOn
<1>4. /\ DOMAIN wire = Links /\ \A l \in Links : IsSeq(wire[l])
      /\ DOMAIN me = Parties
  BY DEF FormInv
<1>5. /\ Course(c, random.coin) /\ IsRun(r, c) /\ Begins(r[0]) /\ reset = {}
      /\ \A q \in Parties : me[q].at # "aborted" /\ InPlace(c, r, q)
      /\ \A q, y \in Parties : q # y => Truthful(wire[<<q, y>>], c, r, q, y)
  BY DEF Honest
<1> HIDE DEF next
<1>6. HasAll(p)
  <2>1. ~Ended(p)
    BY DEF Ended, Kinds
  <2>2. IsState(me[p]) /\ ControlOf(me[p]) = c[n[p]] /\ TakesPart(c[n[p]], p)
    BY <2>1, HonestPlace
  <2>3. \A i \in DOMAIN Awaited(p) :
           Awaited(p)[i] \in Parties /\ Sends(c[n[p]], Awaited(p)[i], p)
    BY <2>2, AwaitedSend
  <2>4. \A q \in Parties : Sends(c[n[p]], q, p) => Readable(q, p)
    BY <2>1, CanReadAll
  <2> QED BY <2>3, <2>4, Zenon DEF HasAll
<1>7. /\ random' = random /\ reset' = reset /\ me' = [me EXCEPT ![p] = s]
      /\ \A x, y \in Parties : x # y => LinkGoes(p, next.said, x, y)
  BY <1>2, <1>3, <1>6, GoesLinks
<1>8. me'[p] = s /\ \A q \in Parties : q # p => me'[q] = me[q]
  BY <1>4, <1>7
<1>9. Course(c, random.coin)' /\ reset' = {}
  BY <1>5, <1>7
<1>10. IsRun(r, c)'
  BY <1>5, <1>7, RunKept
<1>11. Begins(r[0])'
  BY <1>5
<1>12. ASSUME NEW q \in Parties PROVE me'[q].at \notin {"aborted", "done"} /\ InPlace(c, r, q)'
  <2>1. CASE q = p
    BY <1>1, <1>8, <2>1 DEF InPlace
  <2>2. CASE q # p
    <3>1. me'[q] = me[q]
      BY <1>8, <2>2
    <3>2. InPlace(c, r, q) /\ me[q].at \notin {"aborted", "done"}
      BY <1>2, <1>5
    <3> QED BY <3>1, <3>2 DEF InPlace
  <2> QED BY <2>1, <2>2
<1>13. ASSUME NEW q \in Parties, NEW y \in Parties, q # y
       PROVE  Truthful(wire[<<q, y>>], c, r, q, y)'
  <2> DEFINE w == wire[<<q, y>>]
             v == wire'[<<q, y>>]
  <2>1. <<q, y>> \in Links
    BY <1>13 DEF Links
  <2>2. IsSeq(w) /\ Truthful(w, c, r, q, y)
    BY <1>4, <1>5, <1>13, <2>1
  <2>3. Truthful(v, c, r, q, y)
    <3>1. CASE q = p
      <4> DEFINE u == next.said[y]
      <4>1. v = w \o u
        BY <1>7, <1>13, <3>1 DEF LinkGoes
      <4>2. IsSeq(u) /\ Truthful(u, c, r, q, y)
        BY <1>1, <1>13, <3>1
      <4> HIDE DEF u, v, w
      <4> QED BY <2>2, <4>1, <4>2, TruthWritten
    <3>2. CASE q # p
      <4>1. v = w \/ (w # << >> /\ v = Tail(w))
        BY <1>7, <1>13, <3>2 DEF LinkGoes
      <4> HIDE DEF v, w
      <4> QED BY <2>2, <4>1, TruthRead
    <3> QED BY <3>1, <3>2
  <2> HIDE DEF w
  <2>4. \A j \in Nat : Owed(c[j], r[j][q], q, y)' = Owed(c[j], r[j][q], q, y)
    BY <1>7, OwedKept
  <2>5. ASSUME NEW i \in 1..Len(v), NEW j \in Nat, Sends(c[j], q, y), v[i].tag = Tag(c[j].at, c[j])
        PROVE  v[i].body = Owed(c[j], r[j][q], q, y)'
    BY <2>3, <2>4, <2>5 DEF Truthful
  <2> QED BY <2>5 DEF Truthful
<1> QED BY <1>9, <1>10, <1>11, <1>12, <1>13 DEF Honest

(* When a party has all it needs to open, nobody evaluates any more.       *)
LEMMA AllOpening ==
    ASSUME FormInv, NEW c, NEW n, Follows(c, n), NEW r, Honest(c, r), NEW p \in Parties,
           me[p].at = "open", CanRead(p), NEW q \in Parties
    PROVE  me[q].at \in {"open", "done"}
<1> DEFINE k == n[p]
           j == n[q]
           w == wire[<<q, p>>]
<1>1. ~Ended(p) /\ me[q].at # "aborted"
  BY DEF Ended, Honest
<1>2. k \in Nat /\ c[k].at = "open"
  BY <1>1, HonestPlace
<1>3. CASE q = p
  BY <1>3
<1>4. CASE q # p
  <2>1. Sends(c[k], q, p)
    BY <1>2, <1>4 DEF Sends
  <2>2. w # << >>
    BY <1>1, <2>1, CanReadAll DEF Readable
  <2>3. IsSeq(w)
    BY <1>4 DEF FormInv, Links
  <2>4. Holds(w, c, random.coin, q, p, k, j)
    BY <1>1, <1>4 DEF Follows, Link
  <2>5. ControlOf(me[q]) = c[j] /\ j \in Nat
    BY <1>1 DEF Follows, OnCourse
  <2>6. c[j].at = me[q].at
    BY <2>5 DEF ControlOf
  <2>7. Course(c, random.coin)
    BY DEF Follows
  <2> HIDE DEF w, k, j
  <2>8. k <= j
    <3>1. 1 \in 1..Len(w)
      BY <2>2, <2>3, SeqLength
    <3>2. PICK f \in [1..Len(w) -> Nat] : \A i \in 1..Len(w) : f[i] \in k..j
      BY <2>4 DEF Holds
    <3>3. f[1] \in k..j
      BY <3>1, <3>2
    <3> QED BY <1>2, <2>5, <3>3
  <2>9. CASE k = j
    BY <1>2, <2>6, <2>9
  <2>10. CASE k < j
    <3> DEFINE a == k + 1
    <3>1. c[a] = [c[k] EXCEPT !.at = "done"]
      BY <1>2, <2>7, AfterOpen, Zenon
    <3>2. StageForm(c[k])
      BY <1>2, <2>7, FormedAlong
    <3>3. c[a].at = "done"
      BY <3>1, <3>2 DEF StageForm, FirstStage
    <3>4. a \in Nat /\ (a = j \/ a < j)
      BY <1>2, <2>5, <2>10
    <3> HIDE DEF a
    <3>5. c[j].at = "done"
      BY <2>5, <2>7, <3>3, <3>4, FartherOn
    <3> QED BY <2>6, <3>5
  <2> QED BY <1>2, <2>5, <2>8, <2>9, <2>10
<1> QED BY <1>3, <1>4

(* Opening the outputs is honest.                                          *)
LEMMA HonestOpen ==
    ASSUME FormInv, NEW c, NEW n, Follows(c, n), NEW r, Honest(c, r), NEW p \in Parties, TakeOpen(p)
    PROVE  Honest(c, r)'
<1>1. me[p].at = "open" /\ CanRead(p) /\ Leaves(p, Silence)
  BY DEF TakeOpen, Agreed, Waits
<1>2. me' = [me EXCEPT ![p] = [@ EXCEPT !.at = "done"]] /\ random' = random
  BY DEF TakeOpen
<1>3. /\ reset' = reset
      /\ wire' = [l \in Links |-> IF l[2] = p THEN << >>
                                  ELSE IF l[1] = p THEN wire[l] \o Silence[l[2]] ELSE wire[l]]
  BY <1>1 DEF Leaves
<1>4. /\ DOMAIN wire = Links /\ \A l \in Links : IsSeq(wire[l])
      /\ DOMAIN me = Parties /\ IsState(me[p])
  BY DEF FormInv
<1>5. /\ Course(c, random.coin) /\ IsRun(r, c) /\ Begins(r[0]) /\ reset = {}
      /\ \A q \in Parties : me[q].at # "aborted" /\ InPlace(c, r, q)
      /\ \A q, y \in Parties : q # y => Truthful(wire[<<q, y>>], c, r, q, y)
  BY DEF Honest
<1>6. me'[p].at = "done" /\ \A q \in Parties : q # p => me'[q] = me[q]
  BY <1>2, <1>4 DEF IsState, Fields
<1>7. Course(c, random.coin)' /\ reset' = {}
  BY <1>2, <1>3, <1>5
<1>8. IsRun(r, c)'
  BY <1>2, <1>5, RunKept
<1>9. Begins(r[0])'
  BY <1>5
<1>10. ASSUME NEW q \in Parties PROVE me'[q].at \in {"open", "done"} /\ InPlace(c, r, q)'
  <2>1. CASE q = p
    BY <1>6, <2>1 DEF InPlace
  <2>2. CASE q # p
    <3>1. me'[q] = me[q]
      BY <1>6, <2>2
    <3>2. InPlace(c, r, q)
      BY <1>5
    <3>3. me[q].at \in {"open", "done"}
      BY <1>1, AllOpening
    <3> QED BY <3>1, <3>2, <3>3 DEF InPlace
  <2> QED BY <2>1, <2>2
<1>11. ASSUME NEW q \in Parties, NEW y \in Parties, q # y
       PROVE  Truthful(wire[<<q, y>>], c, r, q, y)'
  <2> DEFINE w == wire[<<q, y>>]
             v == wire'[<<q, y>>]
  <2>1. <<q, y>> \in Links
    BY <1>11 DEF Links
  <2>2. IsSeq(w) /\ Truthful(w, c, r, q, y)
    BY <1>4, <1>5, <1>11, <2>1
  <2>3. v = << >> \/ v = w
    <3>1. v = IF y = p THEN << >> ELSE IF q = p THEN w \o Silence[y] ELSE w
      BY <1>3, <2>1
    <3>2. Silence[y] = << >>
      BY DEF Silence
    <3> HIDE DEF v, w
    <3>3. w \o << >> = w
      BY <2>2, ConcatEmpty
    <3> QED BY <3>1, <3>2, <3>3, Zenon
  <2>4. Len(<< >>) = 0 /\ 1..0 = {}
    OBVIOUS
  <2>5. Truthful(v, c, r, q, y)
    <3> HIDE DEF v, w
    <3>1. Truthful(<< >>, c, r, q, y)
      BY <2>4 DEF Truthful
    <3> QED BY <2>2, <2>3, <3>1
  <2> HIDE DEF w
  <2>6. \A j \in Nat : Owed(c[j], r[j][q], q, y)' = Owed(c[j], r[j][q], q, y)
    BY <1>2, OwedKept
  <2>7. ASSUME NEW i \in 1..Len(v), NEW j \in Nat, Sends(c[j], q, y), v[i].tag = Tag(c[j].at, c[j])
        PROVE  v[i].body = Owed(c[j], r[j][q], q, y)'
    BY <2>5, <2>6, <2>7 DEF Truthful
  <2> QED BY <2>7 DEF Truthful
<1> QED BY <1>7, <1>8, <1>9, <1>10, <1>11 DEF Honest

-----------------------------------------------------------------------------
(* Nobody aborts. *)

(* A dealt sharing fits all three parties.                                 *)
LEMMA InputsFit ==
    ASSUME NEW p \in Parties, NEW q \in Parties, NEW words
    PROVE  /\ Tape(InputTape(p, words), Wires(Multiplier))
           /\ Fitting(InputTape(p, words), InputTape(NextOf(p), words), Wires(Multiplier))
<1> DEFINE x(w) == ShareWord(words[w + 1], random.deal[w + 1][1], random.deal[w + 1][2])
           v(r, w) == IF w + 1 \in DOMAIN words THEN x(w)[r] ELSE NoPair
<1>1. ASSUME NEW a, NEW b, NEW d, NEW r \in Parties
      PROVE  /\ ShareWord(a, b, d)[r] = <<ShareWord(a, b, d)[r][1], ShareWord(a, b, d)[r][2]>>
             /\ ShareWord(a, b, d)[r][2] = ShareWord(a, b, d)[NextOf(r)][1]
  BY Neighbours DEF ShareWord, Replicated
<1>2. NoPair = <<NoPair[1], NoPair[2]>> /\ NoPair[1] = NoPair[2]
  BY DEF NoPair
<1>3. NextOf(p) \in Parties
  BY Neighbours
<1>4. \A r \in Parties : InputTape(r, words) = [w \in Wires(Multiplier) |-> v(r, w)]
  BY DEF InputTape
<1>5. ASSUME NEW r \in Parties, NEW w
      PROVE  v(r, w) = <<v(r, w)[1], v(r, w)[2]>> /\ v(r, w)[2] = v(NextOf(r), w)[1]
  <2>1. x(w)[r] = <<x(w)[r][1], x(w)[r][2]>> /\ x(w)[r][2] = x(w)[NextOf(r)][1]
    BY <1>1
  <2> HIDE DEF x
  <2> QED BY <1>2, <2>1
<1> HIDE DEF v
<1>6. Tape(InputTape(p, words), Wires(Multiplier))
  <2> DEFINE t == InputTape(p, words)
  <2>1. t = [w \in Wires(Multiplier) |-> v(p, w)]
    BY <1>4
  <2> HIDE DEF t
  <2>2. \A w \in Wires(Multiplier) : v(p, w) = <<t[w][1], t[w][2]>>
    BY <1>5, <2>1
  <2>3. t = [w \in Wires(Multiplier) |-> <<t[w][1], t[w][2]>>]
    BY <2>1, <2>2
  <2> QED BY <2>3 DEF Tape, t
<1>7. Fitting(InputTape(p, words), InputTape(NextOf(p), words), Wires(Multiplier))
  BY <1>3, <1>4, <1>5 DEF Fitting
<1> QED BY <1>6, <1>7

(* At the start nothing is logged and the inputs are shared.               *)
LEMMA InitBegins == Init => Begins(me)
<1> SUFFICES ASSUME Init PROVE Begins(me)
  OBVIOUS
<1>1. PICK inputs : me = [p \in Parties |->
                    [at |-> "start", phase |-> 0, prover |-> 0, round |-> 0, coins |-> 1, draws |-> 0,
                     prng |-> 0, tape |-> InputTape(p, FlattenSeq(inputs)), log |-> << >>,
                     seed |-> Zero, u |-> << >>, v |-> << >>, len |-> 0, tau |-> Zero,
                     pi |-> << >>, mine |-> << >>]]
  BY DEF Init
<1> DEFINE words == FlattenSeq(inputs)
<1>2. DOMAIN me = Parties /\ \A p \in Parties :
        /\ DOMAIN me[p] = Fields /\ me[p].at = "start" /\ me[p].phase = 0 /\ me[p].prover = 0
        /\ me[p].round = 0 /\ me[p].coins = 1 /\ me[p].len = 0 /\ me[p].log = << >>
        /\ me[p].draws = 0 /\ me[p].prng = 0 /\ me[p].tape = InputTape(p, words)
  BY <1>1 DEF Fields
<1> HIDE DEF words
<1>3. ASSUME NEW p \in Parties
      PROVE  /\ IsState(me[p]) /\ Counted(me[p]) /\ ControlOf(me[p]) = FirstStage
             /\ NextOf(p) \in Parties
             /\ Tape(me[p].tape, Wires(Multiplier)) /\ me[p].draws = me[NextOf(p)].draws
             /\ Fitting(me[p].tape, me[NextOf(p)].tape, Wires(Multiplier))
  <2>1. IsState(me[p])
    BY <1>2, EmptyIsSeq DEF IsState, Parties
  <2>2. Len(me[p].log) = 0
    BY <1>2, EmptyIsSeq
  <2>3. ControlOf(me[p]) = FirstStage
    BY <1>2, <2>2 DEF ControlOf, FirstStage
  <2>4. NextOf(p) \in Parties
    BY Neighbours
  <2>5. Tape(InputTape(p, words), Wires(Multiplier)) /\
        Fitting(InputTape(p, words), InputTape(NextOf(p), words), Wires(Multiplier))
    BY InputsFit
  <2>6. me[p].tape = InputTape(p, words) /\ me[NextOf(p)].tape = InputTape(NextOf(p), words)
        /\ me[p].draws = 0 /\ me[NextOf(p)].draws = 0
    BY <1>2, <2>4
  <2>7. Counted(me[p])
    BY <1>2 DEF Counted
  <2> QED BY <2>1, <2>3, <2>4, <2>5, <2>6, <2>7
<1>4. Stocked(me) /\ Fits(me)
  BY <1>3 DEF Stocked, Fits
<1>5. LogsFit(me, 0) /\ ReceivedTo(me, 0)
  <2>1. DOMAIN << >> = 1..0 /\ 1..0 = {}
    OBVIOUS
  <2>2. Entries(<< >>, 0) /\ LogPair(<< >>, << >>, 0) /\ Received(<< >>, << >>, 0)
    BY <2>1 DEF Entries, LogPair, Received
  <2>3. ASSUME NEW p \in Parties PROVE me[p].log = << >> /\ me[NextOf(p)].log = << >>
    BY <1>2, Neighbours
  <2> QED BY <2>2, <2>3, Zenon DEF LogsFit, ReceivedTo
<1>6. FirstStage.at = "start"
  BY DEF FirstStage
<1>7. GoodAt(FirstStage, me)
  BY <1>4, <1>5, <1>6, Zenon DEF GoodAt, Instanced
<1> QED BY <1>3, <1>7 DEF Begins

(* At the start the parties are at the beginning of the run.               *)
LEMMA InitHonest == Init => HonestInv
<1> SUFFICES ASSUME Init PROVE HonestInv
  OBVIOUS
<1>1. flips = 0 /\ reset = {} /\ wire = [l \in Links |-> << >>]
  BY DEF Init, NetInit
<1>2. PICK c : Course(c, random.coin)
  BY CourseExists
<1>3. PICK r : IsRun(r, c) /\ r[0] = me
  BY RunExists
<1>4. Begins(me)
  BY InitBegins
<1>5. c[0] = FirstStage /\ FirstStage.at = "start"
  BY <1>2 DEF Course, FirstStage
<1>6. ASSUME NEW p \in Parties PROVE me[p].at = "start" /\ InPlace(c, r, p)
  <2>1. ControlOf(me[p]) = c[0]
    BY <1>4, <1>5 DEF Begins
  <2>2. me[p].at = "start"
    BY <1>5, <2>1 DEF ControlOf
  <2>3. ASSUME NEW k \in Nat, ControlOf(me[p]) = c[k] PROVE me[p] = r[k][p]
    <3> DEFINE i == 0
    <3>1. i \in Nat /\ c[i].at # "done" /\ Tag(c[k].at, c[k]) = Tag(c[i].at, c[i]) /\ r[i] = me
      BY <1>3, <1>5, <2>1, <2>3
    <3> HIDE DEF i
    <3>2. i = k
      BY <1>2, <3>1, TagOnce
    <3> QED BY <3>1, <3>2
  <2> QED BY <2>2, <2>3 DEF InPlace
<1>7. ASSUME NEW q \in Parties, NEW p \in Parties, q # p
      PROVE  Truthful(wire[<<q, p>>], c, r, q, p)
  <2>1. wire[<<q, p>>] = << >>
    BY <1>1, <1>7 DEF Links
  <2>2. Len(<< >>) = 0 /\ 1..0 = {}
    OBVIOUS
  <2>3. Truthful(<< >>, c, r, q, p)
    BY <2>2 DEF Truthful
  <2> QED BY <2>1, <2>3
<1>8. Honest(c, r)
  BY <1>1, <1>2, <1>3, <1>4, <1>6, <1>7 DEF Honest
<1> QED BY <1>1, <1>8 DEF HonestInv

(* A step changes at most one item more.                                   *)
LEMMA FlipsCounted ==
    ASSUME flips \in Nat, NEW p \in Parties,
           GoesOn(p) \/ CheckFails(p) \/ Cascade(p) \/ TakeOpen(p)
    PROVE  flips' \in {flips, flips + 1}
<1>1. ASSUME NEW said, Aborts(p, said) PROVE flips' = flips
  BY <1>1 DEF Aborts
<1>2. CASE CheckFails(p) \/ Cascade(p)
  <2>1. Aborts(p, Silence)
    BY <1>2 DEF CheckFails, DoubleFails, Cascade
  <2> QED BY <1>1, <2>1
<1>3. CASE TakeOpen(p)
  BY <1>3 DEF TakeOpen
<1>4. CASE GoesOn(p)
  <2> DEFINE next == Went(p, me[p], Body(p, 1), TrueCoin(random.coin, me[p].coins))
  <2>1. Goes(p, next)
    BY <1>4 DEF GoesOn
  <2> HIDE DEF next
  <2>2. (\E said : Aborts(p, said)) \/ \E o \in Outgoing(p, next.said) : flips' = o.flips
    BY <2>1, Zenon DEF Goes
  <2>3. CASE \E said : Aborts(p, said)
    BY <1>1, <2>3
  <2>4. CASE \E o \in Outgoing(p, next.said) : flips' = o.flips
    <3>1. PICK o \in Outgoing(p, next.said) : flips' = o.flips
      BY <2>4
    <3>2. o.flips \in {flips, flips + 1}
      <4>1. \/ o = [said |-> next.said, flips |-> flips]
            \/ \E v : o = [said |-> v, flips |-> flips + 1]
        BY OutgoingIs
      <4> QED BY <4>1
    <3> QED BY <3>1, <3>2
  <2> QED BY <2>2, <2>3, <2>4
<1> QED BY <1>2, <1>3, <1>4

(* Whatever a party does is honest unless an item is changed.              *)
LEMMA StepHonest ==
    ASSUME IInv, HonestInv, NEW p \in Parties, Step(p)
    PROVE  HonestInv'
<1>1. PICK d, n : Follows(d, n)
  BY DEF IInv
<1>2. FormInv /\ flips \in Nat
  BY DEF IInv, HonestInv
<1>3. \/ CanRead(p) /\ me[p].at \in Kinds /\ GoesOn(p)
      \/ CheckFails(p) \/ Cascade(p) \/ TakeOpen(p)
  BY <1>1, <1>2, StepGoes
<1>4. flips' \in {flips, flips + 1}
  BY <1>2, <1>3, FlipsCounted
<1>5. flips' \in Nat /\ (flips' = 0 => flips = 0)
  BY <1>2, <1>4
<1>6. ASSUME flips' = 0 PROVE \E c, r : Honest(c, r)'
  <2>1. PICK c, r : Honest(c, r)
    BY <1>5, <1>6 DEF HonestInv
  <2>2. Follows(c, n)
    <3>1. Course(c, random.coin)
      BY <2>1 DEF Honest
    <3> QED BY <1>1, <3>1, FollowsAny
  <2>3. ~CheckFails(p) /\ ~Cascade(p)
    BY <1>2, <2>1, <2>2, ChecksPass, NobodyLost
  <2>4. CASE CanRead(p) /\ me[p].at \in Kinds /\ GoesOn(p)
    BY <1>2, <1>6, <2>1, <2>2, <2>4, HonestStep
  <2>5. CASE TakeOpen(p)
    BY <1>2, <2>1, <2>2, <2>5, HonestOpen
  <2> QED BY <1>3, <2>3, <2>4, <2>5
<1> QED BY <1>5, <1>6 DEF HonestInv

(* A step in which nothing happens leaves all this as it is.               *)
LEMMA IdleHonest ==
    ASSUME HonestInv, UNCHANGED vars
    PROVE  HonestInv'
<1>1. flips' = flips /\ reset' = reset /\ wire' = wire /\ me' = me /\ random' = random
  BY DEF vars, netVars
<1>2. ASSUME NEW c, NEW r, Honest(c, r) PROVE Honest(c, r)'
  <2>1. /\ Course(c, random.coin) /\ IsRun(r, c) /\ Begins(r[0]) /\ reset = {}
        /\ \A p \in Parties : me[p].at # "aborted" /\ InPlace(c, r, p)
        /\ \A p, q \in Parties : me[q].at = "done" => me[p].at \in {"open", "done"}
        /\ \A q, p \in Parties : q # p => Truthful(wire[<<q, p>>], c, r, q, p)
    BY <1>2 DEF Honest
  <2>2. IsRun(r, c)'
    BY <1>1, <2>1, RunKept
  <2>3. ASSUME NEW p \in Parties PROVE (me[p].at # "aborted" /\ InPlace(c, r, p))'
    BY <1>1, <2>1 DEF InPlace
  <2>4. ASSUME NEW q \in Parties, NEW p \in Parties, q # p
        PROVE  Truthful(wire[<<q, p>>], c, r, q, p)'
    <3>1. \A j \in Nat : Owed(c[j], r[j][q], q, p)' = Owed(c[j], r[j][q], q, p)
      BY <1>1, OwedKept
    <3>2. Truthful(wire[<<q, p>>], c, r, q, p)
      BY <2>1, <2>4
    <3> DEFINE w == wire[<<q, p>>]
    <3>3. w' = w
      BY <1>1
    <3>4. ASSUME NEW i \in 1..Len(w), NEW j \in Nat, Sends(c[j], q, p), w[i].tag = Tag(c[j].at, c[j])
          PROVE  w[i].body = Owed(c[j], r[j][q], q, p)'
      BY <3>1, <3>2, <3>4 DEF Truthful
    <3> QED BY <3>3, <3>4 DEF Truthful
  <2> QED BY <1>1, <2>1, <2>2, <2>3, <2>4 DEF Honest
<1>3. flips' \in Nat /\ (flips' = 0 => \E c, r : Honest(c, r))
  BY <1>1 DEF HonestInv
<1> QED BY <1>2, <1>3 DEF HonestInv

(* Honest proofs are accepted: unless an item of party 1's arrives changed *)
(* every target, every fold and every last product agrees, and nobody      *)
(* aborts (dzkp.rs:252, 334, 353).                                         *)
THEOREM HonestAccepted == Spec => []OnlyCorruptionAborts
<1>1. Init => IInv /\ HonestInv
  BY InitIInv, InitHonest
<1>2. IInv /\ HonestInv /\ [Next]_vars => (IInv /\ HonestInv)'
  <2> SUFFICES ASSUME IInv, HonestInv, [Next]_vars PROVE IInv' /\ HonestInv'
    OBVIOUS
  <2>1. IInv'
    BY StepIInv
  <2>2. CASE Next
    BY <2>1, <2>2, StepHonest DEF Next
  <2>3. CASE UNCHANGED vars
    BY <2>1, <2>3, IdleHonest
  <2> QED BY <2>1, <2>2, <2>3
<1>3. HonestInv => OnlyCorruptionAborts
  BY DEF HonestInv, Honest, OnlyCorruptionAborts
<1> QED BY <1>1, <1>2, <1>3, PTL DEF Spec
=============================================================================
